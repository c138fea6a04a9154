------------------------ MODULE ConferenceEventsProofs ------------------------
(***************************************************************************)
(* Proofs about ConferenceEvents, for any number of participants,          *)
(* endpoints, rooms and workers, and for any bounds.                       *)
(***************************************************************************)
EXTENDS ConferenceEvents, SequenceTheorems, TLAPS

(***************************************************************************)
(* Operations on a conference keep it a conference.                        *)
(***************************************************************************)
\* A new conference is a conference.
LEMMA NewConferenceType == NewConference \in CachedConference
  BY DEF NewConference, CachedConference, ConferenceStatus, ParticipantStatus,
         EndpointStatus

\* Removing an empty room from the list changes the list only.
LEMMA CheckAndRemoveType ==
  ASSUME NEW c \in CachedConference, NEW label
  PROVE  CheckAndRemoveEmptyConsultationRoom(c, label) \in CachedConference
  BY DEF CheckAndRemoveEmptyConsultationRoom, CachedConference

\* Entering and leaving consultation rooms, for participants ...
LEMMA ParticipantRoomType ==
  ASSUME NEW c \in CachedConference, NEW p
  PROVE  /\ \A label \in Rooms :
              AddParticipantToConsultationRoom(c, label, p) \in CachedConference
         /\ \A label :
              RemoveParticipantFromConsultationRoom(c, p, label)
                \in CachedConference
<1>1. ASSUME NEW label \in Rooms
      PROVE  AddParticipantToConsultationRoom(c, label, p) \in CachedConference
  BY DEF AddParticipantToConsultationRoom, UpsertConsultationRoom, CachedConference
<1>2. [c EXCEPT !.pRoom[p] = NoRoom] \in CachedConference
  BY DEF CachedConference
<1>3. ASSUME NEW label
      PROVE  RemoveParticipantFromConsultationRoom(c, p, label) \in CachedConference
  BY <1>2, CheckAndRemoveType DEF RemoveParticipantFromConsultationRoom
<1> QED BY <1>1, <1>3

\* ... and for endpoints.
LEMMA EndpointRoomType ==
  ASSUME NEW c \in CachedConference, NEW e
  PROVE  /\ \A label \in Rooms :
              AddEndpointToConsultationRoom(c, label, e) \in CachedConference
         /\ \A label :
              RemoveEndpointFromConsultationRoom(c, e, label) \in CachedConference
<1>1. ASSUME NEW label \in Rooms
      PROVE  AddEndpointToConsultationRoom(c, label, e) \in CachedConference
  BY DEF AddEndpointToConsultationRoom, UpsertConsultationRoom, CachedConference
<1>2. [c EXCEPT !.eRoom[e] = NoRoom] \in CachedConference
  BY DEF CachedConference
<1>3. ASSUME NEW label
      PROVE  RemoveEndpointFromConsultationRoom(c, e, label) \in CachedConference
  BY <1>2, CheckAndRemoveType DEF RemoveEndpointFromConsultationRoom
<1> QED BY <1>1, <1>3

\* Status updates.
LEMMA StatusType ==
  ASSUME NEW c \in CachedConference
  PROVE  /\ \A p \in Participants, status \in ParticipantStatus :
              UpdateParticipantStatus(c, p, status) \in CachedConference
         /\ \A e \in Endpoints, status \in EndpointStatus :
              UpdateEndpointStatus(c, e, status) \in CachedConference
         /\ \A status \in ConferenceStatus :
              UpdateConferenceStatus(c, status) \in CachedConference
         /\ CompleteCountdown(c) \in CachedConference
<1>1. ASSUME NEW p \in Participants, NEW status \in ParticipantStatus
      PROVE  UpdateParticipantStatus(c, p, status) \in CachedConference
  <2>1. [c EXCEPT !.pStatus[p] = status] \in CachedConference
    BY DEF CachedConference
  <2> QED BY <2>1, ParticipantRoomType DEF UpdateParticipantStatus
<1>2. ASSUME NEW e \in Endpoints, NEW status \in EndpointStatus
      PROVE  UpdateEndpointStatus(c, e, status) \in CachedConference
  BY DEF UpdateEndpointStatus, CachedConference
<1>3. ASSUME NEW status \in ConferenceStatus
      PROVE  UpdateConferenceStatus(c, status) \in CachedConference
  BY DEF UpdateConferenceStatus, CachedConference
<1>4. CompleteCountdown(c) \in CachedConference
  BY DEF CompleteCountdown, CachedConference
<1> QED BY <1>1, <1>2, <1>3, <1>4

\* The civilian room, and the conference built from the Video API.
LEMMA CivilianRoomType ==
  ASSUME NEW c \in CachedConference
  PROVE  /\ \A p \in Participants :
              /\ AddParticipantToRoom(c, p) \in CachedConference
              /\ RemoveParticipantFromRoom(c, p) \in CachedConference
         /\ MapConferenceToCacheModel(c) \in CachedConference
         /\ \A label \in Rooms :
              UpsertConsultationRoom(c, label) \in CachedConference
  BY DEF AddParticipantToRoom, RemoveParticipantFromRoom,
         MapConferenceToCacheModel, UpsertConsultationRoom, CachedConference
-----------------------------------------------------------------------------
(***************************************************************************)
(* The type invariant is not inductive on its own: that a handler writes a *)
(* participant's status to a participant depends on what was sent.  These  *)
(* are the events that are sent and the callbacks that come from them.     *)
(***************************************************************************)
ParticipantTypes ==
  {"Joined", "Disconnected", "Leave", "LeaveForOtherDevice", "Transfer"}
    \cup BrowserTypes
ConferenceTypes == {"Start", "Pause", "Suspend", "Close", "CountdownFinished"}

SentEvents ==
  {e \in Event :
     /\ e.who \in Participants => e.type \in ParticipantTypes
     /\ e.who \in Endpoints => e.type \in {"Joined", "Disconnected", "Transfer"}
     /\ e.who = VMR => e.type = "Transfer"
     /\ e.who = Nobody =>
          e.type \in ConferenceTypes \cup {"StartConsultation", "Refresh"}
     /\ e.via => e.who \in Participants
     /\ e.type = "StartConsultation" => e.to \in Rooms}

ProperCallbacks ==
  {cb \in Callback :
     /\ cb.who \in Participants => cb.status \in ParticipantStatus
     /\ cb.who \in Endpoints =>
          cb.status \in EndpointStatus
     /\ cb.who = Nobody =>
          cb.type = "CountdownFinished" \/ cb.status \in ConferenceStatus
     /\ cb.type = "Leave" => cb.who \in Participants
     /\ cb.type \in BrowserTypes =>
          /\ cb.who \in Participants
          /\ cb.status \in {"NotSignedIn", "Joining", "Disconnected"}}

HandlerSteps == {"room", "writeRoom", "status", "publish"}

ProperRequests ==
  {r \in Request :
     /\ r.event \in SentEvents
     /\ r.unraised \in SUBSET ProperCallbacks
     /\ r.unpublished \in SUBSET ProperCallbacks
     /\ r.pc \in HandlerSteps \/ (r.pc \in {"get", "fill"} /\ r.phase = "handler")
          => r.current \in ProperCallbacks
     /\ r.pc \in HandlerSteps => r.phase = "handler"
     /\ r.pc \in {"get", "fill"} /\ r.phase = "controller" => r.event.type # "Refresh"
     /\ r.pc = "plan" => r.event.type \notin {"Refresh", "StartConsultation"}
     /\ r.pc = "create" => r.event.type = "StartConsultation"}

TypeInv ==
  /\ where \in [Parties -> Locations \cup {"Out"}]
  /\ hearing \in [status : ConferenceStatus, countdown : BOOLEAN]
  /\ net \in Seq(SentEvents)
  /\ cache \in CachedConference \cup {Missing}
  /\ api \in CachedConference
  /\ raised \in SUBSET Callback
  /\ req \in [Workers -> ProperRequests]
  /\ ui \in CachedConference
  /\ sent \in Nat
  /\ faults \in Nat

\* The inductive invariant gives the type invariant.
LEMMA TypeInvImpliesTypeOK == TypeInv => TypeOK
<1> SUFFICES ASSUME TypeInv PROVE TypeOK
  OBVIOUS
<1>1. net \in Seq(Event)
  BY SeqMonotonic DEF TypeInv, SentEvents
<1>2. req \in [Workers -> Request]
  BY DEF TypeInv, ProperRequests
<1> QED BY <1>1, <1>2 DEF TypeInv, TypeOK

\* The event of Idle, and Idle itself.
LEMMA IdleType == Idle \in ProperRequests
<1>1. Simple("Refresh", Nobody) \in SentEvents
  BY EventsAssumption DEF SentEvents, Event, Simple, Types, Parties,
     ConferenceTypes, SupplierTypes, BrowserTypes
<1>2. NoCallback \in Callback
  BY DEF NoCallback, Callback, Types, Statuses, ParticipantStatus
<1>3. Idle \in Request
  BY <1>1, <1>2, NewConferenceType
  DEF Idle, Request, Steps, Phases, SentEvents
<1> QED BY <1>1, <1>3 DEF ProperRequests, Idle, HandlerSteps

\* It holds initially, with or without a cached conference.
LEMMA InitTypeInv == Init => TypeInv
<1> SUFFICES ASSUME Init PROVE TypeInv
  OBVIOUS
<1>1. net \in Seq(SentEvents)
  BY DEF Init
<1>2. hearing \in [status : ConferenceStatus, countdown : BOOLEAN]
  BY DEF Init, ConferenceStatus
<1>3. req \in [Workers -> ProperRequests]
  BY IdleType DEF Init
<1> QED BY <1>1, <1>2, <1>3, NewConferenceType DEF Init, TypeInv
-----------------------------------------------------------------------------
(***************************************************************************)
(* What the steps of a request are made of preserves the types.            *)
(***************************************************************************)

\* The mapper gives each callback a status its handler can set.
LEMMA CallbacksType ==
  ASSUME NEW c \in CachedConference, NEW e \in SentEvents,
         e.type \notin {"Refresh", "StartConsultation"}
  PROVE  Callbacks(e, c) \in SUBSET ProperCallbacks
<1> SUFFICES ASSUME NEW party \in Concerned(e, c)
             PROVE  [type |-> e.type, who |-> party, status |-> StatusOf(e, party, c),
                     from |-> e.from, to |-> e.to] \in ProperCallbacks
  BY DEF Callbacks
<1>1. /\ e \in Event
      /\ party \in Participants \/ party \in Endpoints \/ party = Nobody
      /\ party \in Participants => e.type \in ParticipantTypes
      /\ party \in Endpoints => e.type \in {"Joined", "Disconnected", "Transfer"}
      /\ party = Nobody => e.type \in ConferenceTypes
  BY EventsAssumption, PartiesAssumption
  DEF Concerned, SentEvents, Event, CachedConference, Parties, ParticipantTypes
<1>2. party \in Participants => StatusOf(e, party, c) \in ParticipantStatus
  BY <1>1, PartiesAssumption
  DEF StatusOf, ParticipantTypes, BrowserTypes, JoinedStatus, TransferStatus,
      ParticipantStatus
<1>3. party \in Endpoints => StatusOf(e, party, c) \in EndpointStatus
  BY <1>1 DEF StatusOf, TransferStatus, EndpointStatus
<1>4. party = Nobody =>
        \/ e.type = "CountdownFinished" /\ StatusOf(e, party, c) \in Statuses
        \/ StatusOf(e, party, c) \in ConferenceStatus
  BY <1>1
  DEF StatusOf, ConferenceTypes, ConferenceStatusOf, ConferenceStatus, Statuses,
      ParticipantStatus
<1>5. /\ party = Nobody => party \notin Participants \cup Endpoints
      /\ ~(party \in Participants /\ party \in Endpoints)
  BY EventsAssumption, PartiesAssumption
<1>6. StatusOf(e, party, c) \in Statuses
  BY <1>1, <1>2, <1>3, <1>4 DEF Statuses
<1>7. e.type \in BrowserTypes =>
        /\ party \in Participants
        /\ StatusOf(e, party, c) \in {"NotSignedIn", "Joining", "Disconnected"}
  BY <1>1 DEF BrowserTypes, ConferenceTypes, StatusOf
<1>8. e.type = "Leave" => party \in Participants
  BY <1>1 DEF ConferenceTypes
<1>9. [type |-> e.type, who |-> party, status |-> StatusOf(e, party, c),
       from |-> e.from, to |-> e.to] \in Callback
  BY <1>1, <1>6 DEF Callback, Event, Parties
<1> QED BY <1>2, <1>3, <1>4, <1>5, <1>7, <1>8, <1>9 DEF ProperCallbacks

\* What a handler does to its copy, and what a client shows.
LEMMA HandlerType ==
  ASSUME NEW c \in CachedConference, NEW cb \in ProperCallbacks
  PROVE  /\ SetStatus(c, cb) \in CachedConference
         /\ MoveRoom(c, cb) \in CachedConference
         /\ ShowRoom(c, cb) \in CachedConference
         /\ ShowStatus(c, cb) \in CachedConference
         /\ Record(c, cb) \in CachedConference
<1>1. ASSUME NEW d \in CachedConference
      PROVE  SetStatus(d, cb) \in CachedConference
  BY StatusType DEF SetStatus, ProperCallbacks, Callback, Parties
<1>2. MoveRoom(c, cb) \in CachedConference
  BY ParticipantRoomType, EndpointRoomType DEF MoveRoom, IsConsultation
<1>3. ShowRoom(c, cb) \in CachedConference
  BY DEF ShowRoom, IsConsultation, CachedConference
<1>4. ASSUME NEW d \in CachedConference
      PROVE  ShowStatus(d, cb) \in CachedConference
  <2>1. SetStatus(d, cb) \in CachedConference
    BY <1>1
  <2> QED BY <2>1 DEF ShowStatus, CachedConference
<1> QED BY <1>1, <1>2, <1>3, <1>4 DEF Record

\* Where a request goes after a callback.
LEMMA FollowingType ==
  ASSUME NEW r
  PROVE  Following(r) \in {"raise", "next", "relay", "idle"}
  BY DEF Following

\* A worker that goes on to its next callback, event or relay.
LEMMA ContinueType ==
  ASSUME TypeInv, NEW w \in Workers, NEW r \in ProperRequests, Continue(w, r)
  PROVE  req' \in [Workers -> ProperRequests]
<1> DEFINE next == [r EXCEPT !.pc = Following(r), !.current = NoCallback,
                             !.conf = NewConference, !.overtaken = FALSE]
<1>1. NoCallback \in Callback
  BY DEF NoCallback, Callback, Types, Statuses, ParticipantStatus
<1>2. Following(r) # "idle" => Following(r) \in {"raise", "next", "relay"}
  BY FollowingType
<1>3. Following(r) # "idle" => next \in Request
  BY <1>1, <1>2, NewConferenceType DEF ProperRequests, Request, Steps
<1>4. Following(r) # "idle" => next \in ProperRequests
  BY <1>2, <1>3 DEF ProperRequests, Request, HandlerSteps
<1> QED BY <1>4, IdleType DEF Continue, TypeInv

\* A write, by whichever of its two outcomes.
LEMMA WriteType ==
  ASSUME TypeInv, NEW w \in Workers, NEW c \in CachedConference,
         NEW r \in ProperRequests, WriteToCache(w, c, r)
  PROVE  /\ cache' \in CachedConference \cup {Missing}
         /\ req' \in [Workers -> ProperRequests]
         /\ faults' \in Nat
<1>1. [req EXCEPT ![w] = r] \in [Workers -> ProperRequests]
  BY DEF TypeInv
<1>2. ASSUME NEW rs \in [Workers -> ProperRequests]
      PROVE  Overtake(rs, w) \in [Workers -> ProperRequests]
  <2>1. ASSUME NEW v \in Workers
        PROVE  [rs[v] EXCEPT !.overtaken = TRUE] \in ProperRequests
    BY DEF ProperRequests, Request
  <2> QED BY <2>1 DEF Overtake
<1>3. CASE cache' = c /\ req' = Overtake([req EXCEPT ![w] = r], w) /\ NoFault
  BY <1>1, <1>2, <1>3 DEF TypeInv, NoFault
<1>4. CASE Fault /\ req' = [req EXCEPT ![w] = r] /\ UNCHANGED cache
  BY <1>1, <1>4 DEF TypeInv, Fault
<1> QED BY <1>3, <1>4 DEF WriteToCache
-----------------------------------------------------------------------------
(***************************************************************************)
(* Each step of a worker preserves the type invariant.                     *)
(***************************************************************************)

\* A request that has got its conference is a proper request again.
LEMMA GotType ==
  ASSUME NEW r \in ProperRequests, r.pc \in {"get", "fill"}
  PROVE  Got(r) \in ProperRequests
<1>1. CASE r.phase = "final"
  BY <1>1, IdleType DEF Got
<1>2. CASE r.phase = "handler"
  BY <1>2 DEF Got, ProperRequests, Request, Steps, Phases, HandlerSteps
<1>3. CASE r.phase = "controller"
  BY <1>3 DEF Got, ProperRequests, Request, Steps, Phases, HandlerSteps
<1> QED BY <1>1, <1>2, <1>3 DEF ProperRequests, Request, Phases

\* Reading the cache, filling it on a miss.
LEMMA CacheStepsType ==
  ASSUME TypeInv, NEW w \in Workers, GetHit(w) \/ GetMiss(w) \/ Fill(w)
  PROVE  TypeInv'
<1> USE DEF supplierVars, apiVars
<1>1. req[w] \in ProperRequests
  BY DEF TypeInv
<1>2. CASE GetHit(w)
  <2> DEFINE read == [req[w] EXCEPT !.conf = cache, !.overtaken = FALSE]
  <2>1. cache \in CachedConference
    BY <1>2 DEF GetHit, TypeInv
  <2>2. read \in ProperRequests /\ read.pc \in {"get", "fill"}
    BY <1>1, <1>2, <2>1 DEF GetHit, At, ProperRequests, Request
  <2>3. Got(read) \in ProperRequests
    BY <2>2, GotType
  <2> QED BY <1>2, <2>3 DEF GetHit, TypeInv
<1>3. CASE GetMiss(w)
  <2>1. MapConferenceToCacheModel(api) \in CachedConference
    BY CivilianRoomType DEF TypeInv
  <2>2. [req[w] EXCEPT !.pc = "fill", !.overtaken = FALSE,
                       !.conf = MapConferenceToCacheModel(api)] \in ProperRequests
    BY <1>1, <1>3, <2>1
    DEF GetMiss, At, ProperRequests, Request, Steps, HandlerSteps
  <2>3. req' \in [Workers -> ProperRequests]
    BY <1>3, <2>2 DEF GetMiss, TypeInv
  <2>4. faults' \in Nat
    BY <1>3 DEF GetMiss, Fault, NoFault, TypeInv
  <2> QED BY <1>3, <2>3, <2>4 DEF GetMiss, TypeInv
<1>4. CASE Fill(w)
  <2>1. Got(req[w]) \in ProperRequests /\ req[w].conf \in CachedConference
    BY <1>1, <1>4, GotType DEF Fill, At, ProperRequests, Request
  <2>2. /\ cache' \in CachedConference \cup {Missing}
        /\ req' \in [Workers -> ProperRequests]
        /\ faults' \in Nat
    BY <1>4, <2>1, WriteType DEF Fill
  <2> QED BY <1>4, <2>2 DEF Fill, TypeInv
<1> QED BY <1>2, <1>3, <1>4

\* Taking up a request.
LEMMA ReceiveType ==
  ASSUME TypeInv, NEW w \in Workers, NEW i \in 1..Len(net), Receive(w, i)
  PROVE  TypeInv'
<1>1. net[i] \in SentEvents
  BY ElementOfSeq DEF TypeInv
<1>2. net' \in Seq(SentEvents)
  <2>1. net \in Seq(SentEvents) /\ Len(net) \in Nat /\ i \in Nat
    BY LenProperties DEF TypeInv
  <2>2. SubSeq(net, 1, i - 1) \in Seq(SentEvents)
    <3>1. \A j \in 1 .. i - 1 : net[j] \in SentEvents
      BY <2>1, ElementOfSeq
    <3> QED BY <2>1, <3>1, SubSeqProperties
  <2>3. SubSeq(net, i + 1, Len(net)) \in Seq(SentEvents)
    <3>1. \A j \in i + 1 .. Len(net) : net[j] \in SentEvents
      BY <2>1, ElementOfSeq
    <3> QED BY <2>1, <3>1, SubSeqProperties
  <2> QED BY <2>2, <2>3, ConcatProperties DEF Receive
<1>3. [Idle EXCEPT !.pc = IF net[i].type = "Refresh" THEN "force" ELSE "get",
                   !.event = net[i]] \in ProperRequests
  <2> DEFINE pc  == IF net[i].type = "Refresh" THEN "force" ELSE "get"
             new == [Idle EXCEPT !.pc = pc, !.event = net[i]]
  <2>1. net[i] \in Event
    BY <1>1 DEF SentEvents
  <2>2. new \in Request
    BY <2>1, IdleType DEF ProperRequests, Request, Steps
  <2>3. /\ new.pc = pc /\ new.event = net[i] /\ new.phase = "controller"
        /\ new.unraised = {} /\ new.unpublished = {}
    BY DEF Idle
  <2>4. \/ new.pc = "force"
        \/ new.pc = "get" /\ new.event.type # "Refresh"
    BY <2>3
  <2> HIDE DEF pc, new
  <2>5. new \in ProperRequests
    BY <1>1, <2>2, <2>3, <2>4 DEF ProperRequests, HandlerSteps
  <2> QED BY <2>5 DEF new, pc
<1>4. req' \in [Workers -> ProperRequests]
  BY <1>3 DEF Receive, TypeInv
<1> QED BY <1>2, <1>4 DEF Receive, TypeInv, apiVars

\* What a request plans from the conference the controller has read.
LEMMA PlannedType ==
  ASSUME NEW r \in ProperRequests, r.pc = "plan"
  PROVE  /\ CivilianRoomAfter(r.conf, r.event) \in CachedConference
         /\ Planned(r) \in Request
         /\ Planned(r).event = r.event
         /\ Ready(Planned(r)) \in ProperRequests
<1> DEFINE conf == CivilianRoomAfter(r.conf, r.event)
<1>1. /\ r.conf \in CachedConference /\ r.event \in SentEvents
      /\ r.event.type \notin {"Refresh", "StartConsultation"}
  BY DEF ProperRequests, Request
<1>2. conf \in CachedConference
  <2>1. CASE ~ChangesCivilianRoom(r.event)
    BY <1>1, <2>1 DEF CivilianRoomAfter
  <2>2. CASE ChangesCivilianRoom(r.event)
    <3>1. r.event.who \in Participants
      BY <1>1, <2>2 DEF ChangesCivilianRoom, SentEvents
    <3>2. \/ conf = AddParticipantToRoom(r.conf, r.event.who)
          \/ conf = RemoveParticipantFromRoom(r.conf, r.event.who)
      BY <2>2 DEF CivilianRoomAfter
    <3> QED BY <1>1, <3>1, <3>2, CivilianRoomType
  <2> QED BY <2>1, <2>2
<1>3. Callbacks(r.event, conf) \in SUBSET ProperCallbacks
  BY <1>1, <1>2, CallbacksType
<1>4. OthersInConsultation(conf, r.event.who) \in SUBSET Participants
  BY <1>2 DEF OthersInConsultation, CachedConference
<1>5. /\ Planned(r) \in Request
      /\ Planned(r).event = r.event
      /\ Planned(r).unraised \in SUBSET ProperCallbacks
      /\ Planned(r).unpublished \in SUBSET ProperCallbacks
  BY <1>1, <1>3, <1>4 DEF Planned, ProperRequests, Request, ProperCallbacks
<1>6. Ready(Planned(r)) \in ProperRequests
  <2>1. CASE Following(Planned(r)) = "idle"
    BY <2>1, IdleType DEF Ready
  <2>2. CASE Following(Planned(r)) \in {"raise", "next", "relay"}
    BY <1>1, <1>5, <2>2, NewConferenceType
    DEF Ready, ProperRequests, Request, Steps, HandlerSteps
  <2> QED BY <2>1, <2>2, FollowingType
<1> QED BY <1>2, <1>5, <1>6

\* The controller builds the callbacks and may write the civilian room.
LEMMA PlanType ==
  ASSUME TypeInv, NEW w \in Workers, Plan(w)
  PROVE  TypeInv'
<1> DEFINE r    == req[w]
           conf == CivilianRoomAfter(r.conf, r.event)
           planned == Ready(Planned(r))
<1>1. r \in ProperRequests /\ r.pc = "plan"
  BY DEF TypeInv, Plan, At
<1>2. conf \in CachedConference /\ planned \in ProperRequests
  BY <1>1, PlannedType
<1>3. /\ cache' \in CachedConference \cup {Missing}
      /\ req' \in [Workers -> ProperRequests]
      /\ faults' \in Nat
  <2>1. CASE ChangesCivilianRoom(r.event)
    BY <1>2, <2>1, WriteType DEF Plan
  <2>2. CASE ~ChangesCivilianRoom(r.event)
    BY <1>2, <2>2 DEF Plan, TypeInv
  <2> QED BY <2>1, <2>2
<1> QED BY <1>3 DEF Plan, TypeInv, supplierVars, apiVars

\* Raising a callback to the Video API; a call to it that fails.
LEMMA RaiseType ==
  ASSUME TypeInv, NEW w \in Workers, Raise(w) \/ RaiseFails(w) \/ ReadFails(w)
  PROVE  TypeInv'
<1> USE DEF supplierVars, apiVars
<1>1. req[w] \in ProperRequests
  BY DEF TypeInv
<1>2. ASSUME Raise(w) PROVE TypeInv'
  <2> PICK cb \in req[w].unraised :
        /\ api' = Record(api, cb)
        /\ raised' = raised \cup {cb}
        /\ Continue(w, [req[w] EXCEPT !.unraised = @ \ {cb}])
    BY <1>2 DEF Raise
  <2>1. cb \in ProperCallbacks /\ cb \in Callback
    BY <1>1 DEF ProperRequests, ProperCallbacks
  <2>2. api' \in CachedConference
    BY <2>1, HandlerType DEF TypeInv
  <2>3. [req[w] EXCEPT !.unraised = @ \ {cb}] \in ProperRequests
    BY <1>1 DEF ProperRequests, Request
  <2>4. req' \in [Workers -> ProperRequests]
    BY <2>3, ContinueType
  <2> QED BY <1>2, <2>1, <2>2, <2>4 DEF Raise, TypeInv
<1>3. ASSUME RaiseFails(w) \/ ReadFails(w) PROVE TypeInv'
  BY <1>3, IdleType DEF RaiseFails, ReadFails, Fault, TypeInv
<1> QED BY <1>2, <1>3

\* The next handler starts.
LEMMA NextCallbackType ==
  ASSUME TypeInv, NEW w \in Workers, NextCallback(w)
  PROVE  TypeInv'
<1>1. req[w] \in ProperRequests
  BY DEF TypeInv
<1> PICK cb \in req[w].unpublished :
      req' = [req EXCEPT ![w].pc = "get", ![w].phase = "handler",
                         ![w].current = cb, ![w].unpublished = @ \ {cb}]
  BY DEF NextCallback
<1>2. cb \in ProperCallbacks /\ cb \in Callback
  BY <1>1 DEF ProperRequests, ProperCallbacks
<1>3. [req[w] EXCEPT !.pc = "get", !.phase = "handler", !.current = cb,
                     !.unpublished = @ \ {cb}] \in ProperRequests
  BY <1>1, <1>2 DEF ProperRequests, Request, Steps, Phases, HandlerSteps
<1> QED BY <1>3 DEF NextCallback, TypeInv, supplierVars, apiVars

\* The steps of EventHandlerBase.
LEMMA HandlerStepsType ==
  ASSUME TypeInv, NEW w \in Workers,
         \/ PublishRoomTransfer(w) \/ UpdateConsultationRoom(w)
         \/ UpdateStatus(w) \/ IgnoreLeave(w) \/ PublishStatus(w)
  PROVE  TypeInv'
<1> USE DEF supplierVars, apiVars
<1> DEFINE r == req[w]
<1>1. /\ r \in ProperRequests /\ r \in Request
      /\ r.conf \in CachedConference
      /\ r.pc \in HandlerSteps => r.current \in ProperCallbacks /\ r.phase = "handler"
  BY DEF TypeInv, ProperRequests, Request
<1>2. CASE PublishRoomTransfer(w)
  <2>1. ui' \in CachedConference
    BY <1>1, <1>2, HandlerType DEF PublishRoomTransfer, At, HandlerSteps, TypeInv
  <2>2. [r EXCEPT !.pc = "writeRoom"] \in ProperRequests
    BY <1>1, <1>2
    DEF PublishRoomTransfer, At, ProperRequests, Request, Steps, HandlerSteps
  <2> QED BY <1>2, <2>1, <2>2 DEF PublishRoomTransfer, TypeInv
<1>3. CASE UpdateConsultationRoom(w)
  <2> DEFINE moved == MoveRoom(r.conf, r.current)
  <2>1. moved \in CachedConference
    BY <1>1, <1>3, HandlerType DEF UpdateConsultationRoom, At, HandlerSteps
  <2>2. [r EXCEPT !.pc = "status", !.conf = moved] \in ProperRequests
    BY <1>1, <1>3, <2>1
    DEF UpdateConsultationRoom, At, ProperRequests, Request, Steps, HandlerSteps
  <2>3. /\ cache' \in CachedConference \cup {Missing}
        /\ req' \in [Workers -> ProperRequests]
        /\ faults' \in Nat
    BY <1>3, <2>1, <2>2, WriteType DEF UpdateConsultationRoom
  <2> QED BY <1>3, <2>3 DEF UpdateConsultationRoom, TypeInv
<1>4. CASE UpdateStatus(w)
  <2> DEFINE changed == SetStatus(r.conf, r.current)
  <2>1. changed \in CachedConference
    BY <1>1, <1>4, HandlerType DEF UpdateStatus, At, HandlerSteps
  <2>2. [r EXCEPT !.pc = "publish", !.conf = changed] \in ProperRequests
    BY <1>1, <1>4, <2>1
    DEF UpdateStatus, At, ProperRequests, Request, Steps, HandlerSteps
  <2>3. /\ cache' \in CachedConference \cup {Missing}
        /\ req' \in [Workers -> ProperRequests]
        /\ faults' \in Nat
    BY <1>4, <2>1, <2>2, WriteType DEF UpdateStatus
  <2> QED BY <1>4, <2>3 DEF UpdateStatus, TypeInv
<1>5. CASE IgnoreLeave(w)
  <2>1. req' \in [Workers -> ProperRequests]
    BY <1>1, <1>5, ContinueType DEF IgnoreLeave
  <2> QED BY <1>5, <2>1 DEF IgnoreLeave, TypeInv
<1>6. CASE PublishStatus(w)
  <2>1. ui' \in CachedConference
    BY <1>1, <1>6, HandlerType DEF PublishStatus, At, HandlerSteps, TypeInv
  <2>2. req' \in [Workers -> ProperRequests]
    BY <1>1, <1>6, ContinueType DEF PublishStatus
  <2> QED BY <1>6, <2>1, <2>2 DEF PublishStatus, TypeInv
<1> QED BY <1>2, <1>3, <1>4, <1>5, <1>6

\* The relayed transfer of a civilian room is an event like the supplier's.
LEMMA RelayType ==
  ASSUME TypeInv, NEW w \in Workers, Relay(w)
  PROVE  TypeInv'
<1>1. /\ req[w] \in ProperRequests
      /\ req[w].relay \in SUBSET Participants
  BY DEF TypeInv, ProperRequests, Request
<1> PICK p \in req[w].relay :
      req' = [req EXCEPT
                ![w] = IF api.pRoom[p] = NoRoom THEN Idle
                       ELSE [Idle EXCEPT
                               !.pc = "get",
                               !.event = Transfer(VMR, "WaitingRoom", api.pRoom[p])]]
  BY DEF Relay
<1> DEFINE e   == Transfer(VMR, "WaitingRoom", api.pRoom[p])
           new == [Idle EXCEPT !.pc = "get", !.event = e]
<1>2. api.pRoom[p] \in Rooms \cup {NoRoom}
  BY <1>1 DEF TypeInv, CachedConference
<1>3. /\ e.type = "Transfer" /\ e.who = VMR /\ e.via = FALSE
      /\ e \in Event
  BY <1>2 DEF Transfer, Simple, Event, Types, SupplierTypes, Locations
<1>4. e \in SentEvents
  <2> HIDE DEF e
  <2> QED BY <1>3, EventsAssumption DEF SentEvents
<1>5. new \in ProperRequests
  <2>1. new \in Request
    BY <1>3, IdleType DEF ProperRequests, Request, Steps
  <2>2. /\ new.pc = "get" /\ new.event = e /\ new.phase = "controller"
        /\ new.unraised = {} /\ new.unpublished = {}
    BY DEF Idle
  <2> HIDE DEF new, e
  <2> QED BY <1>3, <1>4, <2>1, <2>2 DEF ProperRequests, HandlerSteps
<1>6. req' \in [Workers -> ProperRequests]
  BY <1>5, IdleType DEF TypeInv
<1> QED BY <1>6 DEF Relay, TypeInv, supplierVars, apiVars

\* A started consultation and ForceGetConference.
LEMMA OtherRequestsType ==
  ASSUME TypeInv, NEW w \in Workers,
         \/ CreateConsultation(w) \/ CreateConsultationFails(w)
         \/ ForceGet(w) \/ AddConference(w)
  PROVE  TypeInv'
<1> USE DEF supplierVars, apiVars
<1>1. /\ req[w] \in ProperRequests /\ req[w] \in Request
      /\ req[w].conf \in CachedConference
  BY DEF TypeInv, ProperRequests, Request
<1>2. CASE CreateConsultation(w)
  <2>1. req[w].event.to \in Rooms
    BY <1>1, <1>2 DEF CreateConsultation, At, ProperRequests, SentEvents
  <2>2. UpsertConsultationRoom(req[w].conf, req[w].event.to) \in CachedConference
    BY <1>1, <2>1, CivilianRoomType
  <2>3. /\ cache' \in CachedConference \cup {Missing}
        /\ req' \in [Workers -> ProperRequests]
        /\ faults' \in Nat
    BY <1>2, <2>2, IdleType, WriteType DEF CreateConsultation
  <2> QED BY <1>2, <2>3 DEF CreateConsultation, TypeInv
<1>3. CASE CreateConsultationFails(w)
  BY <1>3, IdleType DEF CreateConsultationFails, Fault, TypeInv
<1>4. CASE ForceGet(w)
  <2>1. MapConferenceToCacheModel(api) \in CachedConference
    BY CivilianRoomType DEF TypeInv
  <2>2. [req[w] EXCEPT !.pc = "add", !.overtaken = FALSE,
                       !.conf = MapConferenceToCacheModel(api)] \in ProperRequests
    BY <1>1, <2>1 DEF ProperRequests, Request, Steps, HandlerSteps
  <2> QED BY <1>4, <2>2 DEF ForceGet, TypeInv
<1>5. CASE AddConference(w)
  <2>1. [Idle EXCEPT !.pc = "get", !.phase = "final"] \in ProperRequests
    BY IdleType DEF Idle, ProperRequests, Request, Steps, Phases, HandlerSteps
  <2>2. /\ cache' \in CachedConference \cup {Missing}
        /\ req' \in [Workers -> ProperRequests]
        /\ faults' \in Nat
    BY <1>1, <1>5, <2>1, WriteType DEF AddConference
  <2> QED BY <1>5, <2>2 DEF AddConference, TypeInv
<1> QED BY <1>2, <1>3, <1>4, <1>5

\* Every step of a worker.
LEMMA HandleType ==
  ASSUME TypeInv, NEW w \in Workers, Handle(w)
  PROVE  TypeInv'
  BY CacheStepsType, ReceiveType, PlanType, RaiseType, NextCallbackType,
     HandlerStepsType, RelayType, OtherRequestsType
  DEF Handle

-----------------------------------------------------------------------------
(***************************************************************************)
(* The supplier, the browsers and the other services send proper events.   *)
(***************************************************************************)
LEMMA SimpleType ==
  ASSUME NEW type \in Types, NEW who \in Parties \cup {VMR, Nobody}
  PROVE  /\ Simple(type, who) \in Event
         /\ Simple(type, who).type = type
         /\ Simple(type, who).who = who
         /\ Simple(type, who).via = FALSE
  BY DEF Simple, Event

\* Sending a proper event.
LEMMA SendType ==
  ASSUME TypeInv, NEW e \in SentEvents, Send(e)
  PROVE  /\ net' \in Seq(SentEvents)
         /\ sent' \in Nat
  BY AppendProperties DEF TypeInv, Send

\* The events of the parties, of the conference and of internal services.
LEMMA SimpleSent ==
  /\ \A p \in Participants, type \in ParticipantTypes :
       /\ Simple(type, p) \in SentEvents
       /\ Via(type, p) \in SentEvents
  /\ \A e \in Endpoints, type \in {"Joined", "Disconnected"} :
       Simple(type, e) \in SentEvents
  /\ \A type \in ConferenceTypes \cup {"Refresh"} :
       Simple(type, Nobody) \in SentEvents
<1> USE EventsAssumption, PartiesAssumption
    DEF Parties, ParticipantTypes, ConferenceTypes, Types, SupplierTypes, BrowserTypes
<1>1. ASSUME NEW p \in Participants, NEW type \in ParticipantTypes
      PROVE  Simple(type, p) \in SentEvents /\ Via(type, p) \in SentEvents
  <2>0. type \in Types /\ p \in Parties \cup {VMR, Nobody}
    BY <1>1
  <2>1. /\ Simple(type, p) \in Event
        /\ Simple(type, p).type = type
        /\ Simple(type, p).who = p
        /\ Simple(type, p).via = FALSE
    BY ONLY <2>0, SimpleType
  <2>2. Simple(type, p) \in SentEvents
    BY <1>1, <2>1 DEF SentEvents
  <2>3. /\ Via(type, p) \in Event
        /\ Via(type, p).type = type
        /\ Via(type, p).who = p
    BY <2>1 DEF Via, Event
  <2>4. Via(type, p) \in SentEvents
    BY <1>1, <2>3 DEF SentEvents
  <2> QED BY <2>2, <2>4
<1>2. ASSUME NEW e \in Endpoints, NEW type \in {"Joined", "Disconnected"}
      PROVE  Simple(type, e) \in SentEvents
  <2>0. type \in Types /\ e \in Parties \cup {VMR, Nobody}
    BY <1>2
  <2>1. /\ Simple(type, e) \in Event
        /\ Simple(type, e).type = type
        /\ Simple(type, e).who = e
        /\ Simple(type, e).via = FALSE
    BY ONLY <2>0, SimpleType
  <2> QED BY <1>2, <2>1 DEF SentEvents
<1>3. ASSUME NEW type \in ConferenceTypes \cup {"Refresh"}
      PROVE  Simple(type, Nobody) \in SentEvents
  <2>0. type \in Types /\ Nobody \in Parties \cup {VMR, Nobody}
    BY <1>3
  <2>1. /\ Simple(type, Nobody) \in Event
        /\ Simple(type, Nobody).type = type
        /\ Simple(type, Nobody).who = Nobody
        /\ Simple(type, Nobody).via = FALSE
    BY ONLY <2>0, SimpleType
  <2> QED BY <1>3, <2>1 DEF SentEvents
<1> QED BY <1>1, <1>2, <1>3

\* Transfers are proper events.
LEMMA TransferSent ==
  ASSUME NEW who \in Parties \cup {VMR},
         NEW from \in Locations, NEW to \in Locations
  PROVE  Transfer(who, from, to) \in SentEvents
<1>1. /\ Transfer(who, from, to) \in Event
      /\ Transfer(who, from, to).type = "Transfer"
      /\ Transfer(who, from, to).who = who
      /\ Transfer(who, from, to).via = FALSE
  BY DEF Transfer, Simple, Event, Types, SupplierTypes
<1> QED BY <1>1, EventsAssumption, PartiesAssumption
        DEF SentEvents, Parties, ParticipantTypes

SendsProperEvent ==
  \E e \in SentEvents :
    /\ Send(e)
    /\ where' \in [Parties -> Locations \cup {"Out"}]
    /\ hearing' \in [status : ConferenceStatus, countdown : BOOLEAN]

\* Every step of the environment.
LEMMA EnvironmentType ==
  ASSUME TypeInv, Environment
  PROVE  TypeInv'
<1>1. SendsProperEvent
  <2> USE DEF TypeInv, SendsProperEvent
  <2>2. ASSUME NEW party \in Parties, Connect(party) PROVE SendsProperEvent
    <3> PICK place \in IF party \in Linked /\ LinkedConnected # {}
                         THEN {where[q] : q \in LinkedConnected}
                         ELSE {"WaitingRoom"} :
          where' = [where EXCEPT ![party] = place]
      BY <2>2 DEF Connect
    <3>1. place \in Locations \cup {"Out"}
      BY EventsAssumption DEF LinkedConnected, Locations, Parties
    <3>2. Enter(party, "Joined") \in SentEvents
      BY SimpleSent, EventsAssumption DEF Enter, Parties, ParticipantTypes
    <3> QED BY <2>2, <3>1, <3>2 DEF Connect
  <2>3. ASSUME NEW party \in Parties, Drop(party) PROVE SendsProperEvent
    <3>1. Enter(party, "Disconnected") \in SentEvents
      BY SimpleSent, EventsAssumption DEF Enter, Parties, ParticipantTypes
    <3> QED BY <2>3, <3>1 DEF Drop
  <2>4. ASSUME NEW party \in Parties, NEW to \in Locations, Move(party, to)
        PROVE  SendsProperEvent
    <3>1. where[party] \in Locations
      BY <2>4 DEF Move, Connected
    <3>2. Transfer(party, where[party], to) \in SentEvents
      BY <3>1, TransferSent
    <3> QED BY <2>4, <3>2 DEF Move
  <2>5. ASSUME NEW to \in Locations, MoveCivilianRoom(to) PROVE SendsProperEvent
    <3> PICK p \in LinkedConnected : Send(Transfer(VMR, where[p], to))
      BY <2>5 DEF MoveCivilianRoom
    <3>1. where[p] \in Locations
      BY EventsAssumption DEF LinkedConnected, Connected, Parties
    <3>2. Transfer(VMR, where[p], to) \in SentEvents
      BY <3>1, TransferSent
    <3> QED BY <2>5, <3>2 DEF MoveCivilianRoom
  <2>6. ASSUME NEW p \in Participants,
               NEW type \in {"Leave", "LeaveForOtherDevice"}, LeaveCall(p, type)
        PROVE  SendsProperEvent
    <3>1. Simple(type, p) \in SentEvents
      BY SimpleSent DEF ParticipantTypes
    <3> QED BY <2>6, <3>1 DEF LeaveCall
  <2>7. ASSUME NEW type \in ConferenceTypes, NEW from, NEW to \in ConferenceStatus,
               HearingEvent(type, from, to)
        PROVE  SendsProperEvent
    <3>1. Simple(type, Nobody) \in SentEvents
      BY SimpleSent
    <3> QED BY <2>7, <3>1 DEF HearingEvent
  <2>8. ASSUME FinishCountdown PROVE SendsProperEvent
    <3>1. Simple("CountdownFinished", Nobody) \in SentEvents
      BY SimpleSent DEF ConferenceTypes
    <3> QED BY <2>8, <3>1 DEF FinishCountdown
  <2>9. ASSUME NEW p \in Participants, NEW type \in BrowserTypes, Post(p, type)
        PROVE  SendsProperEvent
    <3>1. Simple(type, p) \in SentEvents
      BY SimpleSent DEF ParticipantTypes
    <3> QED BY <2>9, <3>1 DEF Post
  <2>10. ASSUME Internal PROVE SendsProperEvent
    <3>1. Simple("Refresh", Nobody) \in SentEvents
      BY SimpleSent
    <3>2. ASSUME NEW r \in Rooms
          PROVE  [Simple("StartConsultation", Nobody) EXCEPT !.to = r] \in SentEvents
      BY EventsAssumption
      DEF Simple, SentEvents, Event, Types, Locations, Parties
    <3> QED BY <2>10, <3>1, <3>2 DEF Internal
  <2> QED BY <2>2, <2>3, <2>4, <2>5, <2>6, <2>7, <2>8, <2>9, <2>10
          DEF Environment, ConferenceTypes, ConferenceStatus
<1> QED BY <1>1, SendType DEF SendsProperEvent, TypeInv, Send, apiVars

-----------------------------------------------------------------------------
\* The inductive type invariant holds.
LEMMA TypeInvHolds == Spec => []TypeInv
<1>1. TypeInv /\ [Next]_vars => TypeInv'
  <2> SUFFICES ASSUME TypeInv, [Next]_vars PROVE TypeInv'
    OBVIOUS
  <2>1. CASE Environment
    BY <2>1, EnvironmentType
  <2>2. CASE Evict
    BY <2>2 DEF Evict, Fault, TypeInv, supplierVars, apiVars
  <2>3. CASE \E w \in Workers : Handle(w)
    BY <2>3, HandleType
  <2>4. CASE UNCHANGED vars
    BY <2>4 DEF TypeInv, vars, supplierVars, apiVars
  <2> QED BY <2>1, <2>2, <2>3, <2>4 DEF Next
<1> QED BY <1>1, InitTypeInv, PTL DEF Spec

\* Type correctness: whatever the numbers of parties, rooms, workers, events
\* and failures, a handler only ever stores a participant's status with a
\* participant, an endpoint's with an endpoint and the conference's with the
\* conference, in every copy of the conference there is.
THEOREM TypeCorrect == Spec => []TypeOK
  BY TypeInvHolds, TypeInvImpliesTypeOK, PTL

-----------------------------------------------------------------------------
(***************************************************************************)
(* NeverAheadOfVideoApi.  The invariant is strengthened to every copy of   *)
(* the conference, and to what a request has still to raise and to publish: *)
(* a supplier's callback that is being handled has been raised, because a  *)
(* supplier's request starts publishing only when nothing is left to raise. *)
(* Backed, with the accepted callbacks as an argument:                     *)
(***************************************************************************)
BackedBy(c, R) ==
  /\ \A p \in Participants :
       /\ c.pStatus[p] \in {"Available", "InHearing", "InConsultation"}
            => \E cb \in R : cb.who = p /\ cb.status = c.pStatus[p]
       /\ c.pRoom[p] # NoRoom =>
            \E cb \in R : cb.who = p /\ cb.type = "Transfer" /\ cb.to = c.pRoom[p]
  /\ \A e \in Endpoints :
       /\ c.eStatus[e] # "NotYetJoined"
            => \E cb \in R : cb.who = e /\ cb.status = c.eStatus[e]
       /\ c.eRoom[e] # NoRoom =>
            \E cb \in R : cb.who = e /\ cb.type = "Transfer" /\ cb.to = c.eRoom[e]
  /\ c.status # "NotStarted" =>
       \E cb \in R : cb.who = Nobody /\ cb.status = c.status
  /\ c.countdownComplete => \E cb \in R : cb.type = "CountdownFinished"

\* Backed is BackedBy for what has been raised so far.
LEMMA BackedByRaised ==
  ASSUME NEW c
  PROVE  Backed(c) <=> BackedBy(c, raised)
  BY DEF Backed, BackedBy, Accepted, AcceptedMove

\* More accepted callbacks back no less.
LEMMA BackedMonotonic ==
  ASSUME NEW c, NEW R, NEW S, R \subseteq S, BackedBy(c, R)
  PROVE  BackedBy(c, S)
  BY DEF BackedBy

\* A new conference shows nothing that would have to be accepted.
LEMMA NewBacked ==
  ASSUME NEW R
  PROVE  BackedBy(NewConference, R)
  BY DEF BackedBy, NewConference

\* Operations that change neither a status nor who is in which room.
LEMMA OtherFieldsBacked ==
  ASSUME NEW R, NEW c \in CachedConference, BackedBy(c, R)
  PROVE  /\ BackedBy(MapConferenceToCacheModel(c), R)
         /\ \A label : BackedBy(UpsertConsultationRoom(c, label), R)
         /\ \A p : BackedBy(AddParticipantToRoom(c, p), R)
         /\ \A p : BackedBy(RemoveParticipantFromRoom(c, p), R)
  BY DEF BackedBy, CachedConference, MapConferenceToCacheModel,
         UpsertConsultationRoom, AddParticipantToRoom, RemoveParticipantFromRoom

\* Emptying rooms.
LEMMA LeaveRoomBacked ==
  ASSUME NEW R, NEW c \in CachedConference, BackedBy(c, R), NEW who, NEW label
  PROVE  /\ BackedBy([c EXCEPT !.pRoom[who] = NoRoom], R)
         /\ BackedBy([c EXCEPT !.eRoom[who] = NoRoom], R)
         /\ BackedBy(RemoveParticipantFromConsultationRoom(c, who, label), R)
         /\ BackedBy(RemoveEndpointFromConsultationRoom(c, who, label), R)
<1>1. BackedBy([c EXCEPT !.pRoom[who] = NoRoom], R)
  BY DEF BackedBy, CachedConference
<1>2. BackedBy([c EXCEPT !.eRoom[who] = NoRoom], R)
  BY DEF BackedBy, CachedConference
<1>3. ASSUME NEW d \in CachedConference, BackedBy(d, R)
      PROVE  BackedBy(CheckAndRemoveEmptyConsultationRoom(d, label), R)
  BY <1>3 DEF BackedBy, CachedConference, CheckAndRemoveEmptyConsultationRoom
<1>4. /\ [c EXCEPT !.pRoom[who] = NoRoom] \in CachedConference
      /\ [c EXCEPT !.eRoom[who] = NoRoom] \in CachedConference
  BY DEF CachedConference
<1> QED BY <1>1, <1>2, <1>3, <1>4
        DEF RemoveParticipantFromConsultationRoom, RemoveEndpointFromConsultationRoom

\* A callback that may be applied: accepted, or the status of a browser.
Applicable(cb, R) == cb \in R \/ cb.type \in BrowserTypes

\* A move whose callback may be applied.
LEMMA RoomBacked ==
  ASSUME NEW R, NEW c \in CachedConference, BackedBy(c, R),
         NEW cb \in ProperCallbacks, cb.type = "Transfer", Applicable(cb, R)
  PROVE  BackedBy(MoveRoom(c, cb), R) /\ BackedBy(ShowRoom(c, cb), R)
<1>1. cb \in R
  BY DEF Applicable, BrowserTypes
<1>2. /\ BackedBy([c EXCEPT !.pRoom[cb.who] = cb.to], R)
      /\ BackedBy([c EXCEPT !.eRoom[cb.who] = cb.to], R)
  BY <1>1 DEF BackedBy, CachedConference
<1>3. /\ BackedBy(AddParticipantToConsultationRoom(c, cb.to, cb.who), R)
      /\ BackedBy(AddEndpointToConsultationRoom(c, cb.to, cb.who), R)
  BY <1>1 DEF AddParticipantToConsultationRoom, AddEndpointToConsultationRoom,
              UpsertConsultationRoom, BackedBy, CachedConference
<1>4. BackedBy(MoveRoom(c, cb), R)
  BY <1>3, LeaveRoomBacked DEF MoveRoom
<1>5. BackedBy(ShowRoom(c, cb), R)
  BY <1>2, LeaveRoomBacked DEF ShowRoom
<1> QED BY <1>4, <1>5

\* A status whose callback may be applied.
LEMMA StatusBacked ==
  ASSUME NEW R, NEW c \in CachedConference, BackedBy(c, R),
         NEW cb \in ProperCallbacks, Applicable(cb, R)
  PROVE  BackedBy(SetStatus(c, cb), R) /\ BackedBy(ShowStatus(c, cb), R)
<1>1. ASSUME cb.who \in Participants
      PROVE  BackedBy(UpdateParticipantStatus(c, cb.who, cb.status), R)
  <2> DEFINE updated == [c EXCEPT !.pStatus[cb.who] = cb.status]
  <2>1. updated \in CachedConference
    BY <1>1 DEF CachedConference, ProperCallbacks
  <2>2. cb.status \in {"Available", "InHearing", "InConsultation"} => cb \in R
    BY DEF Applicable, ProperCallbacks
  <2>3. BackedBy(updated, R)
    BY <2>2 DEF BackedBy, CachedConference
  <2> QED BY <2>1, <2>3, LeaveRoomBacked DEF UpdateParticipantStatus
<1>2. ASSUME cb.who \in Endpoints
      PROVE  BackedBy(UpdateEndpointStatus(c, cb.who, cb.status), R)
  <2>1. cb \in R
    BY <1>2, PartiesAssumption DEF Applicable, ProperCallbacks
  <2> QED BY <2>1 DEF UpdateEndpointStatus, BackedBy, CachedConference
<1>3. ASSUME cb.who = Nobody
      PROVE  /\ cb.type = "CountdownFinished" => BackedBy(CompleteCountdown(c), R)
             /\ BackedBy(UpdateConferenceStatus(c, cb.status), R)
  <2>1. cb \in R
    BY <1>3, EventsAssumption DEF Applicable, ProperCallbacks
  <2>2. cb.type = "CountdownFinished" => BackedBy(CompleteCountdown(c), R)
    BY <2>1 DEF CompleteCountdown, BackedBy, CachedConference
  <2>3. BackedBy(UpdateConferenceStatus(c, cb.status), R)
    BY <1>3, <2>1 DEF UpdateConferenceStatus, BackedBy, CachedConference
  <2> QED BY <2>2, <2>3
<1>4. cb.who \in Participants \/ cb.who \in Endpoints \/ cb.who = Nobody
  BY DEF ProperCallbacks, Callback, Parties
<1>5. BackedBy(SetStatus(c, cb), R)
  BY <1>1, <1>2, <1>3, <1>4, PartiesAssumption, EventsAssumption DEF SetStatus
<1>6. SetStatus(c, cb) \in CachedConference
  BY HandlerType
<1>7. BackedBy(ShowStatus(c, cb), R)
  BY <1>5, <1>6, LeaveRoomBacked DEF ShowStatus
<1> QED BY <1>5, <1>7

\* The Video API records only what it has just accepted.
LEMMA RecordBacked ==
  ASSUME NEW R, NEW c \in CachedConference, BackedBy(c, R),
         NEW cb \in ProperCallbacks, cb \in R
  PROVE  BackedBy(Record(c, cb), R)
<1>1. ShowRoom(c, cb) \in CachedConference
  BY HandlerType
<1>2. cb.type = "Transfer" => BackedBy(ShowRoom(c, cb), R)
  BY RoomBacked DEF Applicable
<1> QED BY <1>1, <1>2, StatusBacked DEF Record, Applicable

-----------------------------------------------------------------------------
(***************************************************************************)
(* A request that has raised what it is going to publish.                  *)
(***************************************************************************)
Handling(r) ==
  r.pc \in HandlerSteps \/ (r.pc \in {"get", "fill"} /\ r.phase = "handler")

\* What is left to publish has been raised or will be, before it is published.
Pending(r, R) ==
  IF FromBrowser(r.event)
    THEN \A cb \in r.unpublished : cb.type \in BrowserTypes
    ELSE r.unpublished \subseteq R \cup r.unraised

BackedRequest(r, R) ==
  /\ BackedBy(r.conf, R)
  /\ Pending(r, R)
  /\ Handling(r) => Applicable(r.current, R)
  /\ (Handling(r) \/ r.pc = "next") /\ ~FromBrowser(r.event) => r.unraised = {}
  /\ r.pc \in {"room", "writeRoom"} => r.current.type = "Transfer"

SafetyInv ==
  /\ BackedBy(api, raised)
  /\ BackedBy(ui, raised)
  /\ cache # Missing => BackedBy(cache, raised)
  /\ \A w \in Workers : BackedRequest(req[w], raised)

\* A worker without a request.
LEMMA IdleBacked ==
  ASSUME NEW R
  PROVE  BackedRequest(Idle, R)
<1>1. BackedBy(Idle.conf, R)
  BY NewBacked DEF Idle
<1>2. /\ Idle.unpublished = {} /\ Idle.unraised = {}
      /\ Idle.pc = "idle"
  BY DEF Idle
<1> QED BY <1>1, <1>2 DEF BackedRequest, Pending, Handling, HandlerSteps

\* Accepting more callbacks keeps a request in progress backed.
LEMMA RequestMonotonic ==
  ASSUME NEW r, NEW R, NEW S, R \subseteq S, BackedRequest(r, R)
  PROVE  BackedRequest(r, S)
  BY BackedMonotonic DEF BackedRequest, Pending, Applicable

\* Where a request goes on, and that it publishes a supplier's callbacks only
\* after the last of them has been raised.
LEMMA ContinueBacked ==
  ASSUME TypeInv, NEW R, NEW w \in Workers, NEW r \in ProperRequests,
         Pending(r, R), Continue(w, r),
         \A v \in Workers \ {w} : BackedRequest(req[v], R)
  PROVE  \A v \in Workers : BackedRequest(req'[v], R)
<1> DEFINE next == [r EXCEPT !.pc = Following(r), !.current = NoCallback,
                             !.conf = NewConference, !.overtaken = FALSE]
<1>1. r \in Request
  BY DEF ProperRequests
<1>2. ASSUME Following(r) \in {"raise", "next", "relay"}
      PROVE  BackedRequest(next, R)
  <2>1. /\ next.pc = Following(r) /\ next.conf = NewConference
        /\ next.unraised = r.unraised /\ next.unpublished = r.unpublished
        /\ next.event = r.event
    BY <1>1 DEF Request
  <2>2. next.pc = "next" /\ ~FromBrowser(r.event) => r.unraised = {}
    BY <2>1 DEF Following
  <2> HIDE DEF next
  <2> QED BY <1>2, <2>1, <2>2, NewBacked
          DEF BackedRequest, Pending, Handling, HandlerSteps
<1>3. req'[w] = Idle \/ (Following(r) \in {"raise", "next", "relay"} /\ req'[w] = next)
  BY FollowingType DEF Continue, TypeInv
<1>4. \A v \in Workers \ {w} : req'[v] = req[v]
  BY DEF Continue, TypeInv
<1> QED BY <1>2, <1>3, <1>4, IdleBacked

\* A write of a backed conference, by whichever of its outcomes.
LEMMA WriteBacked ==
  ASSUME TypeInv, SafetyInv, NEW w \in Workers, NEW c, NEW r \in ProperRequests,
         BackedBy(c, raised), BackedRequest(r, raised), WriteToCache(w, c, r)
  PROVE  /\ cache' # Missing => BackedBy(cache', raised)
         /\ \A v \in Workers : BackedRequest(req'[v], raised)
<1> DEFINE rs == [req EXCEPT ![w] = r]
<1>1. rs \in [Workers -> Request] /\ \A v \in Workers : BackedRequest(rs[v], raised)
  BY DEF TypeInv, SafetyInv, ProperRequests
<1> HIDE DEF rs
<1>2. ASSUME NEW v \in Workers
      PROVE  BackedRequest(Overtake(rs, w)[v], raised)
  <2> DEFINE marked == [rs[v] EXCEPT !.overtaken = TRUE]
  <2>1. /\ marked.pc = rs[v].pc /\ marked.phase = rs[v].phase
        /\ marked.event = rs[v].event /\ marked.conf = rs[v].conf
        /\ marked.unraised = rs[v].unraised
        /\ marked.unpublished = rs[v].unpublished
        /\ marked.current = rs[v].current
    BY <1>1 DEF Request
  <2>2. Overtake(rs, w)[v] = marked \/ Overtake(rs, w)[v] = rs[v]
    BY DEF Overtake
  <2> HIDE DEF marked
  <2>3. BackedRequest(marked, raised)
    BY <1>1, <2>1 DEF BackedRequest, Pending, Handling
  <2> QED BY <1>1, <2>2, <2>3
<1> QED BY <1>1, <1>2 DEF WriteToCache, SafetyInv, rs

-----------------------------------------------------------------------------
(***************************************************************************)
(* Each step of a worker keeps every copy backed.                          *)
(***************************************************************************)
LEMMA GotBacked ==
  ASSUME NEW R, NEW r \in ProperRequests, r.pc \in {"get", "fill"},
         BackedRequest(r, R)
  PROVE  BackedRequest(Got(r), R)
<1>1. r \in Request
  BY DEF ProperRequests
<1>2. CASE r.phase = "final"
  BY <1>2, IdleBacked DEF Got
<1>3. CASE r.phase = "handler"
  <2> DEFINE pc == IF r.current.type = "Transfer" THEN "room" ELSE "status"
             got == [r EXCEPT !.pc = pc]
  <2>1. Got(r) = got
    BY <1>3 DEF Got
  <2>2. /\ got.pc = pc /\ got.event = r.event /\ got.conf = r.conf
        /\ got.unraised = r.unraised /\ got.unpublished = r.unpublished
        /\ got.current = r.current
    BY <1>1 DEF Request
  <2>3. Handling(r)
    BY <1>3 DEF Handling
  <2>4. pc = "room" => r.current.type = "Transfer"
    OBVIOUS
  <2>5. pc \in {"room", "status"}
    OBVIOUS
  <2> HIDE DEF got, pc
  <2> QED BY <2>1, <2>2, <2>3, <2>4, <2>5 DEF BackedRequest, Pending
<1>4. CASE r.phase = "controller"
  <2> DEFINE pc == IF r.event.type = "StartConsultation" THEN "create" ELSE "plan"
             got == [r EXCEPT !.pc = pc]
  <2>1. Got(r) = got
    BY <1>4 DEF Got
  <2>2. /\ got.pc \in {"create", "plan"} /\ got.event = r.event /\ got.conf = r.conf
        /\ got.unraised = r.unraised /\ got.unpublished = r.unpublished
    BY <1>1 DEF Request
  <2> HIDE DEF got
  <2> QED BY <2>1, <2>2 DEF BackedRequest, Pending, Handling, HandlerSteps
<1> QED BY <1>1, <1>2, <1>3, <1>4 DEF Request, Phases

\* What is read from the cache or from the Video API is backed.
LEMMA CacheStepsBacked ==
  ASSUME TypeInv, SafetyInv, NEW w \in Workers, GetHit(w) \/ GetMiss(w) \/ Fill(w)
  PROVE  SafetyInv'
<1> USE DEF supplierVars, apiVars
<1>1. /\ req[w] \in ProperRequests /\ req[w] \in Request
      /\ BackedRequest(req[w], raised)
  BY DEF TypeInv, SafetyInv, ProperRequests
<1>2. ASSUME NEW c \in CachedConference, BackedBy(c, raised), req[w].pc = "get"
      PROVE  LET read == [req[w] EXCEPT !.conf = c, !.overtaken = FALSE]
                 miss == [req[w] EXCEPT !.pc = "fill", !.overtaken = FALSE, !.conf = c]
             IN  /\ read \in ProperRequests /\ read.pc = "get"
                 /\ BackedRequest(read, raised) /\ BackedRequest(miss, raised)
  <2> DEFINE read == [req[w] EXCEPT !.conf = c, !.overtaken = FALSE]
             miss == [req[w] EXCEPT !.pc = "fill", !.overtaken = FALSE, !.conf = c]
  <2>1. read \in ProperRequests
    BY <1>1, <1>2 DEF ProperRequests, Request
  <2>2. /\ read.pc = "get" /\ read.conf = c
        /\ read.event = req[w].event /\ read.phase = req[w].phase
        /\ read.unraised = req[w].unraised /\ read.current = req[w].current
        /\ read.unpublished = req[w].unpublished
    BY <1>1, <1>2 DEF Request
  <2>3. /\ miss.pc = "fill" /\ miss.conf = c
        /\ miss.event = req[w].event /\ miss.phase = req[w].phase
        /\ miss.unraised = req[w].unraised /\ miss.current = req[w].current
        /\ miss.unpublished = req[w].unpublished
    BY <1>1 DEF Request
  <2> HIDE DEF read, miss
  <2>4. BackedRequest(read, raised)
    BY <1>1, <1>2, <2>2 DEF BackedRequest, Pending, Handling, HandlerSteps
  <2>5. BackedRequest(miss, raised)
    BY <1>1, <1>2, <2>3 DEF BackedRequest, Pending, Handling, HandlerSteps
  <2> QED BY <2>1, <2>2, <2>4, <2>5 DEF read, miss
<1>3. CASE GetHit(w)
  <2>1. cache \in CachedConference /\ BackedBy(cache, raised) /\ req[w].pc = "get"
    BY <1>3 DEF GetHit, At, TypeInv, SafetyInv
  <2>2. BackedRequest(Got([req[w] EXCEPT !.conf = cache, !.overtaken = FALSE]), raised)
    BY <1>2, <2>1, GotBacked
  <2> QED BY <1>3, <2>2 DEF GetHit, SafetyInv, TypeInv
<1>4. CASE GetMiss(w)
  <2>1. /\ MapConferenceToCacheModel(api) \in CachedConference
        /\ BackedBy(MapConferenceToCacheModel(api), raised)
        /\ req[w].pc = "get"
    BY <1>4, CivilianRoomType, OtherFieldsBacked DEF GetMiss, At, TypeInv, SafetyInv
  <2>2. BackedRequest([req[w] EXCEPT !.pc = "fill", !.overtaken = FALSE,
                                     !.conf = MapConferenceToCacheModel(api)], raised)
    BY <1>2, <2>1
  <2> QED BY <1>4, <2>2 DEF GetMiss, SafetyInv, TypeInv
<1>5. CASE Fill(w)
  <2>1. /\ Got(req[w]) \in ProperRequests
        /\ BackedRequest(Got(req[w]), raised) /\ BackedBy(req[w].conf, raised)
    BY <1>1, <1>5, GotType, GotBacked DEF Fill, At, BackedRequest
  <2>2. /\ cache' # Missing => BackedBy(cache', raised)
        /\ \A v \in Workers : BackedRequest(req'[v], raised)
    BY <1>5, <2>1, WriteBacked DEF Fill
  <2> QED BY <1>5, <2>2 DEF Fill, SafetyInv
<1> QED BY <1>3, <1>4, <1>5

\* A request that has just been taken up.
LEMMA ReceiveBacked ==
  ASSUME TypeInv, SafetyInv, NEW w \in Workers, NEW i, Receive(w, i)
  PROVE  SafetyInv'
<1> DEFINE pc  == IF net[i].type = "Refresh" THEN "force" ELSE "get"
           new == [Idle EXCEPT !.pc = pc, !.event = net[i]]
<1>1. /\ new.pc \in {"force", "get"} /\ new.phase = "controller"
      /\ new.unraised = {} /\ new.unpublished = {} /\ new.conf = NewConference
  BY DEF Idle
<1>2. req' = [req EXCEPT ![w] = new]
  BY DEF Receive
<1> HIDE DEF pc, new
<1>3. BackedRequest(new, raised)
  BY <1>1, NewBacked DEF BackedRequest, Pending, Handling, HandlerSteps
<1> QED BY <1>2, <1>3 DEF Receive, SafetyInv, TypeInv, apiVars

\* The controller's plan: nothing is published that is not raised first.
LEMMA PlanBacked ==
  ASSUME TypeInv, SafetyInv, NEW w \in Workers, Plan(w)
  PROVE  SafetyInv'
<1> DEFINE r       == req[w]
           conf    == CivilianRoomAfter(r.conf, r.event)
           filled  == Planned(r)
           planned == Ready(filled)
<1>1. /\ r \in ProperRequests /\ r \in Request /\ r.pc = "plan"
      /\ BackedBy(r.conf, raised) /\ r.conf \in CachedConference
  BY DEF Plan, At, TypeInv, SafetyInv, BackedRequest, ProperRequests, Request
<1>2. BackedBy(conf, raised)
  BY <1>1, OtherFieldsBacked DEF CivilianRoomAfter
<1>3. /\ filled \in Request
      /\ filled.event = r.event
      /\ filled.unraised = Callbacks(r.event, conf)
      /\ filled.unpublished = Callbacks(r.event, conf)
  BY <1>1, PlannedType DEF Planned, Request
<1>4. FromBrowser(r.event) =>
        \A cb \in Callbacks(r.event, conf) : cb.type \in BrowserTypes
  BY DEF FromBrowser, Callbacks
<1>5. Pending(filled, raised)
  BY <1>3, <1>4 DEF Pending
<1> HIDE DEF filled
<1>6. BackedRequest(planned, raised)
  <2>1. CASE Following(filled) = "idle"
    BY <2>1, IdleBacked DEF Ready
  <2>2. CASE Following(filled) \in {"raise", "next", "relay"}
    <3>1. /\ planned.pc = Following(filled) /\ planned.conf = NewConference
          /\ planned.event = filled.event
          /\ planned.unraised = filled.unraised
          /\ planned.unpublished = filled.unpublished
      BY <1>3, <2>2 DEF Ready, Request
    <3>2. Following(filled) = "next" /\ ~FromBrowser(filled.event)
            => filled.unraised = {}
      BY DEF Following
    <3> HIDE DEF planned
    <3> QED BY <1>5, <2>2, <3>1, <3>2, NewBacked
            DEF BackedRequest, Pending, Handling, HandlerSteps
  <2> QED BY <2>1, <2>2, FollowingType
<1>7. planned \in ProperRequests
  BY <1>1, PlannedType DEF filled
<1>8. CASE ChangesCivilianRoom(r.event)
  <2>1. WriteToCache(w, conf, planned)
    BY <1>8 DEF Plan, filled
  <2>2. /\ cache' # Missing => BackedBy(cache', raised)
        /\ \A v \in Workers : BackedRequest(req'[v], raised)
    BY <1>2, <1>6, <1>7, <2>1, WriteBacked
  <2> QED BY <2>2 DEF Plan, SafetyInv, supplierVars, apiVars
<1>9. CASE ~ChangesCivilianRoom(r.event)
  <2>1. req' = [req EXCEPT ![w] = planned] /\ UNCHANGED cache
    BY <1>9 DEF Plan, filled
  <2> QED BY <1>6, <2>1 DEF Plan, SafetyInv, TypeInv, supplierVars, apiVars
<1> QED BY <1>8, <1>9

\* The accepted callback joins what has been raised; a failure ends the request.
LEMMA RaiseBacked ==
  ASSUME TypeInv, SafetyInv, NEW w \in Workers, Raise(w) \/ RaiseFails(w) \/ ReadFails(w)
  PROVE  SafetyInv'
<1> USE DEF supplierVars, apiVars
<1>1. /\ req[w] \in ProperRequests /\ req[w] \in Request
      /\ Pending(req[w], raised)
  BY DEF TypeInv, SafetyInv, BackedRequest, ProperRequests
<1>2. ASSUME Raise(w) PROVE SafetyInv'
  <2> PICK cb \in req[w].unraised :
        /\ api' = Record(api, cb)
        /\ raised' = raised \cup {cb}
        /\ Continue(w, [req[w] EXCEPT !.unraised = @ \ {cb}])
    BY <1>2 DEF Raise
  <2> DEFINE R == raised \cup {cb}
             r == [req[w] EXCEPT !.unraised = @ \ {cb}]
  <2>1. cb \in ProperCallbacks
    BY <1>1 DEF ProperRequests
  <2>2. BackedBy(api, R) /\ BackedBy(ui, R) /\ (cache # Missing => BackedBy(cache, R))
    BY BackedMonotonic DEF SafetyInv
  <2>3. BackedBy(Record(api, cb), R)
    BY <2>1, <2>2, RecordBacked DEF TypeInv
  <2>4. \A v \in Workers : BackedRequest(req[v], R)
    BY RequestMonotonic DEF SafetyInv
  <2>5. r \in ProperRequests /\ Pending(r, R)
    <3>1. /\ r.event = req[w].event /\ r.unpublished = req[w].unpublished
          /\ r.unraised = req[w].unraised \ {cb}
      BY <1>1 DEF Request
    <3>2. r \in ProperRequests
      BY <1>1 DEF ProperRequests, Request
    <3> HIDE DEF r
    <3> QED BY <1>1, <3>1, <3>2 DEF Pending
  <2>6. \A v \in Workers : BackedRequest(req'[v], R)
    <3> HIDE DEF R
    <3> QED BY <2>4, <2>5, ContinueBacked
  <2> QED BY <1>2, <2>2, <2>3, <2>6 DEF Raise, SafetyInv
<1>3. ASSUME RaiseFails(w) \/ ReadFails(w) PROVE SafetyInv'
  BY <1>3, IdleBacked DEF RaiseFails, ReadFails, SafetyInv, TypeInv
<1> QED BY <1>2, <1>3

\* A handler only starts on a callback that may be applied.
LEMMA NextCallbackBacked ==
  ASSUME TypeInv, SafetyInv, NEW w \in Workers, NextCallback(w)
  PROVE  SafetyInv'
<1> PICK cb \in req[w].unpublished :
      req' = [req EXCEPT ![w].pc = "get", ![w].phase = "handler",
                         ![w].current = cb, ![w].unpublished = @ \ {cb}]
  BY DEF NextCallback
<1> DEFINE r   == req[w]
           new == [r EXCEPT !.pc = "get", !.phase = "handler", !.current = cb,
                            !.unpublished = @ \ {cb}]
<1>1. /\ r \in Request /\ r.pc = "next" /\ BackedRequest(r, raised)
  BY DEF NextCallback, At, TypeInv, SafetyInv, ProperRequests
<1>2. /\ new.pc = "get" /\ new.current = cb
      /\ new.event = r.event /\ new.conf = r.conf
      /\ new.unraised = r.unraised /\ new.unpublished = r.unpublished \ {cb}
  BY <1>1 DEF Request
<1>3. Applicable(cb, raised)
  BY <1>1 DEF BackedRequest, Pending, Applicable
<1> HIDE DEF new
<1>4. BackedRequest(new, raised)
  BY <1>1, <1>2, <1>3 DEF BackedRequest, Pending
<1>5. req' = [req EXCEPT ![w] = new]
  BY DEF new, TypeInv
<1> QED BY <1>4, <1>5 DEF NextCallback, SafetyInv, TypeInv, supplierVars, apiVars

\* The handler shows and writes backed conferences.
LEMMA HandlerStepsBacked ==
  ASSUME TypeInv, SafetyInv, NEW w \in Workers,
         \/ PublishRoomTransfer(w) \/ UpdateConsultationRoom(w)
         \/ UpdateStatus(w) \/ IgnoreLeave(w) \/ PublishStatus(w)
  PROVE  SafetyInv'
<1> USE DEF supplierVars, apiVars
<1> DEFINE r == req[w]
<1>1. /\ r \in ProperRequests /\ r \in Request
      /\ r.conf \in CachedConference
      /\ BackedRequest(r, raised) /\ BackedBy(r.conf, raised) /\ Pending(r, raised)
      /\ r.pc \in HandlerSteps => /\ r.current \in ProperCallbacks
                                  /\ r.phase = "handler"
                                  /\ Applicable(r.current, raised)
      /\ r.pc \in {"room", "writeRoom"} => r.current.type = "Transfer"
  BY DEF TypeInv, SafetyInv, ProperRequests, Request, BackedRequest, Handling
<1>2. ASSUME r.pc \in HandlerSteps,
             NEW c \in CachedConference, BackedBy(c, raised),
             NEW pc \in {"status", "publish"}
      PROVE  LET new == [r EXCEPT !.pc = pc, !.conf = c]
             IN  new \in ProperRequests /\ BackedRequest(new, raised)
  <2> DEFINE new == [r EXCEPT !.pc = pc, !.conf = c]
  <2>1. new \in ProperRequests
    BY <1>1, <1>2 DEF ProperRequests, Request, Steps, HandlerSteps
  <2>2. /\ new.pc = pc /\ new.conf = c /\ new.current = r.current
        /\ new.event = r.event /\ new.unraised = r.unraised
        /\ new.unpublished = r.unpublished
    BY <1>1 DEF Request
  <2> HIDE DEF new
  <2>3. BackedRequest(new, raised)
    BY <1>1, <1>2, <2>2 DEF BackedRequest, Pending, Handling
  <2> QED BY <2>1, <2>3 DEF new
<1>3. CASE PublishRoomTransfer(w)
  <2>1. BackedBy(ui', raised)
    BY <1>1, <1>3, RoomBacked
    DEF PublishRoomTransfer, At, HandlerSteps, SafetyInv, TypeInv
  <2>2. BackedRequest([r EXCEPT !.pc = "writeRoom"], raised)
    <3> DEFINE new == [r EXCEPT !.pc = "writeRoom"]
    <3>1. /\ new.pc = "writeRoom" /\ new.conf = r.conf /\ new.current = r.current
          /\ new.event = r.event /\ new.unraised = r.unraised
          /\ new.unpublished = r.unpublished
      BY <1>1 DEF Request
    <3>2. r.pc = "room"
      BY <1>3 DEF PublishRoomTransfer, At
    <3> HIDE DEF new
    <3>3. BackedRequest(new, raised)
      BY <1>1, <3>1, <3>2 DEF BackedRequest, Pending, Handling, HandlerSteps
    <3> QED BY <3>3 DEF new
  <2> QED BY <1>3, <2>1, <2>2 DEF PublishRoomTransfer, SafetyInv, TypeInv
<1>4. CASE UpdateConsultationRoom(w)
  <2> DEFINE moved == MoveRoom(r.conf, r.current)
  <2>1. r.pc = "writeRoom" /\ r.pc \in HandlerSteps
    BY <1>4 DEF UpdateConsultationRoom, At, HandlerSteps
  <2>2. moved \in CachedConference /\ BackedBy(moved, raised)
    BY <1>1, <2>1, HandlerType, RoomBacked
  <2>3. WriteToCache(w, moved, [r EXCEPT !.pc = "status", !.conf = moved])
    BY <1>4 DEF UpdateConsultationRoom
  <2> HIDE DEF moved
  <2>4. /\ cache' # Missing => BackedBy(cache', raised)
        /\ \A v \in Workers : BackedRequest(req'[v], raised)
    BY <1>2, <2>1, <2>2, <2>3, WriteBacked
  <2> QED BY <1>4, <2>4 DEF UpdateConsultationRoom, SafetyInv
<1>5. CASE UpdateStatus(w)
  <2> DEFINE changed == SetStatus(r.conf, r.current)
  <2>1. r.pc = "status" /\ r.pc \in HandlerSteps
    BY <1>5 DEF UpdateStatus, At, HandlerSteps
  <2>2. changed \in CachedConference /\ BackedBy(changed, raised)
    BY <1>1, <2>1, HandlerType, StatusBacked
  <2>3. WriteToCache(w, changed, [r EXCEPT !.pc = "publish", !.conf = changed])
    BY <1>5 DEF UpdateStatus
  <2> HIDE DEF changed
  <2>4. /\ cache' # Missing => BackedBy(cache', raised)
        /\ \A v \in Workers : BackedRequest(req'[v], raised)
    BY <1>2, <2>1, <2>2, <2>3, WriteBacked
  <2> QED BY <1>5, <2>4 DEF UpdateStatus, SafetyInv
<1>6. CASE IgnoreLeave(w)
  <2>1. \A v \in Workers : BackedRequest(req'[v], raised)
    BY <1>1, <1>6, ContinueBacked DEF IgnoreLeave, SafetyInv
  <2> QED BY <1>6, <2>1 DEF IgnoreLeave, SafetyInv
<1>7. CASE PublishStatus(w)
  <2>1. BackedBy(ui', raised)
    BY <1>1, <1>7, StatusBacked DEF PublishStatus, At, HandlerSteps, SafetyInv, TypeInv
  <2>2. \A v \in Workers : BackedRequest(req'[v], raised)
    BY <1>1, <1>7, ContinueBacked DEF PublishStatus, SafetyInv
  <2> QED BY <1>7, <2>1, <2>2 DEF PublishStatus, SafetyInv
<1> QED BY <1>3, <1>4, <1>5, <1>6, <1>7

\* Relays, started consultations and refreshes.
LEMMA OtherStepsBacked ==
  ASSUME TypeInv, SafetyInv, NEW w \in Workers,
         \/ Relay(w) \/ CreateConsultation(w) \/ CreateConsultationFails(w)
         \/ ForceGet(w) \/ AddConference(w)
  PROVE  SafetyInv'
<1> USE DEF supplierVars, apiVars
<1>1. /\ req[w] \in ProperRequests /\ req[w] \in Request
      /\ req[w].conf \in CachedConference
      /\ BackedRequest(req[w], raised) /\ BackedBy(req[w].conf, raised)
  BY DEF TypeInv, SafetyInv, BackedRequest, ProperRequests, Request
<1>2. CASE Relay(w)
  <2> PICK e : req'[w] = Idle \/ req'[w] = [Idle EXCEPT !.pc = "get", !.event = e]
    BY <1>2 DEF Relay, TypeInv
  <2> DEFINE new == [Idle EXCEPT !.pc = "get", !.event = e]
  <2>1. /\ new.pc = "get" /\ new.phase = "controller" /\ new.conf = NewConference
        /\ new.unraised = {} /\ new.unpublished = {}
    BY DEF Idle
  <2>2. req'[w] = Idle \/ req'[w] = new
    OBVIOUS
  <2> HIDE DEF new
  <2>3. BackedRequest(new, raised)
    BY <2>1, NewBacked DEF BackedRequest, Pending, Handling, HandlerSteps
  <2>4. \A v \in Workers \ {w} : req'[v] = req[v]
    BY <1>2 DEF Relay, TypeInv
  <2> QED BY <1>2, <2>2, <2>3, <2>4, IdleBacked DEF Relay, SafetyInv
<1>3. CASE CreateConsultation(w)
  <2>1. BackedBy(UpsertConsultationRoom(req[w].conf, req[w].event.to), raised)
    BY <1>1, OtherFieldsBacked
  <2>2. /\ cache' # Missing => BackedBy(cache', raised)
        /\ \A v \in Workers : BackedRequest(req'[v], raised)
    BY <1>3, <2>1, IdleType, IdleBacked, WriteBacked DEF CreateConsultation
  <2> QED BY <1>3, <2>2 DEF CreateConsultation, SafetyInv
<1>4. CASE CreateConsultationFails(w)
  BY <1>4, IdleBacked DEF CreateConsultationFails, SafetyInv, TypeInv
<1>5. CASE ForceGet(w)
  <2> DEFINE c   == MapConferenceToCacheModel(api)
             new == [req[w] EXCEPT !.pc = "add", !.overtaken = FALSE, !.conf = c]
  <2>1. BackedBy(c, raised)
    BY OtherFieldsBacked DEF TypeInv, SafetyInv
  <2>2. /\ new.pc = "add" /\ new.conf = c /\ new.event = req[w].event
        /\ new.unraised = req[w].unraised
        /\ new.unpublished = req[w].unpublished
    BY <1>1 DEF Request
  <2>3. req' = [req EXCEPT ![w] = new]
    BY <1>5 DEF ForceGet, TypeInv
  <2> HIDE DEF c, new
  <2>4. BackedRequest(new, raised)
    BY <1>1, <2>1, <2>2 DEF BackedRequest, Pending, Handling, HandlerSteps
  <2> QED BY <1>5, <2>3, <2>4 DEF ForceGet, SafetyInv, TypeInv
<1>6. CASE AddConference(w)
  <2> DEFINE new == [Idle EXCEPT !.pc = "get", !.phase = "final"]
  <2>1. new \in ProperRequests
    BY IdleType DEF Idle, ProperRequests, Request, Steps, Phases, HandlerSteps
  <2>2. /\ new.pc = "get" /\ new.phase = "final" /\ new.conf = NewConference
        /\ new.unraised = {} /\ new.unpublished = {}
    BY DEF Idle
  <2>3. WriteToCache(w, req[w].conf, new)
    BY <1>6 DEF AddConference
  <2> HIDE DEF new
  <2>4. BackedRequest(new, raised)
    BY <2>2, NewBacked DEF BackedRequest, Pending, Handling, HandlerSteps
  <2>5. /\ cache' # Missing => BackedBy(cache', raised)
        /\ \A v \in Workers : BackedRequest(req'[v], raised)
    BY <1>1, <2>1, <2>3, <2>4, WriteBacked
  <2> QED BY <1>6, <2>5 DEF AddConference, SafetyInv
<1> QED BY <1>2, <1>3, <1>4, <1>5, <1>6

-----------------------------------------------------------------------------
\* The cache and the clients are never ahead of the Video API: whatever the
\* interleaving and whatever fails, every status and every room that comes
\* from the supplier was accepted by RaiseVideoEventAsync before it was shown
\* or stored.
THEOREM NeverAhead == Spec => []NeverAheadOfVideoApi
<1>1. Init => SafetyInv
  BY NewBacked, IdleBacked DEF Init, SafetyInv
<1>2. TypeInv /\ SafetyInv /\ [Next]_vars => SafetyInv'
  <2> SUFFICES ASSUME TypeInv, SafetyInv, [Next]_vars PROVE SafetyInv'
    OBVIOUS
  <2>1. CASE Environment
    <3>1. UNCHANGED <<api, ui, cache, raised, req>>
      BY <2>1 DEF Environment, Connect, Drop, Move, MoveCivilianRoom, LeaveCall,
                  HearingEvent, FinishCountdown, Post, Internal, Send, apiVars
    <3> QED BY <3>1 DEF SafetyInv
  <2>2. CASE Evict
    BY <2>2 DEF Evict, SafetyInv, apiVars
  <2>3. CASE \E w \in Workers : Handle(w)
    BY <2>3, CacheStepsBacked, ReceiveBacked, PlanBacked, RaiseBacked,
       NextCallbackBacked, HandlerStepsBacked, OtherStepsBacked
    DEF Handle
  <2>4. CASE UNCHANGED vars
    BY <2>4 DEF SafetyInv, vars, apiVars
  <2> QED BY <2>1, <2>2, <2>3, <2>4 DEF Next
<1>3. SafetyInv => NeverAheadOfVideoApi
  BY BackedByRaised DEF SafetyInv, NeverAheadOfVideoApi
<1> QED BY <1>1, <1>2, <1>3, TypeInvHolds, PTL DEF Spec

-----------------------------------------------------------------------------
(***************************************************************************)
(* What interleaved requests can and cannot lose while the cache and the   *)
(* Video API work, whatever number of failures the bound would allow.      *)
(***************************************************************************)
\* Until the first failure no step is one: failures are counted, never forgotten.
LEMMA NoFaultBefore ==
  ASSUME TypeInv, [Next]_vars, faults' = 0
  PROVE  faults = 0 /\ ~Fault
<1>1. faults \in Nat
  BY DEF TypeInv
<1>2. UNCHANGED faults \/ Fault
  <2>1. CASE Environment
    BY <2>1 DEF Environment, Connect, Drop, Move, MoveCivilianRoom, LeaveCall,
                HearingEvent, FinishCountdown, Post, Internal, Send
  <2>2. CASE Evict
    BY <2>2 DEF Evict
  <2>3. ASSUME NEW w \in Workers, Handle(w) PROVE UNCHANGED faults \/ Fault
    <3>1. ASSUME NEW c, NEW r, WriteToCache(w, c, r) PROVE UNCHANGED faults \/ Fault
      BY <3>1 DEF WriteToCache, NoFault
    <3> QED BY <2>3, <3>1
            DEF Handle, Receive, GetHit, GetMiss, Fill, Plan, Raise, RaiseFails, ReadFails,
                NextCallback, PublishRoomTransfer, UpdateConsultationRoom,
                UpdateStatus, IgnoreLeave, PublishStatus, Relay,
                CreateConsultation, CreateConsultationFails, ForceGet,
                AddConference, NoFault
  <2>4. CASE UNCHANGED vars
    BY <2>4 DEF vars
  <2> QED BY <2>1, <2>2, <2>3, <2>4 DEF Next
<1> QED BY <1>1, <1>2 DEF Fault

\* Without faults a write succeeds, and every other copy is then overtaken.
LEMMA WriteSucceeds ==
  ASSUME TypeInv, ~Fault, NEW w \in Workers, NEW c,
         NEW r \in ProperRequests, WriteToCache(w, c, r)
  PROVE  /\ cache' = c
         /\ req'[w] = r
         /\ \A v \in Workers \ {w} :
              \/ req'[v] = req[v] /\ req[v].pc \notin HoldsCopy
              \/ req'[v] = [req[v] EXCEPT !.overtaken = TRUE]
<1> DEFINE rs == [req EXCEPT ![w] = r]
<1>1. cache' = c /\ req' = Overtake(rs, w)
  BY DEF WriteToCache
<1>2. rs[w] = r /\ \A v \in Workers \ {w} : rs[v] = req[v]
  BY DEF TypeInv
<1> HIDE DEF rs
<1> QED BY <1>1, <1>2 DEF Overtake

-----------------------------------------------------------------------------
(***************************************************************************)
(* A handler's copy is the cache's conference until somebody else writes.  *)
(***************************************************************************)
CopySteps == {"room", "writeRoom", "status"}

Fresh(r, c) == r.pc \in CopySteps /\ ~r.overtaken => c = r.conf

FreshInv == \A w \in Workers : Fresh(req[w], cache)

\* A step that leaves the cache alone need only care for its own request.
LEMMA FreshByRequest ==
  ASSUME TypeInv, FreshInv, NEW w \in Workers, UNCHANGED cache,
         NEW r, Fresh(r, cache), req' = [req EXCEPT ![w] = r]
  PROVE  FreshInv'
  BY DEF TypeInv, FreshInv

\* A write overtakes all other copies, so it need only care for its own, too.
LEMMA FreshByWrite ==
  ASSUME TypeInv, FreshInv, ~Fault, NEW w \in Workers, NEW c,
         NEW r \in ProperRequests, Fresh(r, c), WriteToCache(w, c, r)
  PROVE  FreshInv'
<1>1. ASSUME NEW v \in Workers PROVE Fresh(req'[v], cache')
  <2>1. CASE v = w
    BY <2>1, WriteSucceeds
  <2>2. CASE v # w /\ req'[v] = req[v] /\ req[v].pc \notin HoldsCopy
    BY <2>2 DEF Fresh, HoldsCopy, CopySteps
  <2>3. CASE v # w /\ req'[v] = [req[v] EXCEPT !.overtaken = TRUE]
    BY <2>3 DEF Fresh, TypeInv, ProperRequests, Request
  <2> QED BY <2>1, <2>2, <2>3, WriteSucceeds
<1> QED BY <1>1 DEF FreshInv

\* A request that goes on to its next callback holds no copy.
LEMMA ContinueFresh ==
  ASSUME TypeInv, FreshInv, NEW w \in Workers, NEW r \in ProperRequests,
         Continue(w, r), UNCHANGED cache
  PROVE  FreshInv'
<1> DEFINE next == [r EXCEPT !.pc = Following(r), !.current = NoCallback,
                             !.conf = NewConference, !.overtaken = FALSE]
           new  == IF Following(r) = "idle" THEN Idle ELSE next
<1>1. Idle.pc = "idle" /\ next.pc = Following(r)
  BY DEF Idle, ProperRequests, Request
<1>2. new.pc \notin CopySteps
  BY <1>1, FollowingType DEF CopySteps
<1>3. req' = [req EXCEPT ![w] = new]
  BY DEF Continue
<1> HIDE DEF new
<1> QED BY <1>2, <1>3, FreshByRequest DEF Fresh

\* What GetConference returns is the cache's conference, hit or miss.
LEMMA CacheStepsFresh ==
  ASSUME TypeInv, FreshInv, ~Fault, NEW w \in Workers,
         GetHit(w) \/ GetMiss(w) \/ Fill(w)
  PROVE  FreshInv'
<1>1. req[w] \in ProperRequests /\ req[w] \in Request
  BY DEF TypeInv, ProperRequests
<1>2. ASSUME NEW r \in Request PROVE Got(r).pc \in CopySteps => Got(r).conf = r.conf
  <2>1. Idle.pc = "idle"
    BY DEF Idle
  <2>2. ASSUME NEW pc PROVE [r EXCEPT !.pc = pc].conf = r.conf
    BY DEF Request
  <2>3. [r EXCEPT !.pc = "create"].pc = "create" /\ [r EXCEPT !.pc = "plan"].pc = "plan"
    BY DEF Request
  <2> QED BY <2>1, <2>2, <2>3 DEF Got, CopySteps, Request, Phases
<1>3. CASE GetHit(w)
  <2> DEFINE r == [req[w] EXCEPT !.conf = cache, !.overtaken = FALSE]
  <2>1. r \in Request /\ r.conf = cache
    BY <1>1, <1>3 DEF GetHit, TypeInv, Request
  <2>2. req' = [req EXCEPT ![w] = Got(r)] /\ UNCHANGED cache
    BY <1>3 DEF GetHit
  <2> HIDE DEF r
  <2> QED BY <1>2, <2>1, <2>2, FreshByRequest DEF Fresh
<1>4. CASE GetMiss(w)
  <2> DEFINE r == [req[w] EXCEPT !.pc = "fill", !.overtaken = FALSE,
                                 !.conf = MapConferenceToCacheModel(api)]
  <2>1. r.pc \notin CopySteps
    BY <1>1 DEF Request, CopySteps
  <2>2. req' = [req EXCEPT ![w] = r] /\ UNCHANGED cache
    BY <1>4 DEF GetMiss, TypeInv
  <2> HIDE DEF r
  <2> QED BY <2>1, <2>2, FreshByRequest DEF Fresh
<1>5. CASE Fill(w)
  <2>1. Got(req[w]) \in ProperRequests
    BY <1>1, <1>5, GotType DEF Fill, At
  <2>2. Fresh(Got(req[w]), req[w].conf)
    BY <1>1, <1>2 DEF Fresh
  <2>3. WriteToCache(w, req[w].conf, Got(req[w]))
    BY <1>5 DEF Fill
  <2> QED BY <2>1, <2>2, <2>3, FreshByWrite
<1> QED BY <1>3, <1>4, <1>5

\* Every other step of a worker: those that hold a copy keep it the cache's.
LEMMA HandleFresh ==
  ASSUME TypeInv, FreshInv, ~Fault, NEW w \in Workers, Handle(w)
  PROVE  FreshInv'
<1> DEFINE r == req[w]
<1>1. r \in ProperRequests /\ r \in Request
  BY DEF TypeInv, ProperRequests
<1>2. ASSUME NEW pc \in Steps, NEW c
      PROVE  LET new == [r EXCEPT !.pc = pc, !.conf = c]
             IN  new.pc = pc /\ new.conf = c /\ new.overtaken = r.overtaken
  BY <1>1 DEF Request
<1>3. Idle \in ProperRequests /\ Idle.pc = "idle" /\ ~Fault
  BY IdleType DEF Idle, Fault, TypeInv
<1>4. ASSUME NEW i \in 1..Len(net), Receive(w, i) PROVE FreshInv'
  <2> DEFINE pc  == IF net[i].type = "Refresh" THEN "force" ELSE "get"
             new == [Idle EXCEPT !.pc = pc, !.event = net[i]]
  <2>1. new.pc \notin CopySteps
    BY DEF Idle, CopySteps
  <2>2. req' = [req EXCEPT ![w] = new] /\ UNCHANGED cache
    BY <1>4 DEF Receive
  <2> HIDE DEF new
  <2> QED BY <2>1, <2>2, FreshByRequest DEF Fresh
<1>5. ASSUME Plan(w) PROVE FreshInv'
  <2> DEFINE new == Ready(Planned(r))
  <2>1. r.pc = "plan"
    BY <1>5 DEF Plan, At
  <2>2. new \in ProperRequests /\ Planned(r) \in Request
    BY <1>1, <2>1, PlannedType
  <2>3. new.pc \notin CopySteps
    <3>1. [Planned(r) EXCEPT !.pc = Following(Planned(r)), !.conf = NewConference,
                             !.overtaken = FALSE].pc = Following(Planned(r))
      BY <2>2 DEF Request
    <3> QED BY <1>3, <2>2, <3>1, FollowingType DEF Ready, CopySteps
  <2>4. \/ WriteToCache(w, CivilianRoomAfter(r.conf, r.event), new)
        \/ req' = [req EXCEPT ![w] = new] /\ UNCHANGED cache
    BY <1>5 DEF Plan
  <2> HIDE DEF new
  <2> QED BY <2>2, <2>3, <2>4, FreshByRequest, FreshByWrite DEF Fresh
<1>6. ASSUME Raise(w) PROVE FreshInv'
  <2> PICK cb \in r.unraised : Continue(w, [r EXCEPT !.unraised = @ \ {cb}])
    BY <1>6 DEF Raise
  <2>1. [r EXCEPT !.unraised = @ \ {cb}] \in ProperRequests
    BY <1>1 DEF ProperRequests, Request
  <2> QED BY <1>6, <2>1, ContinueFresh DEF Raise
<1>7. ASSUME NextCallback(w) PROVE FreshInv'
  <2> PICK cb : req' = [req EXCEPT ![w].pc = "get", ![w].phase = "handler",
                                   ![w].current = cb, ![w].unpublished = @ \ {cb}]
    BY <1>7 DEF NextCallback
  <2>1. /\ req'[w].pc = "get"
        /\ \A v \in Workers \ {w} : req'[v] = req[v]
    BY <1>1 DEF TypeInv, Request
  <2> QED BY <1>7, <2>1 DEF NextCallback, FreshInv, Fresh, CopySteps
<1>8. ASSUME PublishRoomTransfer(w) PROVE FreshInv'
  <2> DEFINE new == [r EXCEPT !.pc = "writeRoom"]
  <2>1. /\ new.conf = r.conf /\ new.overtaken = r.overtaken
        /\ r.pc = "room"
    BY <1>1, <1>8 DEF Request, PublishRoomTransfer, At
  <2>2. req' = [req EXCEPT ![w] = new] /\ UNCHANGED cache
    BY <1>8 DEF PublishRoomTransfer, TypeInv
  <2> HIDE DEF new
  <2>3. Fresh(new, cache)
    BY <2>1 DEF FreshInv, Fresh, CopySteps
  <2> QED BY <2>2, <2>3, FreshByRequest
<1>9. ASSUME UpdateConsultationRoom(w) \/ UpdateStatus(w) PROVE FreshInv'
  <2>1. /\ r.pc \in {"writeRoom", "status"}
        /\ r.current \in ProperCallbacks /\ r.conf \in CachedConference
    BY <1>1, <1>9 DEF UpdateConsultationRoom, UpdateStatus, At, HandlerSteps,
                      ProperRequests, Request
  <2>2. ASSUME NEW c \in CachedConference, NEW pc \in {"status", "publish"},
               WriteToCache(w, c, [r EXCEPT !.pc = pc, !.conf = c])
        PROVE  FreshInv'
    <3> DEFINE new == [r EXCEPT !.pc = pc, !.conf = c]
    <3>1. new \in ProperRequests
      BY <1>1, <2>1 DEF ProperRequests, Request, Steps, HandlerSteps
    <3>2. Fresh(new, c)
      BY <1>2 DEF Fresh, Steps
    <3>3. WriteToCache(w, c, new)
      BY <2>2
    <3> HIDE DEF new
    <3> QED BY <3>1, <3>2, <3>3, FreshByWrite
  <2>3. CASE UpdateConsultationRoom(w)
    <3> DEFINE c == MoveRoom(r.conf, r.current)
    <3>1. c \in CachedConference
      BY <2>1, HandlerType
    <3>2. WriteToCache(w, c, [r EXCEPT !.pc = "status", !.conf = c])
      BY <2>3 DEF UpdateConsultationRoom
    <3> HIDE DEF c
    <3> QED BY <2>2, <3>1, <3>2
  <2>4. CASE UpdateStatus(w)
    <3> DEFINE c == SetStatus(r.conf, r.current)
    <3>1. c \in CachedConference
      BY <2>1, HandlerType
    <3>2. WriteToCache(w, c, [r EXCEPT !.pc = "publish", !.conf = c])
      BY <2>4 DEF UpdateStatus
    <3> HIDE DEF c
    <3> QED BY <2>2, <3>1, <3>2
  <2> QED BY <1>9, <2>3, <2>4
<1>10. ASSUME IgnoreLeave(w) \/ PublishStatus(w) PROVE FreshInv'
  BY <1>1, <1>10, ContinueFresh DEF IgnoreLeave, PublishStatus
<1>11. ASSUME Relay(w) PROVE FreshInv'
  <2> PICK e : \/ req' = [req EXCEPT ![w] = Idle]
               \/ req' = [req EXCEPT ![w] = [Idle EXCEPT !.pc = "get", !.event = e]]
    BY <1>11 DEF Relay
  <2>1. [Idle EXCEPT !.pc = "get", !.event = e].pc = "get"
    BY DEF Idle
  <2> QED BY <1>3, <1>11, <2>1, FreshByRequest DEF Relay, Fresh, CopySteps
<1>12. ASSUME CreateConsultation(w) PROVE FreshInv'
  BY <1>3, <1>12, FreshByWrite DEF CreateConsultation, Fresh, CopySteps
<1>13. ASSUME ForceGet(w) PROVE FreshInv'
  <2> DEFINE new == [r EXCEPT !.pc = "add", !.overtaken = FALSE,
                              !.conf = MapConferenceToCacheModel(api)]
  <2>1. new.pc \notin CopySteps
    BY <1>1 DEF Request, CopySteps
  <2>2. req' = [req EXCEPT ![w] = new] /\ UNCHANGED cache
    BY <1>13 DEF ForceGet, TypeInv
  <2> HIDE DEF new
  <2> QED BY <2>1, <2>2, FreshByRequest DEF Fresh
<1>14. ASSUME AddConference(w) PROVE FreshInv'
  <2> DEFINE new == [Idle EXCEPT !.pc = "get", !.phase = "final"]
  <2>1. new \in ProperRequests /\ new.pc \notin CopySteps
    BY IdleType DEF Idle, ProperRequests, Request, Steps, Phases, HandlerSteps, CopySteps
  <2>2. WriteToCache(w, r.conf, new)
    BY <1>14 DEF AddConference
  <2> HIDE DEF new
  <2> QED BY <2>1, <2>2, FreshByWrite DEF Fresh
<1> QED BY <1>3, <1>4, <1>5, <1>6, <1>7, <1>8, <1>9, <1>10, <1>11, <1>12, <1>13,
           <1>14, CacheStepsFresh
        DEF Handle, RaiseFails, ReadFails, CreateConsultationFails

-----------------------------------------------------------------------------
\* What a handler does to a conference changes nobody but its callback's party,
\* or nothing but the conference's own status.
LEMMA HandlerChangesOnly ==
  ASSUME NEW c \in CachedConference, NEW cb \in ProperCallbacks
  PROVE  /\ SameBut(c, SetStatus(c, cb), cb.who)
         /\ SameBut(c, MoveRoom(c, cb), cb.who)
<1>1. ASSUME NEW d \in CachedConference, NEW p, NEW label
      PROVE  SameBut(d, RemoveParticipantFromConsultationRoom(d, p, label), p)
  <2> DEFINE left == [d EXCEPT !.pRoom[p] = NoRoom]
  <2>1. /\ left \in CachedConference
        /\ SameBut(d, left, p)
    BY DEF SameBut, CachedConference
  <2> HIDE DEF left
  <2>2. SameBut(d, CheckAndRemoveEmptyConsultationRoom(left, label), p)
    BY <2>1 DEF CheckAndRemoveEmptyConsultationRoom, SameBut, CachedConference
  <2> QED BY <2>2 DEF RemoveParticipantFromConsultationRoom, left
<1>2. ASSUME NEW d \in CachedConference, NEW e, NEW label
      PROVE  SameBut(d, RemoveEndpointFromConsultationRoom(d, e, label), e)
  <2> DEFINE left == [d EXCEPT !.eRoom[e] = NoRoom]
  <2>1. /\ left \in CachedConference
        /\ SameBut(d, left, e)
    BY DEF SameBut, CachedConference
  <2> HIDE DEF left
  <2>2. SameBut(d, CheckAndRemoveEmptyConsultationRoom(left, label), e)
    BY <2>1 DEF CheckAndRemoveEmptyConsultationRoom, SameBut, CachedConference
  <2> QED BY <2>2 DEF RemoveEndpointFromConsultationRoom, left
<1>3. ASSUME cb.who \in Participants
      PROVE  SameBut(c, UpdateParticipantStatus(c, cb.who, cb.status), cb.who)
  <2> DEFINE updated == [c EXCEPT !.pStatus[cb.who] = cb.status]
  <2>1. /\ updated \in CachedConference
        /\ SameBut(c, updated, cb.who)
    BY <1>3 DEF ProperCallbacks, CachedConference, SameBut
  <2> HIDE DEF updated
  <2>2. \/ UpdateParticipantStatus(c, cb.who, cb.status) = updated
        \/ UpdateParticipantStatus(c, cb.who, cb.status)
             = RemoveParticipantFromConsultationRoom(updated, cb.who, c.pRoom[cb.who])
    BY DEF UpdateParticipantStatus, updated
  <2> DEFINE left == RemoveParticipantFromConsultationRoom(updated, cb.who,
                                                           c.pRoom[cb.who])
  <2>3. SameBut(updated, left, cb.who)
    BY <1>1, <2>1
  <2> HIDE DEF left
  <2>4. SameBut(c, left, cb.who)
    BY <2>1, <2>3 DEF SameBut
  <2> QED BY <2>1, <2>2, <2>4 DEF left
<1>4. ASSUME cb.who \in Endpoints
      PROVE  SameBut(c, UpdateEndpointStatus(c, cb.who, cb.status), cb.who)
  BY DEF UpdateEndpointStatus, SameBut, CachedConference
<1>5. ASSUME cb.who = Nobody
      PROVE  /\ SameBut(c, CompleteCountdown(c), cb.who)
             /\ SameBut(c, UpdateConferenceStatus(c, cb.status), cb.who)
  BY <1>5 DEF CompleteCountdown, UpdateConferenceStatus, SameBut, CachedConference
<1>6. SameBut(c, SetStatus(c, cb), cb.who)
  BY <1>3, <1>4, <1>5 DEF SetStatus, ProperCallbacks, Callback, Parties
<1>7. ASSUME cb.who \in Endpoints PROVE SameBut(c, MoveRoom(c, cb), cb.who)
  <2>1. SameBut(c, AddEndpointToConsultationRoom(c, cb.to, cb.who), cb.who)
    BY DEF AddEndpointToConsultationRoom, UpsertConsultationRoom, SameBut,
           CachedConference
  <2>2. SameBut(c, RemoveEndpointFromConsultationRoom(c, cb.who, cb.from), cb.who)
    BY <1>2
  <2> QED BY <1>7, <2>1, <2>2 DEF MoveRoom
<1>8. ASSUME cb.who \notin Endpoints PROVE SameBut(c, MoveRoom(c, cb), cb.who)
  <2>1. SameBut(c, AddParticipantToConsultationRoom(c, cb.to, cb.who), cb.who)
    BY DEF AddParticipantToConsultationRoom, UpsertConsultationRoom, SameBut,
           CachedConference
  <2>2. SameBut(c, RemoveParticipantFromConsultationRoom(c, cb.who, cb.from), cb.who)
    BY <1>1
  <2> QED BY <1>8, <2>1, <2>2 DEF MoveRoom
<1> QED BY <1>6, <1>7, <1>8

\* A step of one worker leaves the others where they are in their requests.
LEMMA OthersWait ==
  ASSUME TypeInv, NEW v \in Workers, NEW w \in Workers, v # w, Handle(v)
  PROVE  req'[w].pc = req[w].pc
<1>1. req \in [Workers -> Request]
  BY DEF TypeInv, ProperRequests
<1>2. ASSUME NEW c, NEW r, WriteToCache(v, c, r)
      PROVE  req'[w].pc = req[w].pc
  <2> DEFINE rs == [req EXCEPT ![v] = r]
  <2>1. rs[w] = req[w]
    BY <1>1
  <2>2. req' = Overtake(rs, v) \/ req' = rs
    BY <1>2 DEF WriteToCache
  <2> HIDE DEF rs
  <2>3. req' = Overtake(rs, v) => req'[w] = rs[w]
                               \/ req'[w] = [rs[w] EXCEPT !.overtaken = TRUE]
    BY DEF Overtake
  <2> QED BY <1>1, <2>1, <2>2, <2>3 DEF Request
<1>3. req'[w] = req[w] \/ \E c, r : WriteToCache(v, c, r)
  BY <1>1
  DEF Handle, Receive, GetHit, GetMiss, Fill, Plan, Raise, RaiseFails, ReadFails,
      NextCallback, PublishRoomTransfer, UpdateConsultationRoom, UpdateStatus,
      IgnoreLeave, PublishStatus, Relay, CreateConsultation,
      CreateConsultationFails, ForceGet, AddConference, Continue
<1> QED BY <1>2, <1>3

\* A worker's step number changes only by a step of its own.
LEMMA OwnStep ==
  ASSUME TypeInv, NEW w \in Workers, req'[w].pc # req[w].pc, [Next]_vars
  PROVE  Handle(w)
<1>1. ~Environment /\ ~Evict /\ ~UNCHANGED vars
  BY DEF Environment, Connect, Drop, Move, MoveCivilianRoom, LeaveCall,
         HearingEvent, FinishCountdown, Post, Internal, Send, Evict, vars
<1>2. PICK v \in Workers : Handle(v)
  BY <1>1 DEF Next
<1> QED BY <1>2, OthersWait

\* While the cache and the Video API work, an update is lost only to a write
\* that overtakes a handler between its own read and its write: every other
\* write of a handler changes nothing but what its callback is about.
THEOREM OnlyOvertaken ==
  Spec /\ [](faults = 0) => OnlyOvertakenHandlersLoseUpdates
<1> DEFINE Step ==
      \A w \in Workers :
        /\ req[w].pc \in {"writeRoom", "status"} /\ ~req[w].overtaken
        /\ req'[w].pc # req[w].pc /\ cache # Missing
        => SameBut(cache, cache', req[w].current.who)
<1>1. Init => FreshInv
  BY DEF Init, FreshInv, Fresh, Idle, CopySteps
<1>2. TypeInv /\ (faults = 0)' /\ FreshInv /\ [Next]_vars => FreshInv'
  <2> SUFFICES ASSUME TypeInv, faults' = 0, FreshInv, [Next]_vars PROVE FreshInv'
    OBVIOUS
  <2> ~Fault
    BY NoFaultBefore
  <2>1. CASE Environment
    BY <2>1 DEF Environment, Connect, Drop, Move, MoveCivilianRoom, LeaveCall,
                HearingEvent, FinishCountdown, Post, Internal, Send, FreshInv
  <2>2. CASE Evict
    BY <2>2 DEF Evict
  <2>3. CASE \E w \in Workers : Handle(w)
    BY <2>3, HandleFresh
  <2>4. CASE UNCHANGED vars
    BY <2>4 DEF vars, FreshInv
  <2> QED BY <2>1, <2>2, <2>3, <2>4 DEF Next
<1>3. TypeInv /\ (faults = 0)' /\ FreshInv /\ [Next]_vars => Step
  <2> SUFFICES ASSUME TypeInv, faults' = 0, FreshInv, [Next]_vars, NEW w \in Workers,
                      req[w].pc \in {"writeRoom", "status"}, ~req[w].overtaken,
                      req'[w].pc # req[w].pc, cache # Missing
               PROVE  SameBut(cache, cache', req[w].current.who)
    OBVIOUS
  <2> DEFINE r == req[w]
  <2>1. /\ r \in ProperRequests /\ r \in Request
        /\ r.current \in ProperCallbacks
        /\ cache = r.conf /\ cache \in CachedConference
    BY DEF TypeInv, FreshInv, Fresh, CopySteps, ProperRequests, HandlerSteps
  <2>2. UpdateConsultationRoom(w) \/ UpdateStatus(w) \/ IgnoreLeave(w)
    BY OwnStep
    DEF Handle, Receive, GetHit, GetMiss, Fill, Plan, Raise, RaiseFails, ReadFails,
        AsksVideoApi, NextCallback, PublishRoomTransfer, PublishStatus, Relay,
        CreateConsultation, CreateConsultationFails, ForceGet, AddConference, At
  <2>3. ASSUME NEW c, NEW s, WriteToCache(w, c, s) PROVE cache' = c
    BY <2>3, NoFaultBefore DEF WriteToCache
  <2>4. CASE UpdateConsultationRoom(w)
    <3>1. cache' = MoveRoom(cache, r.current)
      BY <2>1, <2>3, <2>4 DEF UpdateConsultationRoom
    <3> QED BY <2>1, <3>1, HandlerChangesOnly
  <2>5. CASE UpdateStatus(w)
    <3>1. cache' = SetStatus(cache, r.current)
      BY <2>1, <2>3, <2>5 DEF UpdateStatus
    <3> QED BY <2>1, <3>1, HandlerChangesOnly
  <2>6. CASE IgnoreLeave(w)
    BY <2>6 DEF IgnoreLeave, SameBut
  <2> QED BY <2>2, <2>4, <2>5, <2>6
<1>4. OnlyOvertakenHandlersLoseUpdates <=> [][Step]_vars
  BY DEF OnlyOvertakenHandlersLoseUpdates
<1> QED BY <1>1, <1>2, <1>3, <1>4, TypeInvHolds, PTL DEF Spec

-----------------------------------------------------------------------------
(***************************************************************************)
(* The list of consultation rooms.                                         *)
(***************************************************************************)
Listed(c) == \A r \in Rooms : InRoom(c, r) # {} => r \in c.rooms

ListedRequest(r, c) ==
  /\ Listed(r.conf)
  /\ r.pc \notin {"force", "add"}
  /\ c = Missing => r.pc \in {"idle", "get", "fill"}

\* No request rebuilds the cached conference from the Video API.
NoRefresh == \A i \in 1..Len(net) : net[i].type # "Refresh"

\* While the conference is not in the cache nobody has been moved anywhere, and
\* no request has got further than asking for it.
ListedInv ==
  /\ cache # Missing => Listed(cache)
  /\ cache = Missing => api = NewConference
  /\ NoRefresh
  /\ \A w \in Workers : ListedRequest(req[w], cache)

\* A new conference and an idle worker.
LEMMA NewListed ==
  /\ Listed(NewConference)
  /\ Listed(MapConferenceToCacheModel(NewConference))
  /\ Listed(Idle.conf) /\ Idle.pc = "idle"
<1>1. \A r \in Rooms : InRoom(NewConference, r) = {}
  BY RoomsAssumption DEF InRoom, NewConference, Locations
<1>2. \A r \in Rooms : InRoom(MapConferenceToCacheModel(NewConference), r) = {}
  BY RoomsAssumption DEF InRoom, NewConference, Locations, MapConferenceToCacheModel
<1> QED BY <1>1, <1>2 DEF Listed, Idle

\* Entering a room lists it; leaving one removes it only when it is empty.
LEMMA MovesListed ==
  ASSUME NEW c \in CachedConference, Listed(c), NEW cb \in ProperCallbacks
  PROVE  Listed(SetStatus(c, cb)) /\ Listed(MoveRoom(c, cb))
<1>1. ASSUME NEW d \in CachedConference, Listed(d), NEW p, NEW label
      PROVE  Listed(RemoveParticipantFromConsultationRoom(d, p, label))
  <2> DEFINE left == [d EXCEPT !.pRoom[p] = NoRoom]
  <2>1. left \in CachedConference /\ Listed(left)
    BY <1>1, RoomsAssumption DEF Listed, InRoom, CachedConference, Locations
  <2> HIDE DEF left
  <2>2. Listed(CheckAndRemoveEmptyConsultationRoom(left, label))
    BY <2>1 DEF CheckAndRemoveEmptyConsultationRoom, Listed, InRoom, CachedConference
  <2> QED BY <2>2 DEF RemoveParticipantFromConsultationRoom, left
<1>2. ASSUME NEW d \in CachedConference, Listed(d), NEW e, NEW label
      PROVE  Listed(RemoveEndpointFromConsultationRoom(d, e, label))
  <2> DEFINE left == [d EXCEPT !.eRoom[e] = NoRoom]
  <2>1. left \in CachedConference /\ Listed(left)
    BY <1>2, RoomsAssumption DEF Listed, InRoom, CachedConference, Locations
  <2> HIDE DEF left
  <2>2. Listed(CheckAndRemoveEmptyConsultationRoom(left, label))
    BY <2>1 DEF CheckAndRemoveEmptyConsultationRoom, Listed, InRoom, CachedConference
  <2> QED BY <2>2 DEF RemoveEndpointFromConsultationRoom, left
<1>3. ASSUME cb.who \in Participants
      PROVE  Listed(UpdateParticipantStatus(c, cb.who, cb.status))
  <2> DEFINE updated == [c EXCEPT !.pStatus[cb.who] = cb.status]
  <2>1. updated \in CachedConference /\ Listed(updated)
    BY <1>3 DEF ProperCallbacks, CachedConference, Listed, InRoom
  <2> HIDE DEF updated
  <2> QED BY <1>1, <2>1 DEF UpdateParticipantStatus, updated
<1>4. /\ Listed(UpdateEndpointStatus(c, cb.who, cb.status))
      /\ Listed(CompleteCountdown(c))
      /\ Listed(UpdateConferenceStatus(c, cb.status))
  BY DEF UpdateEndpointStatus, CompleteCountdown, UpdateConferenceStatus, Listed,
         InRoom, CachedConference
<1>5. /\ Listed(AddParticipantToConsultationRoom(c, cb.to, cb.who))
      /\ Listed(AddEndpointToConsultationRoom(c, cb.to, cb.who))
  BY DEF AddParticipantToConsultationRoom, AddEndpointToConsultationRoom,
         UpsertConsultationRoom, Listed, InRoom, CachedConference
<1>6. Listed(MoveRoom(c, cb))
  BY <1>1, <1>2, <1>5 DEF MoveRoom
<1> QED BY <1>3, <1>4, <1>6 DEF SetStatus

\* The other changes of a conference, which concern no room that somebody is in.
LEMMA OtherListed ==
  ASSUME NEW c \in CachedConference, Listed(c)
  PROVE  /\ \A label : Listed(UpsertConsultationRoom(c, label))
         /\ \A e : Listed(CivilianRoomAfter(c, e))
  BY DEF UpsertConsultationRoom, CivilianRoomAfter, AddParticipantToRoom,
         RemoveParticipantFromRoom, Listed, InRoom, CachedConference

\* A step that leaves the cache and what is sent alone.
LEMMA ListedByRequest ==
  ASSUME TypeInv, ListedInv, NEW w \in Workers, UNCHANGED <<cache, net>>,
         cache = Missing => UNCHANGED api,
         NEW r, ListedRequest(r, cache), req' = [req EXCEPT ![w] = r]
  PROVE  ListedInv'
  BY DEF TypeInv, ListedInv, NoRefresh

\* A write of a conference whose occupied rooms are listed.
LEMMA ListedByWrite ==
  ASSUME TypeInv, ListedInv, ~Fault, UNCHANGED net, NEW w \in Workers,
         NEW c \in CachedConference, Listed(c),
         NEW r \in ProperRequests, ListedRequest(r, c), WriteToCache(w, c, r)
  PROVE  ListedInv'
<1>1. cache' = c /\ c # Missing
  BY WriteSucceeds, EventsAssumption
<1>2. ASSUME NEW v \in Workers PROVE ListedRequest(req'[v], cache')
  <2>1. CASE v = w
    BY <1>1, <2>1, WriteSucceeds
  <2>2. CASE v # w /\ req'[v] = req[v]
    BY <1>1, <2>2 DEF ListedInv, ListedRequest
  <2>3. CASE v # w /\ req'[v] = [req[v] EXCEPT !.overtaken = TRUE]
    BY <1>1, <2>3 DEF ListedInv, ListedRequest, TypeInv, ProperRequests, Request
  <2> QED BY <2>1, <2>2, <2>3, WriteSucceeds
<1> QED BY <1>1, <1>2 DEF ListedInv, NoRefresh

\* A request that goes on to its next callback.
LEMMA ContinueListed ==
  ASSUME TypeInv, ListedInv, NEW w \in Workers, NEW r \in ProperRequests,
         Continue(w, r), UNCHANGED <<cache, net>>, cache # Missing
  PROVE  ListedInv'
<1> DEFINE next == [r EXCEPT !.pc = Following(r), !.current = NoCallback,
                             !.conf = NewConference, !.overtaken = FALSE]
           new  == IF Following(r) = "idle" THEN Idle ELSE next
<1>1. next.pc = Following(r) /\ next.conf = NewConference
  BY DEF ProperRequests, Request
<1> HIDE DEF next
<1>2. ListedRequest(new, cache)
  BY <1>1, NewListed, FollowingType DEF ListedRequest
<1>3. req' = [req EXCEPT ![w] = new]
  BY DEF Continue, next
<1> HIDE DEF new
<1> QED BY <1>2, <1>3, ListedByRequest

\* What GetConference returns has its occupied rooms listed, hit or miss.
LEMMA CacheStepsListed ==
  ASSUME TypeInv, ListedInv, ~Fault, NEW w \in Workers,
         GetHit(w) \/ GetMiss(w) \/ Fill(w)
  PROVE  ListedInv'
<1>1. /\ req[w] \in ProperRequests /\ req[w] \in Request
      /\ ListedRequest(req[w], cache) /\ ~Fault
  BY DEF TypeInv, ProperRequests, ListedInv, Fault
<1>2. ASSUME NEW r \in Request, Listed(r.conf), NEW c \in CachedConference
      PROVE  ListedRequest(Got(r), c)
  <2>1. ASSUME NEW pc \in Steps
        PROVE  [r EXCEPT !.pc = pc].conf = r.conf /\ [r EXCEPT !.pc = pc].pc = pc
    BY DEF Request
  <2>2. \/ Got(r) = Idle
        \/ \E pc \in {"room", "status", "create", "plan"} :
             Got(r) = [r EXCEPT !.pc = pc]
    BY DEF Got, Request, Phases
  <2>3. CASE Got(r) = Idle
    BY <2>3, NewListed, EventsAssumption DEF ListedRequest
  <2>4. ASSUME NEW pc \in {"room", "status", "create", "plan"},
               Got(r) = [r EXCEPT !.pc = pc]
        PROVE  ListedRequest(Got(r), c)
    <3>1. Got(r).pc = pc /\ Got(r).conf = r.conf
      BY <2>1, <2>4 DEF Steps
    <3> QED BY <1>2, <3>1, EventsAssumption DEF ListedRequest
  <2> QED BY <2>2, <2>3, <2>4
<1>3. CASE GetHit(w)
  <2> DEFINE r == [req[w] EXCEPT !.conf = cache, !.overtaken = FALSE]
  <2>1. /\ r \in Request /\ r.conf = cache
        /\ cache \in CachedConference /\ Listed(cache)
    BY <1>1, <1>3 DEF GetHit, TypeInv, Request, ListedInv
  <2>2. req' = [req EXCEPT ![w] = Got(r)] /\ UNCHANGED <<cache, net, api>>
    BY <1>3 DEF GetHit, supplierVars, apiVars
  <2> HIDE DEF r
  <2> QED BY <1>2, <2>1, <2>2, ListedByRequest
<1>4. CASE GetMiss(w)
  <2> DEFINE r == [req[w] EXCEPT !.pc = "fill", !.overtaken = FALSE,
                                 !.conf = MapConferenceToCacheModel(api)]
  <2>1. r.pc = "fill" /\ r.conf = MapConferenceToCacheModel(api)
    BY <1>1 DEF Request
  <2>2. req' = [req EXCEPT ![w] = r] /\ UNCHANGED <<cache, net, api>> /\ cache = Missing
    BY <1>1, <1>4 DEF GetMiss, TypeInv, supplierVars, apiVars
  <2> HIDE DEF r
  <2>3. ListedRequest(r, cache)
    BY <2>1, <2>2, NewListed DEF ListedRequest, ListedInv
  <2> QED BY <2>2, <2>3, ListedByRequest
<1>5. CASE Fill(w)
  <2>1. /\ Got(req[w]) \in ProperRequests
        /\ req[w].conf \in CachedConference /\ Listed(req[w].conf)
    BY <1>1, <1>5, GotType DEF Fill, At, Request, ListedRequest
  <2>2. ListedRequest(Got(req[w]), req[w].conf)
    BY <1>1, <1>2, <2>1
  <2>3. WriteToCache(w, req[w].conf, Got(req[w])) /\ UNCHANGED net
    BY <1>5 DEF Fill, supplierVars
  <2> QED BY <2>1, <2>2, <2>3, ListedByWrite
<1> QED BY <1>3, <1>4, <1>5

\* Taking up a request that is no refresh leaves others that are none.
LEMMA ReceiveListed ==
  ASSUME TypeInv, ListedInv, NEW w \in Workers, NEW i \in 1..Len(net), Receive(w, i)
  PROVE  ListedInv'
<1> DEFINE new == [Idle EXCEPT !.pc = "get", !.event = net[i]]
<1>1. new.pc = "get" /\ new.conf = Idle.conf
  BY DEF Idle
<1>2. req' = [req EXCEPT ![w] = new] /\ UNCHANGED <<cache, api>>
  BY DEF Receive, ListedInv, NoRefresh, apiVars
<1> HIDE DEF new
<1>3. ListedRequest(new, cache)
  BY <1>1, NewListed DEF ListedRequest
<1>4. \A j \in 1..Len(net') : net'[j].type # "Refresh"
  <2>1. net \in Seq(SentEvents) /\ Len(net) \in Nat /\ i \in Nat
    BY LenProperties DEF TypeInv
  <2> DEFINE before == SubSeq(net, 1, i - 1)
             after  == SubSeq(net, i + 1, Len(net))
  <2>2. /\ Len(before) = i - 1 /\ \A j \in 1..Len(before) : before[j] = net[j]
        /\ before \in Seq(SentEvents)
    <3>1. \A j \in 1 .. i - 1 : net[j] \in SentEvents
      BY <2>1, ElementOfSeq
    <3> QED BY <2>1, <3>1, SubSeqProperties
  <2>3. /\ Len(after) = Len(net) - i
        /\ \A j \in 1..Len(after) : after[j] = net[i + j]
        /\ after \in Seq(SentEvents)
    <3>1. \A j \in i + 1 .. Len(net) : net[j] \in SentEvents
      BY <2>1, ElementOfSeq
    <3> QED BY <2>1, <3>1, SubSeqProperties
  <2> HIDE DEF before, after
  <2>4. \A j \in 1..Len(net') :
          \E k \in 1..Len(net) : net'[j] = net[k]
    <3> SUFFICES ASSUME NEW j \in 1..Len(before \o after)
                 PROVE  \E k \in 1..Len(net) : (before \o after)[j] = net[k]
      BY DEF Receive, before, after
    <3>1. Len(before \o after) = Len(before) + Len(after)
      BY <2>2, <2>3, ConcatProperties
    <3>2. CASE j <= Len(before)
      <4>1. (before \o after)[j] = net[j] /\ j \in 1..Len(net)
        BY <2>1, <2>2, <2>3, <3>1, <3>2, ConcatProperties
      <4> QED BY <4>1
    <3>3. CASE j > Len(before)
      <4>1. (before \o after)[j] = after[j - Len(before)]
        BY <2>1, <2>2, <2>3, <3>1, <3>3, ConcatProperties
      <4>2. j - Len(before) \in 1..Len(after) /\ j + 1 \in 1..Len(net)
        BY <2>1, <2>2, <2>3, <3>1, <3>3
      <4>3. i + (j - Len(before)) = j + 1
        BY <2>1, <2>2, <2>3, <3>1
      <4>4. after[j - Len(before)] = net[j + 1]
        BY <2>3, <4>2, <4>3
      <4> QED BY <4>1, <4>2, <4>4
    <3> QED BY <2>1, <2>2, <2>3, <3>1, <3>2, <3>3
  <2> QED BY <2>4 DEF ListedInv, NoRefresh
<1> QED BY <1>2, <1>3, <1>4 DEF ListedInv, NoRefresh, TypeInv

\* Every other step of a worker keeps the occupied rooms listed.
LEMMA HandleListed ==
  ASSUME TypeInv, ListedInv, ~Fault, NEW w \in Workers, Handle(w)
  PROVE  ListedInv'
<1> USE DEF supplierVars, apiVars
<1> DEFINE r == req[w]
<1>1. /\ r \in ProperRequests /\ r \in Request /\ ListedRequest(r, cache)
      /\ r.conf \in CachedConference /\ Listed(r.conf)
  BY DEF TypeInv, ProperRequests, Request, ListedInv, ListedRequest
<1>2. /\ Idle \in ProperRequests /\ ~Fault
      /\ \A c : ListedRequest(Idle, c)
  BY IdleType, NewListed DEF Fault, TypeInv, ListedRequest
<1>3. ASSUME Plan(w) PROVE ListedInv'
  <2> DEFINE new  == Ready(Planned(r))
             conf == CivilianRoomAfter(r.conf, r.event)
  <2>1. r.pc = "plan" /\ cache # Missing
    BY <1>1, <1>3 DEF Plan, At, ListedRequest
  <2>2. /\ new \in ProperRequests /\ Planned(r) \in Request
        /\ conf \in CachedConference /\ Listed(conf)
    BY <1>1, <2>1, PlannedType, OtherListed
  <2>3. ASSUME NEW c, c # Missing PROVE ListedRequest(new, c)
    <3>1. LET next == [Planned(r) EXCEPT !.pc = Following(Planned(r)),
                                         !.conf = NewConference, !.overtaken = FALSE]
          IN  next.pc = Following(Planned(r)) /\ next.conf = NewConference
      BY <2>2 DEF Request
    <3> QED BY <1>2, <2>3, <3>1, NewListed, FollowingType DEF Ready, ListedRequest
  <2>4. /\ \/ WriteToCache(w, conf, new)
           \/ req' = [req EXCEPT ![w] = new] /\ UNCHANGED cache
        /\ UNCHANGED <<net, api>>
    BY <1>3 DEF Plan
  <2> HIDE DEF new, conf
  <2> QED BY <2>1, <2>2, <2>3, <2>4, ListedByRequest, ListedByWrite, EventsAssumption
<1>4. ASSUME Raise(w) PROVE ListedInv'
  <2> PICK cb \in r.unraised : Continue(w, [r EXCEPT !.unraised = @ \ {cb}])
    BY <1>4 DEF Raise
  <2>1. [r EXCEPT !.unraised = @ \ {cb}] \in ProperRequests
    BY <1>1 DEF ProperRequests, Request
  <2>2. cache # Missing /\ UNCHANGED <<cache, net>>
    BY <1>1, <1>4 DEF Raise, At, ListedRequest
  <2> QED BY <2>1, <2>2, ContinueListed
<1>5. ASSUME NextCallback(w) PROVE ListedInv'
  <2> PICK cb : req' = [req EXCEPT ![w].pc = "get", ![w].phase = "handler",
                                   ![w].current = cb, ![w].unpublished = @ \ {cb}]
    BY <1>5 DEF NextCallback
  <2>1. /\ req'[w].pc = "get" /\ req'[w].conf = r.conf
        /\ \A v \in Workers \ {w} : req'[v] = req[v]
    BY <1>1 DEF TypeInv, Request
  <2> QED BY <1>1, <1>5, <2>1 DEF NextCallback, ListedInv, NoRefresh, ListedRequest
<1>6. ASSUME PublishRoomTransfer(w) PROVE ListedInv'
  <2> DEFINE new == [r EXCEPT !.pc = "writeRoom"]
  <2>1. /\ new.conf = r.conf /\ new.pc = "writeRoom"
        /\ r.pc = "room"
    BY <1>1, <1>6 DEF Request, PublishRoomTransfer, At
  <2>2. req' = [req EXCEPT ![w] = new] /\ UNCHANGED <<cache, net, api>>
    BY <1>6 DEF PublishRoomTransfer, TypeInv
  <2> HIDE DEF new
  <2>3. ListedRequest(new, cache)
    BY <1>1, <2>1 DEF ListedRequest
  <2> QED BY <2>2, <2>3, ListedByRequest
<1>7. ASSUME UpdateConsultationRoom(w) \/ UpdateStatus(w) PROVE ListedInv'
  <2>1. /\ r.pc \in {"writeRoom", "status"} /\ UNCHANGED <<net, api>>
        /\ r.current \in ProperCallbacks
    BY <1>1, <1>7 DEF UpdateConsultationRoom, UpdateStatus, At, HandlerSteps,
                      ProperRequests
  <2>2. ASSUME NEW c \in CachedConference, Listed(c), NEW pc \in {"status", "publish"},
               WriteToCache(w, c, [r EXCEPT !.pc = pc, !.conf = c])
        PROVE  ListedInv'
    <3> DEFINE new == [r EXCEPT !.pc = pc, !.conf = c]
    <3>1. new \in ProperRequests
      BY <1>1, <2>1 DEF ProperRequests, Request, Steps, HandlerSteps
    <3>2. new.pc = pc /\ new.conf = c
      BY <1>1 DEF Request
    <3>3. WriteToCache(w, c, new)
      BY <2>2
    <3> HIDE DEF new
    <3>4. ListedRequest(new, c)
      BY <2>2, <3>2, EventsAssumption DEF ListedRequest
    <3> QED BY <2>1, <2>2, <3>1, <3>3, <3>4, ListedByWrite
  <2>3. CASE UpdateConsultationRoom(w)
    <3> DEFINE c == MoveRoom(r.conf, r.current)
    <3>1. c \in CachedConference /\ Listed(c)
      BY <1>1, <2>1, HandlerType, MovesListed
    <3>2. WriteToCache(w, c, [r EXCEPT !.pc = "status", !.conf = c])
      BY <2>3 DEF UpdateConsultationRoom
    <3> HIDE DEF c
    <3> QED BY <2>2, <3>1, <3>2
  <2>4. CASE UpdateStatus(w)
    <3> DEFINE c == SetStatus(r.conf, r.current)
    <3>1. c \in CachedConference /\ Listed(c)
      BY <1>1, <2>1, HandlerType, MovesListed
    <3>2. WriteToCache(w, c, [r EXCEPT !.pc = "publish", !.conf = c])
      BY <2>4 DEF UpdateStatus
    <3> HIDE DEF c
    <3> QED BY <2>2, <3>1, <3>2
  <2> QED BY <1>7, <2>3, <2>4
<1>8. ASSUME IgnoreLeave(w) \/ PublishStatus(w) PROVE ListedInv'
  <2>1. Continue(w, r) /\ UNCHANGED <<cache, net>> /\ cache # Missing
    BY <1>1, <1>8 DEF IgnoreLeave, PublishStatus, At, ListedRequest
  <2> QED BY <1>1, <2>1, ContinueListed
<1>9. ASSUME Relay(w) PROVE ListedInv'
  <2> PICK e : \/ req' = [req EXCEPT ![w] = Idle]
               \/ req' = [req EXCEPT ![w] = [Idle EXCEPT !.pc = "get", !.event = e]]
    BY <1>9 DEF Relay
  <2> DEFINE new == [Idle EXCEPT !.pc = "get", !.event = e]
  <2>1. new.pc = "get" /\ new.conf = Idle.conf
    BY DEF Idle
  <2>2. req' = [req EXCEPT ![w] = Idle] \/ req' = [req EXCEPT ![w] = new]
    OBVIOUS
  <2>3. UNCHANGED <<cache, net, api>>
    BY <1>9 DEF Relay
  <2> HIDE DEF new
  <2>4. ListedRequest(new, cache)
    BY <2>1, NewListed DEF ListedRequest
  <2> QED BY <1>2, <2>2, <2>3, <2>4, ListedByRequest
<1>10. ASSUME CreateConsultation(w) PROVE ListedInv'
  <2> DEFINE c == UpsertConsultationRoom(r.conf, r.event.to)
  <2>1. r.event.to \in Rooms
    BY <1>1, <1>10 DEF CreateConsultation, At, ProperRequests, SentEvents
  <2>2. c \in CachedConference /\ Listed(c)
    BY <1>1, <2>1, OtherListed DEF UpsertConsultationRoom, CachedConference
  <2>3. WriteToCache(w, c, Idle) /\ UNCHANGED net
    BY <1>10 DEF CreateConsultation
  <2> HIDE DEF c
  <2> QED BY <1>2, <2>2, <2>3, ListedByWrite
<1>11. ~ForceGet(w) /\ ~AddConference(w)
  BY <1>1 DEF ForceGet, AddConference, At, ListedRequest
<1> QED BY <1>2, <1>3, <1>4, <1>5, <1>6, <1>7, <1>8, <1>9, <1>10, <1>11,
           CacheStepsListed, ReceiveListed
        DEF Handle, RaiseFails, ReadFails, CreateConsultationFails

\* The lists are right in every state before the first failure.
LEMMA ListedHolds ==
  Spec /\ []NoRefresh => [](faults = 0 => ListedInv)
<1>1. Init => ListedInv
  BY NewListed DEF Init, ListedInv, NoRefresh, ListedRequest
<1>2. TypeInv /\ NoRefresh' /\ (faults = 0 => ListedInv) /\ [Next]_vars
      => (faults = 0 => ListedInv)'
  <2> SUFFICES ASSUME TypeInv, NoRefresh', faults = 0 => ListedInv, [Next]_vars,
                      faults' = 0
               PROVE  ListedInv'
    OBVIOUS
  <2> ListedInv /\ ~Fault
    BY NoFaultBefore
  <2>1. CASE Environment
    <3>1. UNCHANGED <<cache, api, req>>
      BY <2>1 DEF Environment, Connect, Drop, Move, MoveCivilianRoom, LeaveCall,
                  HearingEvent, FinishCountdown, Post, Internal, Send, apiVars
    <3> QED BY <3>1 DEF ListedInv, NoRefresh
  <2>2. CASE Evict
    BY <2>2 DEF Evict
  <2>3. CASE \E w \in Workers : Handle(w)
    BY <2>3, HandleListed
  <2>4. CASE UNCHANGED vars
    BY <2>4 DEF vars, supplierVars, apiVars, ListedInv, NoRefresh
  <2> QED BY <2>1, <2>2, <2>3, <2>4 DEF Next
<1> QED BY <1>1, <1>2, TypeInvHolds, PTL DEF Spec

\* While the cache and the Video API work and the conference is not rebuilt
\* while it is in use, interleaved requests never lose a room somebody is in
\* from the list of consultation rooms.
THEOREM OccupiedListed ==
  Spec /\ []NoRefresh => [](faults = 0 => OccupiedRoomsAreListed)
<1>1. ListedInv => OccupiedRoomsAreListed
  BY DEF ListedInv, Listed, OccupiedRoomsAreListed
<1> QED BY <1>1, ListedHolds, PTL

(***************************************************************************)
(* One request at a time: what the clients show is what the cache holds,   *)
(* but for what the request has written and is about to publish, or has    *)
(* published and is about to write.  Any number of workers may handle the  *)
(* requests; what is assumed of a behaviour is that they do not overlap.   *)
(***************************************************************************)
OneAtATime ==
  \A v, w \in Workers : ~At(v, "idle") /\ ~At(w, "idle") => v = w

\* While a worker takes a step, the others have no request.
LEMMA OthersAreIdle ==
  ASSUME TypeInv, OneAtATime, OneAtATime', NEW w \in Workers, Handle(w)
  PROVE  \A v \in Workers \ {w} : req[v].pc = "idle" /\ req'[v].pc = "idle"
<1>1. \A v \in Workers \ {w} : req'[v].pc = req[v].pc
  BY OthersWait
<1>2. req \in [Workers -> Request] /\ Idle \in Request
  BY IdleType DEF TypeInv, ProperRequests
<1>3. CASE req[w].pc # "idle"
  BY <1>1, <1>3 DEF OneAtATime, At
<1>4. CASE req[w].pc = "idle"
  <2>1. PICK i \in 1..Len(net) : Receive(w, i)
    BY <1>4
    DEF Handle, GetHit, GetMiss, Fill, Plan, Raise, RaiseFails, ReadFails, AsksVideoApi, NextCallback,
        PublishRoomTransfer, UpdateConsultationRoom, UpdateStatus, IgnoreLeave,
        PublishStatus, Relay, CreateConsultation, CreateConsultationFails,
        ForceGet, AddConference, At
  <2>2. PICK pc \in {"force", "get"} :
          req' = [req EXCEPT ![w] = [Idle EXCEPT !.pc = pc, !.event = net[i]]]
    BY <2>1 DEF Receive
  <2>3. req'[w].pc # "idle"
    BY <1>2, <2>2 DEF Request
  <2> QED BY <1>1, <2>3 DEF OneAtATime, At
<1> QED BY <1>3, <1>4

Alike(c, d) ==
  /\ c.status = d.status
  /\ c.countdownComplete = d.countdownComplete
  /\ c.pStatus = d.pStatus
  /\ c.pRoom = d.pRoom
  /\ c.eStatus = d.eStatus

ReadSteps == {"plan", "create", "room", "writeRoom", "status"}

ShownInTime(r) ==
  /\ r.pc = "fill" => Alike(ui, r.conf)
  /\ r.pc \in ReadSteps => r.conf = cache
  /\ CASE r.pc = "writeRoom" -> Alike(ui, ShowRoom(cache, r.current))
       [] r.pc = "publish"   -> Alike(ShowStatus(ui, r.current), cache)
       [] OTHER              -> cache # Missing => Alike(ui, cache)

ShownBy(w) == (cache = Missing => ui = NewConference) /\ ShownInTime(req[w])

ShownInv ==
  /\ cache = Missing => ui = NewConference
  /\ \A w \in Workers : ~At(w, "idle") => ShownInTime(req[w])
  /\ NoRequestInProgress /\ cache # Missing => Alike(ui, cache)

\* What is shown of a callback is what its handler does to the conference.
LEMMA HandlerAlike ==
  ASSUME NEW c \in CachedConference, NEW d \in CachedConference, Alike(c, d),
         NEW cb \in ProperCallbacks
  PROVE  /\ Alike(ShowRoom(c, cb), MoveRoom(d, cb))
         /\ Alike(ShowRoom(c, cb), ShowRoom(d, cb))
         /\ Alike(ShowStatus(c, cb), SetStatus(d, cb))
<1>1. ASSUME NEW e \in CachedConference, NEW label
      PROVE  Alike(CheckAndRemoveEmptyConsultationRoom(e, label), e)
  BY DEF CheckAndRemoveEmptyConsultationRoom, Alike, CachedConference
<1>2. ASSUME NEW p, NEW label
      PROVE  /\ Alike([c EXCEPT !.pRoom[p] = NoRoom],
                      RemoveParticipantFromConsultationRoom(d, p, label))
             /\ Alike([d EXCEPT !.pRoom[p] = NoRoom],
                      RemoveParticipantFromConsultationRoom(d, p, label))
             /\ Alike([c EXCEPT !.pRoom[p] = NoRoom],
                      RemoveParticipantFromConsultationRoom(c, p, label))
  <2>1. /\ [d EXCEPT !.pRoom[p] = NoRoom] \in CachedConference
        /\ [c EXCEPT !.pRoom[p] = NoRoom] \in CachedConference
        /\ Alike([c EXCEPT !.pRoom[p] = NoRoom], [d EXCEPT !.pRoom[p] = NoRoom])
    BY DEF CachedConference, Alike
  <2> QED BY <1>1, <2>1 DEF RemoveParticipantFromConsultationRoom, Alike
<1>3. Alike(ShowRoom(c, cb), ShowRoom(d, cb))
  BY DEF Alike, ShowRoom, CachedConference
<1>4. Alike(ShowRoom(c, cb), MoveRoom(d, cb))
  <2>1. CASE cb.who \in Endpoints
    <3>1. /\ Alike(AddEndpointToConsultationRoom(d, cb.to, cb.who), d)
          /\ Alike(RemoveEndpointFromConsultationRoom(d, cb.who, cb.from), d)
          /\ Alike(ShowRoom(c, cb), c)
      <4>1. /\ [d EXCEPT !.eRoom[cb.who] = NoRoom] \in CachedConference
            /\ Alike([d EXCEPT !.eRoom[cb.who] = NoRoom], d)
        BY DEF CachedConference, Alike
      <4> QED BY <1>1, <2>1, <4>1
              DEF AddEndpointToConsultationRoom, UpsertConsultationRoom,
                  RemoveEndpointFromConsultationRoom, ShowRoom, Alike,
                  CachedConference
    <3> QED BY <2>1, <3>1 DEF MoveRoom, Alike
  <2>2. CASE cb.who \notin Endpoints
    <3>1. IsConsultation(cb.to) =>
            Alike(ShowRoom(c, cb), AddParticipantToConsultationRoom(d, cb.to, cb.who))
      BY <2>2 DEF AddParticipantToConsultationRoom, UpsertConsultationRoom,
                  ShowRoom, Alike, CachedConference
    <3>2. ~IsConsultation(cb.to) => ShowRoom(c, cb) = [c EXCEPT !.pRoom[cb.who] = NoRoom]
      BY <2>2 DEF ShowRoom
    <3> QED BY <1>2, <2>2, <3>1, <3>2 DEF MoveRoom
  <2> QED BY <2>1, <2>2
<1>5. Alike(SetStatus(c, cb), SetStatus(d, cb))
  <2>1. CASE cb.who \in Participants
    <3> DEFINE cc == [c EXCEPT !.pStatus[cb.who] = cb.status]
               dd == [d EXCEPT !.pStatus[cb.who] = cb.status]
    <3>1. cc \in CachedConference /\ dd \in CachedConference /\ Alike(cc, dd)
      BY <2>1 DEF ProperCallbacks, CachedConference, Alike
    <3>2. c.pRoom = d.pRoom
      BY DEF Alike
    <3>3. ASSUME NEW a \in CachedConference, NEW b \in CachedConference,
                 Alike(a, b), NEW p, NEW label
          PROVE  Alike(RemoveParticipantFromConsultationRoom(a, p, label),
                       RemoveParticipantFromConsultationRoom(b, p, label))
      <4> DEFINE aa == [a EXCEPT !.pRoom[p] = NoRoom]
                 bb == [b EXCEPT !.pRoom[p] = NoRoom]
      <4>1. /\ aa \in CachedConference
            /\ bb \in CachedConference
            /\ Alike(aa, bb)
        BY <3>3 DEF CachedConference, Alike
      <4> HIDE DEF aa, bb
      <4>2. Alike(CheckAndRemoveEmptyConsultationRoom(aa, label),
                  CheckAndRemoveEmptyConsultationRoom(bb, label))
        BY <1>1, <4>1 DEF Alike
      <4> QED BY <4>2 DEF RemoveParticipantFromConsultationRoom, aa, bb
    <3>4. /\ SetStatus(c, cb) = UpdateParticipantStatus(c, cb.who, cb.status)
          /\ SetStatus(d, cb) = UpdateParticipantStatus(d, cb.who, cb.status)
      BY <2>1 DEF SetStatus
    <3> HIDE DEF cc, dd
    <3> QED BY <3>1, <3>2, <3>3, <3>4 DEF UpdateParticipantStatus, cc, dd
  <2>2. CASE cb.who \notin Participants
    BY <2>2 DEF SetStatus, UpdateEndpointStatus, CompleteCountdown,
                UpdateConferenceStatus, Alike, CachedConference
  <2> QED BY <2>1, <2>2
<1>6. Alike(ShowStatus(c, cb), SetStatus(c, cb))
  <2>1. SetStatus(c, cb) \in CachedConference
    BY HandlerType
  <2> QED BY <2>1 DEF ShowStatus, Alike, CachedConference
<1> QED BY <1>3, <1>4, <1>5, <1>6 DEF Alike

\* The other changes of a conference are not shown.
LEMMA OtherAlike ==
  ASSUME NEW c \in CachedConference
  PROVE  /\ \A label : Alike(c, UpsertConsultationRoom(c, label))
         /\ \A e : Alike(c, CivilianRoomAfter(c, e))
  BY DEF UpsertConsultationRoom, CivilianRoomAfter, AddParticipantToRoom,
         RemoveParticipantFromRoom, Alike, CachedConference

\* Steps that change only the request, to one that holds no copy.
LEMMA ShownByRequest ==
  ASSUME TypeInv, NEW w \in Workers, ShownBy(w), UNCHANGED <<cache, ui>>,
         req[w].pc \notin {"writeRoom", "publish"},
         NEW r, r.pc \notin ReadSteps \cup {"fill", "publish"}, req'[w] = r
  PROVE  ShownBy(w)'
  BY DEF ShownBy, ShownInTime, ReadSteps

\* A request that goes on to its next callback holds no copy.
LEMMA ContinueHoldsNone ==
  ASSUME TypeInv, NEW w \in Workers, NEW r \in ProperRequests, Continue(w, r)
  PROVE  req'[w].pc \in {"raise", "next", "relay", "idle"}
<1> DEFINE next == [r EXCEPT !.pc = Following(r), !.current = NoCallback,
                             !.conf = NewConference, !.overtaken = FALSE]
           new  == IF Following(r) = "idle" THEN Idle ELSE next
<1>1. Idle.pc = "idle" /\ next.pc = Following(r)
  BY DEF Idle, ProperRequests, Request
<1>2. new.pc \in {"raise", "next", "relay", "idle"}
  BY <1>1, FollowingType
<1>3. req' = [req EXCEPT ![w] = new]
  BY DEF Continue
<1> HIDE DEF new
<1> QED BY <1>2, <1>3 DEF TypeInv

\* GetConference reads what is shown, hit or miss.
LEMMA CacheStepsShown ==
  ASSUME TypeInv, ListedInv, ~Fault, NEW w \in Workers, ShownBy(w),
         GetHit(w) \/ GetMiss(w) \/ Fill(w)
  PROVE  ShownBy(w)'
<1>1. /\ w \in Workers
      /\ req[w] \in ProperRequests /\ req[w] \in Request /\ ~Fault
  BY DEF TypeInv, ProperRequests
<1>2. ASSUME NEW r \in Request
      PROVE  /\ Got(r).pc \in {"idle", "room", "status", "create", "plan"}
             /\ Got(r).pc # "idle" => Got(r).conf = r.conf
  <2>1. Idle.pc = "idle"
    BY DEF Idle
  <2>2. ASSUME NEW pc \in Steps
        PROVE  [r EXCEPT !.pc = pc].conf = r.conf /\ [r EXCEPT !.pc = pc].pc = pc
    BY DEF Request
  <2> QED BY <2>1, <2>2 DEF Got, Request, Phases, Steps
<1>3. CASE GetHit(w)
  <2> DEFINE r == [req[w] EXCEPT !.conf = cache, !.overtaken = FALSE]
  <2>1. r \in Request /\ r.conf = cache /\ cache # Missing /\ req[w].pc = "get"
    BY <1>1, <1>3 DEF GetHit, TypeInv, Request, At
  <2>2. req'[w] = Got(r) /\ UNCHANGED <<cache, ui>>
    BY <1>1, <1>3 DEF GetHit, TypeInv
  <2> HIDE DEF r
  <2>3. Got(r).pc \notin {"fill", "writeRoom", "publish"}
        /\ (Got(r).pc \in ReadSteps => Got(r).conf = cache)
    BY <1>2, <2>1 DEF ReadSteps
  <2>4. Alike(ui, cache)
    BY <1>1, <2>1 DEF ShownBy, ShownInTime
  <2> QED BY <2>1, <2>2, <2>3, <2>4 DEF ShownBy, ShownInTime
<1>4. CASE GetMiss(w)
  <2> DEFINE r == [req[w] EXCEPT !.pc = "fill", !.overtaken = FALSE,
                                 !.conf = MapConferenceToCacheModel(api)]
  <2>1. r.pc = "fill" /\ r.conf = MapConferenceToCacheModel(api)
    BY <1>1 DEF Request
  <2>2. req'[w] = r /\ UNCHANGED <<cache, ui>> /\ cache = Missing
    BY <1>1, <1>4 DEF GetMiss, TypeInv
  <2> HIDE DEF r
  <2>3. Alike(ui, r.conf)
    <3>1. api = NewConference /\ ui = NewConference
      BY <2>2 DEF ShownBy, ListedInv
    <3>2. Alike(NewConference, MapConferenceToCacheModel(NewConference))
      BY DEF Alike, NewConference, MapConferenceToCacheModel
    <3> QED BY <2>1, <3>1, <3>2
  <2> QED BY <2>1, <2>2, <2>3 DEF ShownBy, ShownInTime, ReadSteps
<1>5. CASE Fill(w)
  <2>1. /\ Got(req[w]) \in ProperRequests /\ req[w].pc = "fill"
        /\ req[w].conf \in CachedConference
    BY <1>1, <1>5, GotType DEF Fill, At, Request
  <2>2. /\ cache' = req[w].conf /\ req'[w] = Got(req[w]) /\ UNCHANGED ui
        /\ cache' # Missing
    BY <1>1, <1>5, <2>1, WriteSucceeds, EventsAssumption DEF Fill
  <2>3. Got(req[w]).pc \notin {"fill", "writeRoom", "publish"}
        /\ (Got(req[w]).pc \in ReadSteps => Got(req[w]).conf = cache')
    BY <1>1, <1>2, <2>2 DEF ReadSteps
  <2>4. Alike(ui, req[w].conf)
    BY <1>1, <2>1 DEF ShownBy, ShownInTime
  <2> QED BY <2>2, <2>3, <2>4 DEF ShownBy, ShownInTime
<1> QED BY <1>3, <1>4, <1>5

\* Every other step of the worker.
LEMMA HandleShown ==
  ASSUME TypeInv, ListedInv, ~Fault, NEW w \in Workers, ShownBy(w),
         Handle(w)
  PROVE  ShownBy(w)'
<1> DEFINE r == req[w]
<1>1. /\ w \in Workers /\ r \in ProperRequests /\ r \in Request
      /\ r.conf \in CachedConference /\ ~Fault
  BY DEF TypeInv, ProperRequests, Request
<1>2. ShownInTime(r) /\ ListedRequest(r, cache)
  BY <1>1 DEF ShownBy, ListedInv
<1>3. Idle \in ProperRequests /\ Idle.pc = "idle"
  BY IdleType DEF Idle
<1>4. ASSUME NEW i \in 1..Len(net), Receive(w, i) PROVE ShownBy(w)'
  <2> DEFINE pc  == IF net[i].type = "Refresh" THEN "force" ELSE "get"
             new == [Idle EXCEPT !.pc = pc, !.event = net[i]]
  <2>1. new.pc \notin ReadSteps \cup {"fill", "publish"}
    BY DEF Idle, ReadSteps
  <2>2. req'[w] = new /\ UNCHANGED <<cache, ui>> /\ r.pc = "idle"
    BY <1>1, <1>4 DEF Receive, TypeInv, At
  <2> HIDE DEF new
  <2> QED BY <2>1, <2>2, ShownByRequest
<1>5. ASSUME Plan(w) PROVE ShownBy(w)'
  <2> DEFINE new == Ready(Planned(r))
             conf == CivilianRoomAfter(r.conf, r.event)
  <2>1. r.pc = "plan" /\ cache # Missing /\ UNCHANGED ui
    BY <1>2, <1>5 DEF Plan, At, ListedRequest
  <2>2. /\ new \in ProperRequests /\ Planned(r) \in Request
        /\ conf \in CachedConference
    BY <1>1, <2>1, PlannedType
  <2>3. new.pc \in {"raise", "next", "relay", "idle"}
    <3>1. [Planned(r) EXCEPT !.pc = Following(Planned(r)), !.conf = NewConference,
                             !.overtaken = FALSE].pc = Following(Planned(r))
      BY <2>2 DEF Request
    <3> QED BY <1>3, <2>2, <3>1, FollowingType DEF Ready
  <2>4. CASE ChangesCivilianRoom(r.event)
    <3>1. WriteToCache(w, conf, new)
      BY <1>5, <2>4 DEF Plan
    <3> HIDE DEF new, conf
    <3>2. cache' = conf /\ req'[w] = new
      BY <1>1, <2>2, <3>1, WriteSucceeds
    <3>3. r.conf = cache
      BY <1>2, <2>1 DEF ShownInTime, ReadSteps
    <3>4. Alike(ui, cache)
      BY <1>2, <2>1 DEF ShownInTime
    <3>5. Alike(r.conf, conf)
      BY <1>1, OtherAlike DEF conf
    <3>6. Alike(ui, cache') /\ cache' # Missing
      BY <2>2, <3>2, <3>3, <3>4, <3>5, EventsAssumption DEF Alike
    <3> QED BY <2>1, <2>3, <3>2, <3>6 DEF ShownBy, ShownInTime, ReadSteps
  <2>5. CASE ~ChangesCivilianRoom(r.event)
    <3>1. req'[w] = new /\ UNCHANGED <<cache, ui>>
      BY <1>1, <1>5, <2>5 DEF Plan, TypeInv
    <3> HIDE DEF new
    <3> QED BY <2>1, <2>3, <3>1, ShownByRequest DEF ReadSteps
  <2> QED BY <2>4, <2>5
<1>6. ASSUME Raise(w) PROVE ShownBy(w)'
  <2> PICK cb \in r.unraised : Continue(w, [r EXCEPT !.unraised = @ \ {cb}])
    BY <1>6 DEF Raise
  <2>1. [r EXCEPT !.unraised = @ \ {cb}] \in ProperRequests
    BY <1>1 DEF ProperRequests, Request
  <2>2. r.pc = "raise" /\ UNCHANGED <<cache, ui>>
    BY <1>6 DEF Raise, At
  <2>3. req'[w].pc \in {"raise", "next", "relay", "idle"}
    BY <1>1, <2>1, ContinueHoldsNone
  <2>4. PICK new : new = req'[w]
    OBVIOUS
  <2> QED BY <2>2, <2>3, <2>4, ShownByRequest DEF ReadSteps
<1>7. ASSUME NextCallback(w) PROVE ShownBy(w)'
  <2> PICK cb : req' = [req EXCEPT ![w].pc = "get", ![w].phase = "handler",
                                   ![w].current = cb, ![w].unpublished = @ \ {cb}]
    BY <1>7 DEF NextCallback
  <2>1. req'[w].pc = "get" /\ r.pc = "next" /\ UNCHANGED <<cache, ui>>
    BY <1>1, <1>7 DEF TypeInv, Request, NextCallback, At
  <2>2. PICK new : new = req'[w]
    OBVIOUS
  <2> QED BY <2>1, <2>2, ShownByRequest DEF ReadSteps
<1>8. ASSUME PublishRoomTransfer(w) PROVE ShownBy(w)'
  <2> DEFINE new == [r EXCEPT !.pc = "writeRoom"]
  <2>1. /\ new.conf = r.conf /\ new.current = r.current /\ new.pc = "writeRoom"
        /\ r.pc = "room" /\ r.current \in ProperCallbacks
    BY <1>1, <1>8 DEF Request, PublishRoomTransfer, At, ProperRequests, HandlerSteps
  <2>2. req'[w] = new /\ UNCHANGED cache /\ ui' = ShowRoom(ui, r.current)
    BY <1>1, <1>8 DEF PublishRoomTransfer, TypeInv
  <2> HIDE DEF new
  <2>3. /\ cache # Missing /\ r.conf = cache /\ Alike(ui, cache)
        /\ cache \in CachedConference /\ ui \in CachedConference
    BY <1>2, <2>1 DEF ShownInTime, ListedRequest, ReadSteps, TypeInv
  <2>4. Alike(ShowRoom(ui, r.current), ShowRoom(cache, r.current))
    BY <2>1, <2>3, HandlerAlike
  <2> QED BY <2>1, <2>2, <2>3, <2>4 DEF ShownBy, ShownInTime, ReadSteps
<1>9. ASSUME UpdateConsultationRoom(w) PROVE ShownBy(w)'
  <2> DEFINE c   == MoveRoom(r.conf, r.current)
             new == [r EXCEPT !.pc = "status", !.conf = c]
  <2>1. r.pc = "writeRoom" /\ r.current \in ProperCallbacks /\ UNCHANGED ui
    BY <1>1, <1>9 DEF UpdateConsultationRoom, At, HandlerSteps, ProperRequests
  <2>2. c \in CachedConference
    BY <1>1, <2>1, HandlerType
  <2>3. new \in ProperRequests /\ new.pc = "status" /\ new.conf = c
    BY <1>1, <2>1, <2>2 DEF ProperRequests, Request, Steps, HandlerSteps
  <2>4. WriteToCache(w, c, new)
    BY <1>9 DEF UpdateConsultationRoom
  <2>5. /\ r.conf = cache /\ cache \in CachedConference
        /\ Alike(ui, ShowRoom(cache, r.current))
    BY <1>1, <1>2, <2>1 DEF ShownInTime, ReadSteps
  <2>6. Alike(cache, cache)
    BY DEF Alike
  <2>7. Alike(ShowRoom(cache, r.current), c)
    BY <2>1, <2>5, <2>6, HandlerAlike
  <2> HIDE DEF c, new
  <2>8. cache' = c /\ req'[w] = new /\ c # Missing
    BY <1>1, <2>2, <2>3, <2>4, WriteSucceeds, EventsAssumption
  <2>9. Alike(ui, c)
    BY <2>5, <2>7 DEF Alike
  <2> QED BY <2>1, <2>3, <2>8, <2>9 DEF ShownBy, ShownInTime, ReadSteps
<1>10. ASSUME UpdateStatus(w) PROVE ShownBy(w)'
  <2> DEFINE c   == SetStatus(r.conf, r.current)
             new == [r EXCEPT !.pc = "publish", !.conf = c]
  <2>1. r.pc = "status" /\ r.current \in ProperCallbacks /\ UNCHANGED ui
    BY <1>1, <1>10 DEF UpdateStatus, At, HandlerSteps, ProperRequests
  <2>2. c \in CachedConference
    BY <1>1, <2>1, HandlerType
  <2>3. new \in ProperRequests /\ new.pc = "publish" /\ new.current = r.current
    BY <1>1, <2>1, <2>2 DEF ProperRequests, Request, Steps, HandlerSteps
  <2>4. WriteToCache(w, c, new)
    BY <1>10 DEF UpdateStatus
  <2>5. /\ r.conf = cache /\ cache \in CachedConference /\ cache # Missing
        /\ ui \in CachedConference /\ Alike(ui, cache)
    BY <1>1, <1>2, <2>1 DEF ShownInTime, ListedRequest, ReadSteps, TypeInv
  <2>6. Alike(ShowStatus(ui, r.current), c)
    BY <2>1, <2>5, HandlerAlike
  <2> HIDE DEF c, new
  <2>7. cache' = c /\ req'[w] = new /\ c # Missing
    BY <1>1, <2>2, <2>3, <2>4, WriteSucceeds, EventsAssumption
  <2> QED BY <2>1, <2>3, <2>6, <2>7 DEF ShownBy, ShownInTime, ReadSteps
<1>11. ASSUME IgnoreLeave(w) PROVE ShownBy(w)'
  <2>1. Continue(w, r) /\ UNCHANGED <<cache, ui>> /\ r.pc = "status"
    BY <1>11 DEF IgnoreLeave, At
  <2>2. req'[w].pc \in {"raise", "next", "relay", "idle"}
    BY <1>1, <2>1, ContinueHoldsNone
  <2>3. PICK new : new = req'[w]
    OBVIOUS
  <2> QED BY <2>1, <2>2, <2>3, ShownByRequest DEF ReadSteps
<1>12. ASSUME PublishStatus(w) PROVE ShownBy(w)'
  <2>1. /\ Continue(w, r) /\ UNCHANGED cache /\ r.pc = "publish"
        /\ ui' = ShowStatus(ui, r.current)
    BY <1>12 DEF PublishStatus, At
  <2>2. req'[w].pc \in {"raise", "next", "relay", "idle"}
    BY <1>1, <2>1, ContinueHoldsNone
  <2>3. cache # Missing /\ Alike(ui', cache')
    BY <1>2, <2>1 DEF ShownInTime, ListedRequest
  <2> QED BY <2>1, <2>2, <2>3 DEF ShownBy, ShownInTime, ReadSteps
<1>13. ASSUME Relay(w) PROVE ShownBy(w)'
  <2> PICK e : \/ req' = [req EXCEPT ![w] = Idle]
               \/ req' = [req EXCEPT ![w] = [Idle EXCEPT !.pc = "get", !.event = e]]
    BY <1>13 DEF Relay
  <2>1. [Idle EXCEPT !.pc = "get", !.event = e].pc = "get"
    BY DEF Idle
  <2>2. req'[w].pc \in {"idle", "get"} /\ r.pc = "relay" /\ UNCHANGED <<cache, ui>>
    BY <1>1, <1>3, <1>13, <2>1 DEF Relay, TypeInv, At
  <2>3. PICK new : new = req'[w]
    OBVIOUS
  <2> QED BY <2>2, <2>3, ShownByRequest DEF ReadSteps
<1>14. ASSUME CreateConsultation(w) PROVE ShownBy(w)'
  <2> DEFINE c == UpsertConsultationRoom(r.conf, r.event.to)
  <2>1. r.event.to \in Rooms /\ r.pc = "create" /\ UNCHANGED ui
    BY <1>1, <1>14 DEF CreateConsultation, At, ProperRequests, SentEvents
  <2>2. c \in CachedConference /\ Alike(r.conf, c)
    BY <1>1, <2>1, CivilianRoomType, OtherAlike
  <2>3. WriteToCache(w, c, Idle)
    BY <1>14 DEF CreateConsultation
  <2>4. r.conf = cache /\ Alike(ui, cache)
    BY <1>2, <2>1 DEF ShownInTime, ListedRequest, ReadSteps
  <2> HIDE DEF c
  <2>5. cache' = c /\ req'[w] = Idle /\ c # Missing
    BY <1>1, <1>3, <2>2, <2>3, WriteSucceeds, EventsAssumption
  <2>6. Alike(ui, c)
    BY <2>2, <2>4 DEF Alike
  <2> QED BY <1>3, <2>1, <2>5, <2>6 DEF ShownBy, ShownInTime, ReadSteps
<1>15. ~ForceGet(w) /\ ~AddConference(w)
  BY <1>2 DEF ForceGet, AddConference, At, ListedRequest
<1> QED BY <1>1, <1>4, <1>5, <1>6, <1>7, <1>8, <1>9, <1>10, <1>11, <1>12, <1>13,
           <1>14, <1>15, CacheStepsShown
        DEF Handle, RaiseFails, ReadFails, CreateConsultationFails

\* And of those that have none.
LEMMA AnyoneShown ==
  ASSUME TypeInv, OneAtATime, OneAtATime', ListedInv, ShownInv, ~Fault,
         NEW w \in Workers, Handle(w)
  PROVE  ShownInv'
<1>1. \A v \in Workers \ {w} : req[v].pc = "idle" /\ req'[v].pc = "idle"
  BY OthersAreIdle
<1>2. ShownBy(w)
  <2>1. CASE req[w].pc = "idle"
    <3>1. NoRequestInProgress
      BY <1>1, <2>1 DEF NoRequestInProgress, At
    <3> QED BY <2>1, <3>1 DEF ShownInv, ShownBy, ShownInTime, ReadSteps
  <2>2. CASE req[w].pc # "idle"
    BY <2>2 DEF ShownInv, ShownBy, At
  <2> QED BY <2>1, <2>2
<1>3. ShownBy(w)'
  BY <1>2, HandleShown
<1>4. \A v \in Workers : ~At(v, "idle")' => ShownInTime(req[v])'
  BY <1>1, <1>3 DEF ShownBy, At
<1>5. NoRequestInProgress' /\ cache' # Missing => Alike(ui, cache)'
  BY <1>3 DEF ShownBy, ShownInTime, NoRequestInProgress, At
<1> QED BY <1>3, <1>4, <1>5 DEF ShownInv, ShownBy

\* As long as requests do not overlap, nothing has failed and the conference is
\* not rebuilt, the hub's messages have told a connected client what a client
\* that loads the conference is given: between requests the statuses and the
\* participants' rooms of both are the same.
THEOREM ShownIsCached ==
  Spec /\ []OneAtATime /\ []NoRefresh => [](faults = 0 => UiMirrorsCache)
<1>1. Init => ShownInv
  BY DEF Init, ShownInv, ShownInTime, Idle, ReadSteps, Alike
<1>2. TypeInv /\ OneAtATime /\ OneAtATime' /\ (faults = 0 => ListedInv)
      /\ (faults = 0 => ShownInv) /\ [Next]_vars
      => (faults = 0 => ShownInv)'
  <2> SUFFICES ASSUME TypeInv, OneAtATime, OneAtATime', faults = 0 => ListedInv,
                      faults = 0 => ShownInv, [Next]_vars, faults' = 0
               PROVE  ShownInv'
    OBVIOUS
  <2> ListedInv /\ ShownInv /\ ~Fault
    BY NoFaultBefore
  <2>1. CASE Environment
    BY <2>1 DEF Environment, Connect, Drop, Move, MoveCivilianRoom, LeaveCall,
                HearingEvent, FinishCountdown, Post, Internal, Send, ShownInv,
                ShownInTime, NoRequestInProgress, At
  <2>2. CASE Evict
    BY <2>2 DEF Evict
  <2>3. CASE \E v \in Workers : Handle(v)
    BY <2>3, AnyoneShown
  <2>4. CASE UNCHANGED vars
    BY <2>4 DEF vars, ShownInv, ShownInTime, NoRequestInProgress, At
  <2> QED BY <2>1, <2>2, <2>3, <2>4 DEF Next
<1>3. ShownInv => UiMirrorsCache
  BY DEF ShownInv, UiMirrorsCache, Alike
<1> QED BY <1>1, <1>2, <1>3, TypeInvHolds, ListedHolds, PTL DEF Spec
-----------------------------------------------------------------------------
(***************************************************************************)
(* One request at a time, in the order they were sent: the cache follows   *)
(* the supplier.  It is behind it by the requests that are on their way.   *)
(* What the supplier was when each of them was sent is a sequence of       *)
(* worlds, one more than there are requests: the first is the one the      *)
(* cached conference is, or will be once the request in progress is        *)
(* handled; the last is the supplier as it is now.                         *)
(***************************************************************************)
World ==
  [where   : [Parties -> Locations \cup {"Out"}],
   hearing : [status : ConferenceStatus, countdown : BOOLEAN]]

Now == [where |-> where, hearing |-> hearing]

\* The linked participants who are connected, who are always together.
Here(s) == {p \in Linked : s.where[p] # "Out"}

ProperWorlds ==
  {s \in World :
     /\ \A p, q \in Here(s) : s.where[p] = s.where[q]
     /\ s.hearing.countdown => s.hearing.status = "InSession"}

\* What changes at the supplier with each request that is sent.
Placed(s, who, place) == [s EXCEPT !.where = [@ EXCEPT ![who] = place]]

Arrives(s, e, t) ==
  /\ e.type = "Joined" /\ e.who \in Parties /\ (e.via <=> e.who \in Linked)
  /\ s.where[e.who] = "Out"
  /\ \E place \in Locations :
       /\ t = Placed(s, e.who, place)
       /\ IF e.who \in Linked /\ Here(s) # {}
            THEN \E q \in Here(s) : place = s.where[q]
            ELSE place = "WaitingRoom"

Moves(s, e, t) ==
  /\ e.type = "Transfer" /\ e.who \in Parties \ Linked /\ e.via = FALSE
  /\ s.where[e.who] # "Out" /\ e.to \in Locations
  /\ t = Placed(s, e.who, e.to)

AllMove(s, e, t) ==
  /\ e.type = "Transfer" /\ e.who = VMR /\ e.via = FALSE /\ e.to \in Locations
  /\ t = [s EXCEPT !.where =
            [p \in Parties |-> IF p \in Here(s) THEN e.to ELSE s.where[p]]]

Departs(s, e, t) ==
  /\ \/ e.type = "Disconnected" /\ e.who \in Parties /\ (e.via <=> e.who \in Linked)
     \/ /\ e.type \in {"Leave", "LeaveForOtherDevice"}
        /\ e.who \in Participants \ Linked /\ e.via = FALSE
  /\ s.where[e.who] # "Out"
  /\ t = Placed(s, e.who, "Out")

Turns(s, e, t) ==
  /\ e.type \in {"Start", "Pause", "Suspend", "Close"}
  /\ e.who = Nobody /\ e.via = FALSE
  /\ e.type = "Start" => s.hearing.countdown = FALSE
  /\ t = [s EXCEPT !.hearing = [status |-> ConferenceStatusOf(e.type),
                                countdown |-> FALSE]]

Counts(s, e, t) ==
  /\ e.type = "CountdownFinished" /\ e.who = Nobody /\ e.via = FALSE
  /\ s.hearing.status = "InSession"
  /\ t = [s EXCEPT !.hearing = [status |-> "InSession", countdown |-> TRUE]]

Stays(s, e, t) ==
  /\ \/ /\ e.type \in BrowserTypes /\ e.who \in Participants /\ e.via = FALSE
        /\ s.where[e.who] = "Out"
     \/ e.type = "StartConsultation"
  /\ t = s

Happens(s, e, t) ==
  \/ Arrives(s, e, t) \/ Moves(s, e, t) \/ AllMove(s, e, t) \/ Departs(s, e, t)
  \/ Turns(s, e, t) \/ Counts(s, e, t) \/ Stays(s, e, t)

(***************************************************************************)
(* What the conference has of a party, or of itself, is what is so.        *)
(***************************************************************************)
Right(c, x, s) ==
  /\ x \in Participants => c.pRoom[x] = RoomAt(s.where[x])
  /\ x \in Participants \ Linked =>
       IF s.where[x] # "Out"
         THEN c.pStatus[x] = TransferStatus(x, s.where[x])
         ELSE c.pStatus[x] \notin {"InHearing", "InConsultation"}
  /\ x \in Here(s) => (c.pStatus[x] = "InConsultation" <=> s.where[x] \in Rooms)
  /\ x \in Endpoints =>
       IF s.where[x] # "Out"
         THEN c.eStatus[x] = TransferStatus(x, s.where[x])
         ELSE c.eStatus[x] \in {"NotYetJoined", "Disconnected"}
  /\ x = Nobody => /\ c.status = s.hearing.status
                   /\ c.countdownComplete = s.hearing.countdown

\* What the handler of a callback makes of a conference, from its read on, and
\* once a transfer has written the room.
Finished(c, cb) == IF LeaveIsIgnored(c, cb) THEN c ELSE SetStatus(c, cb)

Handled(c, cb) ==
  Finished(IF cb.type = "Transfer" THEN MoveRoom(c, cb) ELSE c, cb)

\* Of the Video API's conference, what a relay asks for.
RecordRight(a, x, s) == x \in Participants => a.pRoom[x] = RoomAt(s.where[x])

OneEach(cbs) == \A a, b \in cbs : a.who = b.who => a = b

Concerns(cbs, x) == \E cb \in cbs : cb.who = x

(***************************************************************************)
(* A request in progress: what is not right yet is put right by a callback *)
(* that is still to be handled, or raised, or by the relay.  "c" is the    *)
(* cached conference, "a" the Video API's, "s" the supplier when the       *)
(* request was sent.                                                       *)
(***************************************************************************)
ByRelay(relay, e) == IF relay = {} THEN {} ELSE {e.who}

RelayIsDue(relay, e, s) ==
  /\ \A q \in relay : q \in Here(s) /\ q # e.who /\ s.where[q] \in Rooms
  /\ relay # {} => e.who \in Here(s)

PublishDue(c, cbs, but, s) ==
  /\ OneEach(cbs)
  /\ \A x \in Parties \cup {Nobody} :
       x \in but \/ Concerns(cbs, x) \/ Right(c, x, s)
  /\ \A cb \in cbs : cb.who \in but \/ Right(Handled(c, cb), cb.who, s)

RaiseDue(a, cbs, but, s) ==
  /\ OneEach(cbs)
  /\ \A x \in Parties \cup {Nobody} :
       x \in but \/ Concerns(cbs, x) \/ RecordRight(a, x, s)
  /\ \A cb \in cbs : cb.who \in but \/ RecordRight(Record(a, cb), cb.who, s)

Underway(c, a, unpublished, unraised, relay, e, beside, s) ==
  /\ c.vmr = Here(s)
  /\ PublishDue(c, unpublished, ByRelay(relay, e) \cup beside, s)
  /\ RaiseDue(a, unraised, ByRelay(relay, e), s)
  /\ RelayIsDue(relay, e, s)

Settled(c, a, s) == Underway(c, a, {}, {}, {}, Simple("Refresh", Nobody), {}, s)

RelayOf(c, e) ==
  IF e.via /\ e.type = "Joined" THEN OthersInConsultation(c, e.who) ELSE {}

\* A request whose callbacks are yet to be built.
Expected(c, a, e, s) ==
  IF e.type = "StartConsultation" THEN Settled(c, a, s)
  ELSE LET d   == CivilianRoomAfter(c, e)
           cbs == Callbacks(e, d)
       IN  Underway(d, a, cbs, cbs, RelayOf(d, e), e, {}, s)

\* One whose current callback is being handled.
HandlerIsDue(r, c, a, s, result) ==
  /\ ~Concerns(r.unpublished, r.current.who)
  /\ Underway(c, a, r.unpublished, r.unraised, r.relay, r.event,
              {r.current.who}, s)
  /\ r.current.who \in ByRelay(r.relay, r.event) \/ Right(result, r.current.who, s)

RequestIsDue(r, c, a, s) ==
  /\ r.pc = "idle" => Settled(c, a, s)
  /\ \/ r.pc \in {"get", "fill"} /\ r.phase = "controller"
     \/ r.pc \in {"plan", "create"}
     => Expected(c, a, r.event, s)
  /\ \/ r.pc \in {"get", "fill"} /\ r.phase = "handler"
     \/ r.pc \in {"room", "writeRoom"}
     => HandlerIsDue(r, c, a, s, Handled(c, r.current))
  /\ r.pc = "status" => HandlerIsDue(r, c, a, s, Finished(c, r.current))
  /\ r.pc \in {"raise", "next", "publish", "relay"} =>
       Underway(c, a, r.unpublished, r.unraised, r.relay, r.event, {}, s)
  /\ r.pc \in {"room", "writeRoom"} => r.current.type = "Transfer"
  /\ r.pc = "relay" => r.unpublished = {} /\ r.unraised = {}

\* What is read when there is no cached conference is a new one.
Cached == IF cache = Missing THEN NewConference ELSE cache

Working(r, c, a, s) ==
  /\ r.pc \in {"fill", "plan", "create", "room", "writeRoom", "status"} =>
       r.conf = c
  /\ r.phase # "final"
  /\ RequestIsDue(r, c, a, s)

Behind(h) ==
  /\ h \in Seq(ProperWorlds) /\ Len(h) = Len(net) + 1 /\ h[Len(h)] = Now
  /\ \A i \in 1..Len(net) : Happens(h[i], net[i], h[i + 1])

Follows(h) ==
  /\ Behind(h)
  /\ \A w \in Workers : ~At(w, "idle") => Working(req[w], Cached, api, h[1])
  /\ NoRequestInProgress => Settled(Cached, api, h[1])

MirrorInv == \E h : Follows(h)
-----------------------------------------------------------------------------
(***************************************************************************)
(* What the handlers do, party by party.                                   *)
(***************************************************************************)
\* Two conferences have the same of a party, or of the hearing.
AgreeOn(c, d, x) ==
  /\ x \in Participants => c.pStatus[x] = d.pStatus[x] /\ c.pRoom[x] = d.pRoom[x]
  /\ x \in Endpoints => c.eStatus[x] = d.eStatus[x]
  /\ x = Nobody => /\ c.status = d.status
                   /\ c.countdownComplete = d.countdownComplete

\* What is right of one is right of the other.
LEMMA RightAgrees ==
  ASSUME NEW c, NEW d, NEW x, NEW s, AgreeOn(c, d, x)
  PROVE  Right(c, x, s) <=> Right(d, x, s)
<1>1. x \in Here(s) => x \in Participants
  BY EventsAssumption DEF Here
<1>2. x \in Participants \ Linked => x \in Participants
  OBVIOUS
<1> QED BY <1>1, <1>2 DEF AgreeOn, Right

\* A change of one leaves the others.
LEMMA OthersAgree ==
  ASSUME NEW c, NEW d, NEW who, SameBut(c, d, who),
         NEW x \in Parties \cup {Nobody}, x # who
  PROVE  AgreeOn(c, d, x)
  BY EventsAssumption DEF SameBut, AgreeOn, Parties

\* Leaving a room, and the list of rooms.
LEMMA LeaveRoomEffect ==
  ASSUME NEW c \in CachedConference, NEW p, NEW label,
         NEW d, d = RemoveParticipantFromConsultationRoom(c, p, label)
  PROVE  /\ d.pStatus = c.pStatus /\ d.eStatus = c.eStatus
         /\ d.status = c.status /\ d.countdownComplete = c.countdownComplete
         /\ d.vmr = c.vmr
         /\ \A q \in Participants :
              d.pRoom[q] = IF q = p THEN NoRoom ELSE c.pRoom[q]
<1> DEFINE left == [c EXCEPT !.pRoom[p] = NoRoom]
<1>1. /\ left \in CachedConference
      /\ left.pStatus = c.pStatus /\ left.eStatus = c.eStatus
      /\ left.status = c.status /\ left.countdownComplete = c.countdownComplete
      /\ left.vmr = c.vmr
      /\ \A q \in Participants :
           left.pRoom[q] = IF q = p THEN NoRoom ELSE c.pRoom[q]
  BY DEF CachedConference
<1> HIDE DEF left
<1>2. \/ d = left
      \/ d = [left EXCEPT !.rooms = @ \ {label}]
  BY DEF RemoveParticipantFromConsultationRoom,
         CheckAndRemoveEmptyConsultationRoom, left
<1>3. LET r == [left EXCEPT !.rooms = @ \ {label}]
      IN  /\ r.pStatus = left.pStatus /\ r.eStatus = left.eStatus
          /\ r.status = left.status /\ r.countdownComplete = left.countdownComplete
          /\ r.pRoom = left.pRoom /\ r.vmr = left.vmr
  BY <1>1 DEF CachedConference
<1> QED BY <1>1, <1>2, <1>3

\* The status.
LEMMA SetStatusEffect ==
  ASSUME NEW c \in CachedConference, NEW cb \in ProperCallbacks
  PROVE  LET d == SetStatus(c, cb)
         IN  /\ cb.who \in Participants =>
                  /\ d.pStatus[cb.who] = cb.status
                  /\ d.pRoom[cb.who] = IF cb.status = "Disconnected" THEN NoRoom
                                       ELSE c.pRoom[cb.who]
             /\ cb.who \in Endpoints => d.eStatus[cb.who] = cb.status
             /\ cb.who = Nobody /\ cb.type = "CountdownFinished" =>
                  d.status = c.status /\ d.countdownComplete = TRUE
             /\ cb.who = Nobody /\ cb.type # "CountdownFinished" =>
                  /\ d.status = cb.status
                  /\ d.countdownComplete = (c.countdownComplete
                       /\ cb.status \notin {"Closed", "Paused", "Suspended"})
<1> DEFINE d == SetStatus(c, cb)
<1>1. ASSUME cb.who \in Participants
      PROVE  /\ d.pStatus[cb.who] = cb.status
             /\ d.pRoom[cb.who] = IF cb.status = "Disconnected" THEN NoRoom
                                  ELSE c.pRoom[cb.who]
  <2> DEFINE updated == [c EXCEPT !.pStatus[cb.who] = cb.status]
             left == RemoveParticipantFromConsultationRoom(updated, cb.who,
                                                           c.pRoom[cb.who])
  <2>1. /\ updated \in CachedConference
        /\ updated.pStatus[cb.who] = cb.status /\ updated.pRoom = c.pRoom
    BY <1>1 DEF ProperCallbacks, CachedConference
  <2>2. d = IF cb.status = "Disconnected" /\ c.pRoom[cb.who] # NoRoom
              THEN left ELSE updated
    BY <1>1 DEF SetStatus, UpdateParticipantStatus
  <2> HIDE DEF updated
  <2>3. left.pStatus[cb.who] = cb.status /\ left.pRoom[cb.who] = NoRoom
    BY <1>1, <2>1, LeaveRoomEffect
  <2> HIDE DEF left, d
  <2> QED BY <2>1, <2>2, <2>3
<1>2. cb.who \in Endpoints => d.eStatus[cb.who] = cb.status
  BY PartiesAssumption DEF SetStatus, UpdateEndpointStatus, CachedConference
<1>3. cb.who = Nobody =>
        d = IF cb.type = "CountdownFinished" THEN CompleteCountdown(c)
            ELSE UpdateConferenceStatus(c, cb.status)
  BY EventsAssumption DEF SetStatus
<1>4. /\ CompleteCountdown(c).status = c.status
      /\ CompleteCountdown(c).countdownComplete = TRUE
      /\ UpdateConferenceStatus(c, cb.status).status = cb.status
      /\ UpdateConferenceStatus(c, cb.status).countdownComplete =
           (c.countdownComplete /\ cb.status \notin {"Closed", "Paused", "Suspended"})
  BY DEF CompleteCountdown, UpdateConferenceStatus, CachedConference
<1> HIDE DEF d
<1>5. QED BY <1>1, <1>2, <1>3, <1>4 DEF d

\* The room.
LEMMA MoveRoomEffect ==
  ASSUME NEW c \in CachedConference, NEW cb \in ProperCallbacks
  PROVE  LET d == MoveRoom(c, cb)
         IN  /\ cb.who \in Participants =>
                  /\ d.pStatus[cb.who] = c.pStatus[cb.who]
                  /\ d.pRoom[cb.who] = RoomAt(cb.to)
             /\ cb.who \in Endpoints => d.eStatus[cb.who] = c.eStatus[cb.who]
             /\ d.status = c.status /\ d.countdownComplete = c.countdownComplete
<1> DEFINE d == MoveRoom(c, cb)
<1>1. CASE cb.who \in Endpoints
  <2>1. cb.who \notin Participants
    BY <1>1, PartiesAssumption
  <2> DEFINE left == [c EXCEPT !.eRoom[cb.who] = NoRoom]
             gone == RemoveEndpointFromConsultationRoom(c, cb.who, cb.from)
             in   == AddEndpointToConsultationRoom(c, cb.to, cb.who)
  <2>2. /\ left \in CachedConference
        /\ left.eStatus = c.eStatus /\ left.status = c.status
        /\ left.countdownComplete = c.countdownComplete
    BY DEF CachedConference
  <2> HIDE DEF left
  <2>3. \/ gone = left
        \/ gone = [left EXCEPT !.rooms = @ \ {cb.from}]
    BY DEF RemoveEndpointFromConsultationRoom,
           CheckAndRemoveEmptyConsultationRoom, left
  <2>4. /\ gone.eStatus = c.eStatus /\ gone.status = c.status
        /\ gone.countdownComplete = c.countdownComplete
    <3> HIDE DEF gone
    <3> QED BY <2>2, <2>3 DEF CachedConference
  <2>5. /\ in.eStatus = c.eStatus /\ in.status = c.status
        /\ in.countdownComplete = c.countdownComplete
    BY DEF AddEndpointToConsultationRoom, UpsertConsultationRoom, CachedConference
  <2>6. d = in \/ d = gone
    BY <1>1 DEF MoveRoom
  <2> HIDE DEF d, in, gone
  <2> QED BY <2>1, <2>4, <2>5, <2>6 DEF d
<1>2. CASE cb.who \notin Endpoints
  <2> DEFINE gone == RemoveParticipantFromConsultationRoom(c, cb.who, cb.from)
             in   == AddParticipantToConsultationRoom(c, cb.to, cb.who)
  <2>1. /\ in.pStatus = c.pStatus /\ in.status = c.status
        /\ in.countdownComplete = c.countdownComplete
        /\ cb.who \in Participants => in.pRoom[cb.who] = cb.to
    BY DEF AddParticipantToConsultationRoom, UpsertConsultationRoom, CachedConference
  <2>2. /\ gone.pStatus = c.pStatus /\ gone.status = c.status
        /\ gone.countdownComplete = c.countdownComplete
        /\ cb.who \in Participants => gone.pRoom[cb.who] = NoRoom
    BY LeaveRoomEffect
  <2>3. d = IF IsConsultation(cb.to) THEN in ELSE gone
    BY <1>2 DEF MoveRoom
  <2> HIDE DEF d, in, gone
  <2> QED BY <1>2, <2>1, <2>2, <2>3 DEF d, RoomAt
<1> QED BY <1>1, <1>2

\* A handler changes only its callback's party, and the civilian room not.
LEMMA HandledType ==
  ASSUME NEW c \in CachedConference, NEW cb \in ProperCallbacks
  PROVE  /\ Finished(c, cb) \in CachedConference
         /\ Handled(c, cb) \in CachedConference
         /\ SameBut(c, Finished(c, cb), cb.who)
         /\ SameBut(c, Handled(c, cb), cb.who)
<1>1. SameBut(c, c, cb.who)
  BY DEF SameBut
<1>2. ASSUME NEW d \in CachedConference
      PROVE  /\ Finished(d, cb) \in CachedConference
             /\ SameBut(d, Finished(d, cb), cb.who)
  <2>1. SameBut(d, d, cb.who)
    BY DEF SameBut
  <2> QED BY <2>1, HandlerType, HandlerChangesOnly DEF Finished
<1> DEFINE moved == IF cb.type = "Transfer" THEN MoveRoom(c, cb) ELSE c
<1>3. moved \in CachedConference /\ SameBut(c, moved, cb.who)
  BY <1>1, HandlerType, HandlerChangesOnly
<1> HIDE DEF moved
<1>4. SameBut(moved, Finished(moved, cb), cb.who)
  BY <1>2, <1>3
<1>5. SameBut(c, Finished(moved, cb), cb.who)
  <2>1. ASSUME NEW d, NEW e, SameBut(c, d, cb.who), SameBut(d, e, cb.who)
        PROVE  SameBut(c, e, cb.who)
    BY <2>1 DEF SameBut
  <2> QED BY <1>3, <1>4, <2>1
<1> QED BY <1>2, <1>3, <1>5 DEF Handled, moved

\* What a handler makes of a party depends on nothing but the party.
LEMMA HandledAgrees ==
  ASSUME NEW c \in CachedConference, NEW d \in CachedConference,
         NEW cb \in ProperCallbacks, AgreeOn(c, d, cb.who)
  PROVE  AgreeOn(Handled(c, cb), Handled(d, cb), cb.who)
<1>1. ASSUME NEW a \in CachedConference, NEW b \in CachedConference,
             AgreeOn(a, b, cb.who)
      PROVE  AgreeOn(Finished(a, cb), Finished(b, cb), cb.who)
  <2>1. LeaveIsIgnored(a, cb) <=> LeaveIsIgnored(b, cb)
    BY <1>1 DEF LeaveIsIgnored, AgreeOn, ProperCallbacks
  <2>2. AgreeOn(SetStatus(a, cb), SetStatus(b, cb), cb.who)
    <3> DEFINE aa == SetStatus(a, cb)
               bb == SetStatus(b, cb)
    <3>1. ASSUME cb.who \in Participants
          PROVE  aa.pStatus[cb.who] = bb.pStatus[cb.who]
                 /\ aa.pRoom[cb.who] = bb.pRoom[cb.who]
      <4>1. a.pRoom[cb.who] = b.pRoom[cb.who]
        BY <1>1, <3>1 DEF AgreeOn
      <4>2. /\ aa.pStatus[cb.who] = cb.status
            /\ aa.pRoom[cb.who] = IF cb.status = "Disconnected" THEN NoRoom
                                  ELSE a.pRoom[cb.who]
        BY <3>1, SetStatusEffect
      <4>3. /\ bb.pStatus[cb.who] = cb.status
            /\ bb.pRoom[cb.who] = IF cb.status = "Disconnected" THEN NoRoom
                                  ELSE b.pRoom[cb.who]
        BY <3>1, SetStatusEffect
      <4> HIDE DEF aa, bb
      <4> QED BY <4>1, <4>2, <4>3
    <3>2. cb.who \in Endpoints => aa.eStatus[cb.who] = bb.eStatus[cb.who]
      BY SetStatusEffect
    <3>3. cb.who = Nobody => /\ aa.status = bb.status
                             /\ aa.countdownComplete = bb.countdownComplete
      <4>1. cb.who = Nobody => /\ a.status = b.status
                               /\ a.countdownComplete = b.countdownComplete
        BY <1>1 DEF AgreeOn
      <4>2. CASE cb.type = "CountdownFinished"
        BY <4>1, <4>2, SetStatusEffect
      <4>3. CASE cb.type # "CountdownFinished"
        <5>1. cb.who = Nobody =>
                /\ aa.status = cb.status
                /\ aa.countdownComplete = (a.countdownComplete
                     /\ cb.status \notin {"Closed", "Paused", "Suspended"})
          BY <4>3, SetStatusEffect
        <5>2. cb.who = Nobody =>
                /\ bb.status = cb.status
                /\ bb.countdownComplete = (b.countdownComplete
                     /\ cb.status \notin {"Closed", "Paused", "Suspended"})
          BY <4>3, SetStatusEffect
        <5> HIDE DEF aa, bb
        <5> QED BY <4>1, <5>1, <5>2
      <4> QED BY <4>2, <4>3
    <3> HIDE DEF aa, bb
    <3>4. AgreeOn(aa, bb, cb.who)
      BY <3>1, <3>2, <3>3 DEF AgreeOn
    <3> QED BY <3>4 DEF aa, bb
  <2> QED BY <1>1, <2>1, <2>2 DEF Finished
<1>2. AgreeOn(MoveRoom(c, cb), MoveRoom(d, cb), cb.who)
  <2> DEFINE cc == MoveRoom(c, cb)
             dd == MoveRoom(d, cb)
  <2>1. /\ cb.who \in Participants =>
             /\ cc.pStatus[cb.who] = c.pStatus[cb.who]
             /\ dd.pStatus[cb.who] = d.pStatus[cb.who]
             /\ cc.pRoom[cb.who] = dd.pRoom[cb.who]
        /\ cb.who \in Endpoints => /\ cc.eStatus[cb.who] = c.eStatus[cb.who]
                                   /\ dd.eStatus[cb.who] = d.eStatus[cb.who]
        /\ cc.status = c.status /\ cc.countdownComplete = c.countdownComplete
        /\ dd.status = d.status /\ dd.countdownComplete = d.countdownComplete
    BY MoveRoomEffect
  <2> HIDE DEF cc, dd
  <2>2. AgreeOn(cc, dd, cb.who)
    BY <2>1 DEF AgreeOn
  <2> QED BY <2>2 DEF cc, dd
<1>3. MoveRoom(c, cb) \in CachedConference /\ MoveRoom(d, cb) \in CachedConference
  BY HandlerType
<1> QED BY <1>1, <1>2, <1>3 DEF Handled

\* The room the Video API records.
LEMMA RecordEffect ==
  ASSUME NEW a \in CachedConference, NEW cb \in ProperCallbacks
  PROVE  /\ cb.who \in Participants =>
              Record(a, cb).pRoom[cb.who] =
                IF cb.status = "Disconnected" THEN NoRoom
                ELSE IF cb.type = "Transfer" THEN RoomAt(cb.to)
                ELSE a.pRoom[cb.who]
         /\ \A p \in Participants \ {cb.who} : Record(a, cb).pRoom[p] = a.pRoom[p]
<1> DEFINE shown == IF cb.type = "Transfer" THEN ShowRoom(a, cb) ELSE a
           set   == SetStatus(shown, cb)
<1>1. shown \in CachedConference
  BY HandlerType
<1>2. /\ cb.who \in Participants =>
           shown.pRoom[cb.who] = IF cb.type = "Transfer" THEN RoomAt(cb.to)
                                 ELSE a.pRoom[cb.who]
      /\ \A p \in Participants \ {cb.who} : shown.pRoom[p] = a.pRoom[p]
  BY PartiesAssumption DEF ShowRoom, RoomAt, CachedConference
<1> HIDE DEF shown
<1>3. cb.who \in Participants =>
        set.pRoom[cb.who] = IF cb.status = "Disconnected" THEN NoRoom
                            ELSE shown.pRoom[cb.who]
  BY <1>1, SetStatusEffect
<1>4. \A p \in Participants \ {cb.who} : set.pRoom[p] = shown.pRoom[p]
  BY <1>1, HandlerChangesOnly DEF SameBut
<1>5. set \in CachedConference
  BY <1>1, HandlerType
<1> HIDE DEF set
<1>6. (IF cb.who \in Endpoints /\ cb.status = "Disconnected"
         THEN [set EXCEPT !.eRoom[cb.who] = NoRoom] ELSE set).pRoom = set.pRoom
  BY <1>5 DEF CachedConference
<1>7. Record(a, cb).pRoom = set.pRoom
  BY <1>6 DEF Record, ShowStatus, set, shown
<1> QED BY <1>2, <1>3, <1>4, <1>7
-----------------------------------------------------------------------------
(***************************************************************************)
(* Callbacks that are handled and raised one after the other.              *)
(***************************************************************************)
\* What is due of the others stays so when one is changed and made right.
LEMMA PublishDueAfter ==
  ASSUME NEW c \in CachedConference, NEW d \in CachedConference,
         NEW cbs \in SUBSET ProperCallbacks, NEW but, NEW s,
         NEW x \in Parties \cup {Nobody}, ~Concerns(cbs, x), SameBut(c, d, x),
         PublishDue(c, cbs, but \cup {x}, s), x \in but \/ Right(d, x, s)
  PROVE  PublishDue(d, cbs, but, s)
<1>1. ASSUME NEW y \in Parties \cup {Nobody}
      PROVE  y \in but \/ Concerns(cbs, y) \/ Right(d, y, s)
  <2>1. CASE y = x
    BY <2>1
  <2>2. CASE y # x
    <3>1. AgreeOn(c, d, y)
      BY <2>2, OthersAgree
    <3> QED BY <2>2, <3>1, RightAgrees DEF PublishDue
  <2> QED BY <2>1, <2>2
<1>2. ASSUME NEW cb \in cbs
      PROVE  cb.who \in but \/ Right(Handled(d, cb), cb.who, s)
  <2>1. cb.who # x /\ cb \in ProperCallbacks /\ cb.who \in Parties \cup {Nobody}
    BY DEF Concerns, ProperCallbacks, Callback
  <2>2. AgreeOn(Handled(c, cb), Handled(d, cb), cb.who)
    BY <2>1, OthersAgree, HandledAgrees
  <2>3. cb.who \in but \/ Right(Handled(c, cb), cb.who, s)
    BY <2>1 DEF PublishDue
  <2> QED BY <2>2, <2>3, RightAgrees
<1> QED BY <1>1, <1>2 DEF PublishDue

\* The same of what is raised.
LEMMA RaiseDueAfter ==
  ASSUME NEW a \in CachedConference, NEW cbs \in SUBSET ProperCallbacks,
         NEW but, NEW s, NEW cb \in cbs, RaiseDue(a, cbs, but, s)
  PROVE  RaiseDue(Record(a, cb), cbs \ {cb}, but, s)
<1>1. /\ cb \in ProperCallbacks /\ cb.who \in Parties \cup {Nobody}
      /\ Record(a, cb) \in CachedConference
  BY HandlerType DEF ProperCallbacks, Callback
<1>2. OneEach(cbs \ {cb})
  BY DEF RaiseDue, OneEach
<1>3. ASSUME NEW y \in Parties \cup {Nobody}
      PROVE  y \in but \/ Concerns(cbs \ {cb}, y) \/ RecordRight(Record(a, cb), y, s)
  <2>1. CASE y = cb.who
    BY <2>1 DEF RaiseDue
  <2>2. CASE y # cb.who
    <3>1. Concerns(cbs, y) => Concerns(cbs \ {cb}, y)
      BY <2>2 DEF Concerns
    <3>2. RecordRight(a, y, s) => RecordRight(Record(a, cb), y, s)
      BY <1>1, <2>2, RecordEffect DEF RecordRight
    <3> QED BY <3>1, <3>2 DEF RaiseDue
  <2> QED BY <2>1, <2>2
<1>4. ASSUME NEW b \in cbs \ {cb}
      PROVE  b.who \in but \/ RecordRight(Record(Record(a, cb), b), b.who, s)
  <2>1. b.who # cb.who /\ b \in ProperCallbacks
    BY DEF RaiseDue, OneEach
  <2>2. b.who \in Participants =>
          Record(Record(a, cb), b).pRoom[b.who] = Record(a, b).pRoom[b.who]
    <3>1. b.who \in Participants => Record(a, cb).pRoom[b.who] = a.pRoom[b.who]
      BY <1>1, <2>1, RecordEffect
    <3> QED BY <1>1, <2>1, <3>1, RecordEffect
  <2>3. b.who \in but \/ RecordRight(Record(a, b), b.who, s)
    BY DEF RaiseDue
  <2> QED BY <2>2, <2>3 DEF RecordRight
<1> QED BY <1>2, <1>3, <1>4 DEF RaiseDue
-----------------------------------------------------------------------------
(***************************************************************************)
(* The supplier.                                                           *)
(***************************************************************************)
\* What happens leaves the supplier a proper one.
LEMMA HappensProper ==
  ASSUME NEW s \in ProperWorlds, NEW e, NEW t, Happens(s, e, t)
  PROVE  t \in ProperWorlds
<1>1. /\ s \in World /\ s.where \in [Parties -> Locations \cup {"Out"}]
      /\ s.hearing \in [status : ConferenceStatus, countdown : BOOLEAN]
      /\ \A p, q \in Here(s) : s.where[p] = s.where[q]
      /\ s.hearing.countdown => s.hearing.status = "InSession"
  BY DEF ProperWorlds, World
<1>2. Linked \subseteq Parties
  BY EventsAssumption DEF Parties
<1>3. ASSUME NEW w \in [Parties -> Locations \cup {"Out"}],
             t = [s EXCEPT !.where = w],
             \A p, q \in Linked : w[p] # "Out" /\ w[q] # "Out" => w[p] = w[q]
      PROVE  t \in ProperWorlds
  <2>1. t \in World /\ t.where = w /\ t.hearing = s.hearing
    BY <1>1, <1>3 DEF World
  <2>2. ASSUME NEW p \in Here(t), NEW q \in Here(t) PROVE t.where[p] = t.where[q]
    <3>1. p \in Linked /\ q \in Linked /\ w[p] # "Out" /\ w[q] # "Out"
      BY <2>1 DEF Here
    <3>2. w[p] = w[q]
      BY ONLY <1>3, <3>1
    <3> QED BY ONLY <2>1, <3>2
  <2>3. t.hearing.countdown => t.hearing.status = "InSession"
    BY <1>1, <2>1
  <2> QED BY ONLY <2>1, <2>2, <2>3 DEF ProperWorlds
<1>4. ASSUME NEW g \in [status : ConferenceStatus, countdown : BOOLEAN],
             t = [s EXCEPT !.hearing = g], g.countdown => g.status = "InSession"
      PROVE  t \in ProperWorlds
  <2>1. t \in World /\ t.where = s.where /\ t.hearing = g
    BY <1>1, <1>4 DEF World
  <2>2. Here(t) = Here(s)
    BY <2>1 DEF Here
  <2>3. \A p, q \in Here(t) : t.where[p] = t.where[q]
    BY ONLY <1>1, <2>1, <2>2
  <2>4. t.hearing.countdown => t.hearing.status = "InSession"
    BY <1>4, <2>1
  <2> QED BY ONLY <2>1, <2>3, <2>4 DEF ProperWorlds
<1>5. CASE Arrives(s, e, t)
  <2> PICK place \in Locations :
        /\ t = [s EXCEPT !.where = [@ EXCEPT ![e.who] = place]]
        /\ IF e.who \in Linked /\ Here(s) # {}
             THEN \E q \in Here(s) : place = s.where[q]
             ELSE place = "WaitingRoom"
    BY <1>5 DEF Arrives, Placed
  <2> DEFINE w == [s.where EXCEPT ![e.who] = place]
  <2>1. w \in [Parties -> Locations \cup {"Out"}] /\ t = [s EXCEPT !.where = w]
    BY <1>1
  <2>2. \A p \in Parties : w[p] = IF p = e.who THEN place ELSE s.where[p]
    BY <1>1
  <2> HIDE DEF w
  <2>3. \A p, q \in Linked : w[p] # "Out" /\ w[q] # "Out" => w[p] = w[q]
    BY <1>1, <1>2, <2>2 DEF Here
  <2> QED BY <1>3, <2>1, <2>3
<1>6. CASE Moves(s, e, t) \/ Departs(s, e, t)
  <2> DEFINE to == IF Moves(s, e, t) THEN e.to ELSE "Out"
             w  == [s.where EXCEPT ![e.who] = to]
  <2>1. /\ to \in Locations \cup {"Out"} /\ t = [s EXCEPT !.where = w]
        /\ e.who \in Linked => to = "Out"
    BY <1>6, EventsAssumption DEF Moves, Departs, Placed
  <2> HIDE DEF to
  <2>2. /\ w \in [Parties -> Locations \cup {"Out"}]
        /\ \A p \in Parties : w[p] = IF p = e.who THEN to ELSE s.where[p]
    BY <1>1, <2>1
  <2> HIDE DEF w
  <2>3. \A p, q \in Linked : w[p] # "Out" /\ w[q] # "Out" => w[p] = w[q]
    BY <1>1, <1>2, <2>1, <2>2 DEF Here
  <2> QED BY <1>3, <2>1, <2>2, <2>3
<1>7. CASE AllMove(s, e, t)
  <2> DEFINE w == [p \in Parties |-> IF p \in Here(s) THEN e.to ELSE s.where[p]]
  <2>1. /\ e.to \in Locations /\ t = [s EXCEPT !.where = w]
        /\ w \in [Parties -> Locations \cup {"Out"}]
        /\ \A p \in Parties : w[p] = IF p \in Here(s) THEN e.to ELSE s.where[p]
    BY <1>1, <1>7 DEF AllMove
  <2> HIDE DEF w
  <2>2. \A p, q \in Linked : w[p] # "Out" /\ w[q] # "Out" => w[p] = w[q]
    BY <1>2, <2>1 DEF Here
  <2> QED BY <1>3, <2>1, <2>2
<1>8. CASE Turns(s, e, t) \/ Counts(s, e, t)
  <2> DEFINE g == IF Turns(s, e, t)
                    THEN [status |-> ConferenceStatusOf(e.type), countdown |-> FALSE]
                    ELSE [status |-> "InSession", countdown |-> TRUE]
  <2>1. /\ g \in [status : ConferenceStatus, countdown : BOOLEAN]
        /\ g.countdown => g.status = "InSession"
    BY <1>8 DEF Turns, Counts, ConferenceStatusOf, ConferenceStatus
  <2>2. t = [s EXCEPT !.hearing = g]
    BY <1>8 DEF Turns, Counts
  <2> HIDE DEF g
  <2> QED BY <1>4, <2>1, <2>2
<1>9. CASE Stays(s, e, t)
  BY <1>9 DEF Stays
<1> QED BY <1>5, <1>6, <1>7, <1>8, <1>9 DEF Happens

\* Whatever is sent tells of what has happened at the supplier.
LEMMA EnvironmentHappens ==
  ASSUME TypeInv, Now \in ProperWorlds, Environment, NoRefresh'
  PROVE  \E e : /\ net' = Append(net, e)
                /\ Happens(Now, e, Now')
                /\ UNCHANGED <<cache, api, req>>
<1>1. /\ where \in [Parties -> Locations \cup {"Out"}]
      /\ hearing \in [status : ConferenceStatus, countdown : BOOLEAN]
      /\ Now.where = where /\ Now.hearing = hearing
      /\ hearing.countdown => hearing.status = "InSession"
  BY DEF TypeInv, ProperWorlds, Now
<1>2. /\ \A w : [Now EXCEPT !.where = w] = [where |-> w, hearing |-> hearing]
      /\ \A g : [Now EXCEPT !.hearing = g] = [where |-> where, hearing |-> g]
      /\ Now' = [where |-> where', hearing |-> hearing']
  BY DEF Now
<1>3. Here(Now) = LinkedConnected
  BY <1>1 DEF Here, LinkedConnected, Connected
<1>4. /\ Linked \subseteq Parties /\ Participants \subseteq Parties
      /\ VMR \notin Parties /\ Nobody \notin Parties
  BY EventsAssumption DEF Parties
<1>5. ASSUME NEW e, Send(e)
      PROVE  /\ net' = Append(net, e) /\ UNCHANGED <<cache, api, req>>
             /\ e.type # "Refresh"
  <2>1. net' = Append(net, e) /\ UNCHANGED <<cache, api, req>> /\ Len(net) \in Nat
    BY <1>5, LenProperties DEF Send, apiVars, TypeInv
  <2>2. Len(net) + 1 \in 1..Len(net') /\ net'[Len(net) + 1] = e
    BY <2>1 DEF TypeInv
  <2> QED BY <2>1, <2>2 DEF NoRefresh
<1>6. ASSUME NEW p \in Parties, Connect(p)
      PROVE  \E e : Send(e) /\ Happens(Now, e, Now')
  <2> PICK place \in IF p \in Linked /\ LinkedConnected # {}
                       THEN {where[q] : q \in LinkedConnected}
                       ELSE {"WaitingRoom"} :
        where' = [where EXCEPT ![p] = place]
    BY <1>6 DEF Connect
  <2> DEFINE e == Enter(p, "Joined")
  <2>1. /\ e.type = "Joined" /\ e.who = p /\ (e.via <=> p \in Linked)
    BY DEF Enter, Via, Simple
  <2>2. place \in Locations
    BY <1>1, <1>4 DEF LinkedConnected, Connected, Locations
  <2>3. IF p \in Linked /\ Here(Now) # {}
          THEN \E q \in Here(Now) : place = where[q]
          ELSE place = "WaitingRoom"
    BY <1>3
  <2>4. where[p] = "Out" /\ UNCHANGED hearing
    BY <1>6 DEF Connect, Connected
  <2>5. Now' = [Now EXCEPT !.where = [@ EXCEPT ![p] = place]]
    BY <1>2, <2>4 DEF Now
  <2> HIDE DEF e
  <2>6. Arrives(Now, e, Now')
    BY <1>1, <2>1, <2>2, <2>3, <2>4, <2>5 DEF Arrives, Placed
  <2>7. Send(e)
    BY <1>6 DEF Connect, e
  <2> QED BY <2>6, <2>7 DEF Happens
<1>7. ASSUME NEW p \in Parties, Drop(p)
      PROVE  \E e : Send(e) /\ Happens(Now, e, Now')
  <2> DEFINE e == Enter(p, "Disconnected")
  <2>1. /\ e.type = "Disconnected" /\ e.who = p /\ (e.via <=> p \in Linked)
    BY DEF Enter, Via, Simple
  <2>2. where[p] # "Out" /\ Now' = [Now EXCEPT !.where = [@ EXCEPT ![p] = "Out"]]
    BY <1>2, <1>7 DEF Now, Drop, Connected
  <2> HIDE DEF e
  <2>3. Departs(Now, e, Now')
    BY <1>1, <2>1, <2>2 DEF Departs, Placed
  <2>4. Send(e)
    BY <1>7 DEF Drop, e
  <2> QED BY <2>3, <2>4 DEF Happens
<1>8. ASSUME NEW p \in Parties, NEW to \in Locations, Move(p, to)
      PROVE  \E e : Send(e) /\ Happens(Now, e, Now')
  <2> DEFINE e == Transfer(p, where[p], to)
  <2>1. e.type = "Transfer" /\ e.who = p /\ e.via = FALSE /\ e.to = to
    BY DEF Transfer, Simple
  <2>2. /\ where[p] # "Out" /\ p \notin Linked
        /\ Now' = [Now EXCEPT !.where = [@ EXCEPT ![p] = to]]
    BY <1>2, <1>8 DEF Now, Move, Connected
  <2> HIDE DEF e
  <2>3. Moves(Now, e, Now')
    BY <1>1, <2>1, <2>2 DEF Moves, Placed
  <2>4. Send(e)
    BY <1>8 DEF Move, e
  <2> QED BY <2>3, <2>4 DEF Happens
<1>9. ASSUME NEW to \in Locations, MoveCivilianRoom(to)
      PROVE  \E e : Send(e) /\ Happens(Now, e, Now')
  <2> PICK p \in LinkedConnected : Send(Transfer(VMR, where[p], to))
    BY <1>9 DEF MoveCivilianRoom
  <2> DEFINE e == Transfer(VMR, where[p], to)
  <2>1. e.type = "Transfer" /\ e.who = VMR /\ e.via = FALSE /\ e.to = to
    BY DEF Transfer, Simple
  <2>2. Now' = [Now EXCEPT !.where =
                  [q \in Parties |-> IF q \in Here(Now) THEN to ELSE where[q]]]
    BY <1>2, <1>3, <1>9 DEF MoveCivilianRoom
  <2>3. Send(e)
    OBVIOUS
  <2> HIDE DEF e
  <2>4. AllMove(Now, e, Now')
    BY <1>1, <2>1, <2>2 DEF AllMove
  <2> QED BY <2>3, <2>4 DEF Happens
<1>10. ASSUME NEW p \in Participants, NEW type \in {"Leave", "LeaveForOtherDevice"},
              LeaveCall(p, type)
       PROVE  \E e : Send(e) /\ Happens(Now, e, Now')
  <2> DEFINE e == Simple(type, p)
  <2>1. e.type = type /\ e.who = p /\ e.via = FALSE
    BY DEF Simple
  <2>2. /\ where[p] # "Out" /\ p \notin Linked
        /\ Now' = [Now EXCEPT !.where = [@ EXCEPT ![p] = "Out"]]
    BY <1>2, <1>10 DEF Now, LeaveCall, Connected
  <2>3. Send(e)
    BY <1>10 DEF LeaveCall
  <2> HIDE DEF e
  <2>4. Departs(Now, e, Now')
    BY <1>1, <2>1, <2>2 DEF Departs, Placed
  <2> QED BY <2>3, <2>4 DEF Happens
<1>11. ASSUME \/ HearingEvent("Start", {"NotStarted", "Paused", "Suspended"}, "InSession")
              \/ HearingEvent("Pause", {"InSession"}, "Paused")
              \/ HearingEvent("Suspend", {"InSession"}, "Suspended")
              \/ HearingEvent("Close", {"InSession", "Paused", "Suspended"}, "Closed")
       PROVE  \E e : Send(e) /\ Happens(Now, e, Now')
  <2> PICK type \in {"Start", "Pause", "Suspend", "Close"} :
        /\ Send(Simple(type, Nobody)) /\ UNCHANGED where
        /\ type = "Start" => hearing.status # "InSession"
        /\ hearing' = [status |-> ConferenceStatusOf(type), countdown |-> FALSE]
    BY <1>11 DEF HearingEvent, ConferenceStatusOf
  <2> DEFINE e == Simple(type, Nobody)
  <2>1. e.type = type /\ e.who = Nobody /\ e.via = FALSE
    BY DEF Simple
  <2>2. Now' = [Now EXCEPT !.hearing = [status |-> ConferenceStatusOf(type),
                                        countdown |-> FALSE]]
    BY <1>2
  <2>3. Send(e)
    OBVIOUS
  <2>4. type = "Start" => hearing.countdown = FALSE
    BY <1>1
  <2> HIDE DEF e
  <2>5. Turns(Now, e, Now')
    BY <1>1, <2>1, <2>2, <2>4 DEF Turns
  <2> QED BY <2>3, <2>5 DEF Happens
<1>12. ASSUME FinishCountdown
       PROVE  \E e : Send(e) /\ Happens(Now, e, Now')
  <2> DEFINE e == Simple("CountdownFinished", Nobody)
  <2>1. e.type = "CountdownFinished" /\ e.who = Nobody /\ e.via = FALSE
    BY DEF Simple
  <2>2. /\ hearing.status = "InSession"
        /\ hearing' = [status |-> "InSession", countdown |-> TRUE]
    BY <1>12 DEF FinishCountdown
  <2>3. Now' = [Now EXCEPT !.hearing = [status |-> "InSession", countdown |-> TRUE]]
    BY <1>2, <1>12, <2>2 DEF FinishCountdown
  <2>4. Send(e)
    BY <1>12 DEF FinishCountdown
  <2> HIDE DEF e
  <2>5. Counts(Now, e, Now')
    BY <1>1, <2>1, <2>2, <2>3 DEF Counts
  <2> QED BY <2>4, <2>5 DEF Happens
<1>13. ASSUME NEW p \in Participants, NEW type \in BrowserTypes, Post(p, type)
       PROVE  \E e : Send(e) /\ Happens(Now, e, Now')
  <2> DEFINE e == Simple(type, p)
  <2>1. e.type = type /\ e.who = p /\ e.via = FALSE
    BY DEF Simple
  <2>2. where[p] = "Out" /\ Now' = Now
    BY <1>2, <1>13 DEF Post, Connected, Now
  <2>3. Send(e)
    BY <1>13 DEF Post
  <2> HIDE DEF e
  <2>4. Stays(Now, e, Now')
    BY <1>1, <2>1, <2>2 DEF Stays
  <2> QED BY <2>3, <2>4 DEF Happens
<1>14. ASSUME Internal
       PROVE  \E e : Send(e) /\ Happens(Now, e, Now')
  <2>1. ~Send(Simple("Refresh", Nobody))
    BY <1>5 DEF Simple
  <2> PICK r : Send([Simple("StartConsultation", Nobody) EXCEPT !.to = r])
    BY <1>14, <2>1 DEF Internal
  <2> DEFINE e == [Simple("StartConsultation", Nobody) EXCEPT !.to = r]
  <2>2. e.type = "StartConsultation"
    BY DEF Simple
  <2>3. Now' = Now
    BY <1>2, <1>14 DEF Internal, Now
  <2>4. Send(e)
    OBVIOUS
  <2> HIDE DEF e
  <2>5. Stays(Now, e, Now')
    BY <2>2, <2>3 DEF Stays
  <2> QED BY <2>4, <2>5 DEF Happens
<1>15. \E e : Send(e) /\ Happens(Now, e, Now')
  BY <1>6, <1>7, <1>8, <1>9, <1>10, <1>11, <1>12, <1>13, <1>14 DEF Environment
<1> QED BY <1>5, <1>15
-----------------------------------------------------------------------------
(***************************************************************************)
(* A request that is taken up: its callbacks, once they are built, put     *)
(* right what has happened at the supplier.                                *)
(***************************************************************************)
\* Between requests everything is right.
LEMMA SettledIs ==
  ASSUME NEW c, NEW a, NEW s
  PROVE  Settled(c, a, s) <=>
           /\ c.vmr = Here(s)
           /\ \A x \in Parties \cup {Nobody} : Right(c, x, s) /\ RecordRight(a, x, s)
<1>1. ByRelay({}, Simple("Refresh", Nobody)) \cup {} = {}
      /\ ByRelay({}, Simple("Refresh", Nobody)) = {}
  BY DEF ByRelay
<1>2. RelayIsDue({}, Simple("Refresh", Nobody), s)
  BY DEF RelayIsDue
<1>3. \A x : ~Concerns({}, x)
  BY DEF Concerns
<1>4. OneEach({})
  BY DEF OneEach
<1> QED BY <1>1, <1>2, <1>3, <1>4 DEF Settled, Underway, PublishDue, RaiseDue

\* What is right of a party stays right while it stays where it is.
LEMMA RightStays ==
  ASSUME NEW c, NEW x \in Parties \cup {Nobody}, NEW s, NEW t,
         x \in Parties => s.where[x] = t.where[x],
         x = Nobody => s.hearing = t.hearing
  PROVE  /\ Right(c, x, s) => Right(c, x, t)
         /\ RecordRight(c, x, s) => RecordRight(c, x, t)
<1>1. x \in Here(s) <=> x \in Here(t)
  BY EventsAssumption DEF Here, Parties
<1>2. x \in Participants \/ x \in Endpoints => s.where[x] = t.where[x]
  BY DEF Parties
<1>3. Right(c, x, s) => Right(c, x, t)
  <2>1. CASE x \in Participants
    <3>1. x \notin Endpoints /\ x # Nobody /\ s.where[x] = t.where[x]
      BY <1>2, <2>1, PartiesAssumption, EventsAssumption
    <3> QED BY <1>1, <2>1, <3>1 DEF Right
  <2>2. CASE x \notin Participants
    <3>1. x \notin Here(t) /\ (x \in Endpoints => s.where[x] = t.where[x])
      BY <1>2, <2>2, EventsAssumption DEF Here
    <3> QED BY <2>2, <3>1 DEF Right
  <2> QED BY <2>1, <2>2
<1> QED BY <1>2, <1>3 DEF RecordRight

\* The handler of a callback moves its party, then sets its status.
LEMMA HandledIs ==
  ASSUME NEW c \in CachedConference, NEW cb \in ProperCallbacks
  PROVE  \E moved \in CachedConference :
           /\ Handled(c, cb) = IF LeaveIsIgnored(c, cb) THEN c
                               ELSE SetStatus(moved, cb)
           /\ cb.who \in Participants =>
                moved.pRoom[cb.who] = IF cb.type = "Transfer" THEN RoomAt(cb.to)
                                      ELSE c.pRoom[cb.who]
           /\ moved.status = c.status
           /\ moved.countdownComplete = c.countdownComplete
<1> DEFINE moved == IF cb.type = "Transfer" THEN MoveRoom(c, cb) ELSE c
<1>1. moved \in CachedConference
  BY HandlerType
<1>2. /\ cb.who \in Participants =>
           moved.pRoom[cb.who] = IF cb.type = "Transfer" THEN RoomAt(cb.to)
                                 ELSE c.pRoom[cb.who]
      /\ moved.status = c.status /\ moved.countdownComplete = c.countdownComplete
  <2>1. CASE cb.type = "Transfer"
    BY <2>1, MoveRoomEffect
  <2>2. CASE cb.type # "Transfer"
    BY <2>2
  <2> QED BY <2>1, <2>2
<1>3. LeaveIsIgnored(moved, cb) <=> LeaveIsIgnored(c, cb)
  BY DEF LeaveIsIgnored
<1>4. LeaveIsIgnored(c, cb) => moved = c
  BY DEF LeaveIsIgnored
<1>5. Handled(c, cb) = IF LeaveIsIgnored(c, cb) THEN c ELSE SetStatus(moved, cb)
  BY <1>3, <1>4 DEF Handled, Finished
<1> HIDE DEF moved
<1> QED BY <1>1, <1>2, <1>5

\* What it makes of a participant, an endpoint and the hearing.
LEMMA HandledParticipant ==
  ASSUME NEW c \in CachedConference, NEW cb \in ProperCallbacks,
         cb.who \in Participants
  PROVE  IF LeaveIsIgnored(c, cb) THEN Handled(c, cb) = c
         ELSE /\ Handled(c, cb).pStatus[cb.who] = cb.status
              /\ Handled(c, cb).pRoom[cb.who] =
                   IF cb.status = "Disconnected" THEN NoRoom
                   ELSE IF cb.type = "Transfer" THEN RoomAt(cb.to)
                   ELSE c.pRoom[cb.who]
<1> PICK moved \in CachedConference :
      /\ Handled(c, cb) = IF LeaveIsIgnored(c, cb) THEN c ELSE SetStatus(moved, cb)
      /\ moved.pRoom[cb.who] = IF cb.type = "Transfer" THEN RoomAt(cb.to)
                               ELSE c.pRoom[cb.who]
  BY HandledIs
<1> DEFINE set == SetStatus(moved, cb)
<1>1. /\ set.pStatus[cb.who] = cb.status
      /\ set.pRoom[cb.who] = IF cb.status = "Disconnected" THEN NoRoom
                             ELSE moved.pRoom[cb.who]
  BY SetStatusEffect
<1>2. Handled(c, cb) = IF LeaveIsIgnored(c, cb) THEN c ELSE set
  OBVIOUS
<1> HIDE DEF set
<1> QED BY <1>1, <1>2

\* An endpoint's part of what a handler makes.
LEMMA HandledEndpoint ==
  ASSUME NEW c \in CachedConference, NEW cb \in ProperCallbacks,
         cb.who \in Endpoints
  PROVE  Handled(c, cb).eStatus[cb.who] = cb.status
<1> PICK moved \in CachedConference :
      Handled(c, cb) = IF LeaveIsIgnored(c, cb) THEN c ELSE SetStatus(moved, cb)
  BY HandledIs
<1>1. ~LeaveIsIgnored(c, cb)
  BY PartiesAssumption DEF LeaveIsIgnored, ProperCallbacks
<1>2. SetStatus(moved, cb).eStatus[cb.who] = cb.status
  BY SetStatusEffect
<1> QED BY <1>1, <1>2

\* The hearing's part.
LEMMA HandledHearing ==
  ASSUME NEW c \in CachedConference, NEW cb \in ProperCallbacks,
         cb.who = Nobody, NEW h, h = Handled(c, cb)
  PROVE  IF cb.type = "CountdownFinished"
           THEN h.status = c.status /\ h.countdownComplete = TRUE
           ELSE /\ h.status = cb.status
                /\ h.countdownComplete = (c.countdownComplete
                     /\ cb.status \notin {"Closed", "Paused", "Suspended"})
<1> PICK moved \in CachedConference :
      /\ Handled(c, cb) = IF LeaveIsIgnored(c, cb) THEN c ELSE SetStatus(moved, cb)
      /\ moved.status = c.status
      /\ moved.countdownComplete = c.countdownComplete
  BY HandledIs
<1>1. h = SetStatus(moved, cb)
  BY EventsAssumption DEF LeaveIsIgnored, ProperCallbacks
<1> DEFINE set == SetStatus(moved, cb)
<1>2. CASE cb.type = "CountdownFinished"
  <2>1. set.status = moved.status /\ set.countdownComplete = TRUE
    BY <1>2, SetStatusEffect
  <2>2. h = set
    BY <1>1
  <2> HIDE DEF set
  <2> QED BY <1>2, <2>1, <2>2
<1>3. CASE cb.type # "CountdownFinished"
  <2>1. /\ set.status = cb.status
        /\ set.countdownComplete = (moved.countdownComplete
             /\ cb.status \notin {"Closed", "Paused", "Suspended"})
    BY <1>3, SetStatusEffect
  <2>2. h = set
    BY <1>1
  <2> HIDE DEF set
  <2> QED BY <1>3, <2>1, <2>2
<1> QED BY <1>2, <1>3

\* The callback of a participant puts the participant right ...
LEMMA ParticipantIsRight ==
  ASSUME NEW c \in CachedConference, NEW a \in CachedConference,
         NEW cb \in ProperCallbacks, cb.who \in Participants, cb.type # "Leave",
         NEW t, NEW place, t.where[cb.who] = place,
         RoomAt(place) = IF cb.type = "Transfer" THEN RoomAt(cb.to) ELSE NoRoom,
         cb.status = "Disconnected" => RoomAt(place) = NoRoom,
         cb.status # "Disconnected" /\ cb.type # "Transfer" =>
           c.pRoom[cb.who] = NoRoom /\ a.pRoom[cb.who] = NoRoom,
         cb.who \notin Linked =>
           IF place # "Out" THEN cb.status = TransferStatus(cb.who, place)
           ELSE cb.status \notin {"InHearing", "InConsultation"},
         cb.who \in Linked /\ place # "Out" =>
           (cb.status = "InConsultation" <=> place \in Rooms)
  PROVE  /\ Right(Handled(c, cb), cb.who, t)
         /\ RecordRight(Record(a, cb), cb.who, t)
<1> PICK h : h = Handled(c, cb)
  OBVIOUS
<1> PICK g : g = Record(a, cb)
  OBVIOUS
<1>1. cb.who \notin Endpoints /\ cb.who # Nobody /\ ~LeaveIsIgnored(c, cb)
  BY PartiesAssumption, EventsAssumption DEF LeaveIsIgnored
<1>2. h.pStatus[cb.who] = cb.status /\ h.pRoom[cb.who] = RoomAt(place)
  BY <1>1, HandledParticipant
<1>3. g.pRoom[cb.who] = RoomAt(place)
  BY RecordEffect
<1>4. Right(h, cb.who, t) /\ RecordRight(g, cb.who, t)
  BY <1>1, <1>2, <1>3 DEF Right, RecordRight, Here
<1> QED BY <1>4

\* ... that of an endpoint the endpoint.
LEMMA EndpointIsRight ==
  ASSUME NEW c \in CachedConference, NEW a,
         NEW cb \in ProperCallbacks, cb.who \in Endpoints, NEW t,
         IF t.where[cb.who] # "Out"
           THEN cb.status = TransferStatus(cb.who, t.where[cb.who])
           ELSE cb.status \in {"NotYetJoined", "Disconnected"}
  PROVE  /\ Right(Handled(c, cb), cb.who, t)
         /\ RecordRight(Record(a, cb), cb.who, t)
<1> PICK h : h = Handled(c, cb)
  OBVIOUS
<1>1. cb.who \notin Participants /\ cb.who # Nobody /\ cb.who \notin Linked
  BY PartiesAssumption, EventsAssumption
<1>2. h.eStatus[cb.who] = cb.status
  BY HandledEndpoint
<1>3. Right(h, cb.who, t)
  BY <1>1, <1>2 DEF Right, Here
<1> QED BY <1>1, <1>3 DEF RecordRight

\* The callback the mapper builds of an event for a party.
CallbackOf(e, x, d) ==
  [type |-> e.type, who |-> x, status |-> StatusOf(e, x, d),
   from |-> e.from, to |-> e.to]

\* The callbacks of an event are one for each party concerned, as they should be.
LEMMA CallbacksAre ==
  ASSUME NEW d \in CachedConference, NEW e \in SentEvents,
         e.type \notin {"Refresh", "StartConsultation"}
  PROVE  /\ Callbacks(e, d) = {CallbackOf(e, x, d) : x \in Concerned(e, d)}
         /\ OneEach(Callbacks(e, d))
         /\ \A x \in Concerned(e, d) :
              CallbackOf(e, x, d) \in ProperCallbacks /\ Concerns(Callbacks(e, d), x)
<1>1. Callbacks(e, d) = {CallbackOf(e, x, d) : x \in Concerned(e, d)}
  BY DEF Callbacks, CallbackOf
<1>2. \A x : CallbackOf(e, x, d).who = x
  BY DEF CallbackOf
<1>3. Callbacks(e, d) \in SUBSET ProperCallbacks
  BY CallbacksType
<1> HIDE DEF Callbacks, CallbackOf
<1> QED BY <1>1, <1>2, <1>3 DEF OneEach, Concerns

\* The civilian room is all that the controller changes.
LEMMA CivilianRoomChange ==
  ASSUME NEW c \in CachedConference, NEW e \in SentEvents,
         NEW d, d = CivilianRoomAfter(c, e)
  PROVE  /\ d \in CachedConference
         /\ d.status = c.status /\ d.countdownComplete = c.countdownComplete
         /\ d.pStatus = c.pStatus /\ d.pRoom = c.pRoom /\ d.eStatus = c.eStatus
         /\ \A x : AgreeOn(c, d, x)
         /\ d.vmr = IF ~ChangesCivilianRoom(e) THEN c.vmr
                    ELSE IF e.type = "Joined" THEN c.vmr \cup {e.who}
                    ELSE c.vmr \ {e.who}
<1>1. ChangesCivilianRoom(e) => e.who \in Participants
  BY DEF ChangesCivilianRoom, SentEvents
<1>2. CASE ~ChangesCivilianRoom(e)
  BY <1>2 DEF CivilianRoomAfter, AgreeOn
<1>3. CASE ChangesCivilianRoom(e) /\ e.type = "Joined"
  <2>1. d = [c EXCEPT !.vmr = @ \cup {e.who}]
    BY <1>3 DEF CivilianRoomAfter, AddParticipantToRoom
  <2>2. /\ d \in CachedConference
        /\ d.status = c.status /\ d.countdownComplete = c.countdownComplete
        /\ d.pStatus = c.pStatus /\ d.pRoom = c.pRoom /\ d.eStatus = c.eStatus
        /\ d.vmr = c.vmr \cup {e.who}
    BY <1>1, <1>3, <2>1 DEF CachedConference
  <2> QED BY <1>3, <2>2 DEF AgreeOn
<1>4. CASE ChangesCivilianRoom(e) /\ e.type # "Joined"
  <2>1. d = [c EXCEPT !.vmr = @ \ {e.who}]
    BY <1>4 DEF CivilianRoomAfter, RemoveParticipantFromRoom
  <2>2. /\ d \in CachedConference
        /\ d.status = c.status /\ d.countdownComplete = c.countdownComplete
        /\ d.pStatus = c.pStatus /\ d.pRoom = c.pRoom /\ d.eStatus = c.eStatus
        /\ d.vmr = c.vmr \ {e.who}
    BY <1>1, <1>4, <2>1 DEF CachedConference
  <2> QED BY <1>4, <2>2 DEF AgreeOn
<1> QED BY <1>2, <1>3, <1>4

\* The same for an event that does change it.
LEMMA JoinedCivilianRoom ==
  ASSUME NEW c \in CachedConference, NEW e \in SentEvents,
         ChangesCivilianRoom(e), NEW d, d = CivilianRoomAfter(c, e)
  PROVE  /\ d \in CachedConference /\ d.pStatus = c.pStatus /\ d.pRoom = c.pRoom
         /\ e.type = "Joined" => d.vmr = c.vmr \cup {e.who}
         /\ e.type # "Joined" => d.vmr = c.vmr \ {e.who}
<1>1. d \in CachedConference
  BY CivilianRoomChange
<1>2. d.pStatus = c.pStatus
  BY CivilianRoomChange
<1>3. d.pRoom = c.pRoom
  BY CivilianRoomChange
<1>4. e.type = "Joined" => d.vmr = c.vmr \cup {e.who}
  BY CivilianRoomChange
<1>5. e.type # "Joined" => d.vmr = c.vmr \ {e.who}
  BY CivilianRoomChange
<1> QED BY <1>1, <1>2, <1>3, <1>4, <1>5

\* Whoever is not concerned stays as it was.
LEMMA OthersStay ==
  ASSUME NEW c, NEW a, NEW s, NEW t, Settled(c, a, s), NEW W,
         \A x \in (Parties \cup {Nobody}) \ W :
           /\ x \in Parties => s.where[x] = t.where[x]
           /\ x = Nobody => s.hearing = t.hearing
  PROVE  \A x \in (Parties \cup {Nobody}) \ W :
           Right(c, x, t) /\ RecordRight(a, x, t)
<1> SUFFICES ASSUME NEW x \in (Parties \cup {Nobody}) \ W
             PROVE  Right(c, x, t) /\ RecordRight(a, x, t)
  OBVIOUS
<1>1. Right(c, x, s) /\ RecordRight(a, x, s)
  BY SettledIs
<1> QED BY <1>1, RightStays

\* What is enough: the parties concerned are put right, the others are right.
LEMMA ExpectedFrom ==
  ASSUME NEW c \in CachedConference, NEW a \in CachedConference,
         NEW e \in SentEvents, e.type \notin {"Refresh", "StartConsultation"},
         NEW t, NEW d, d = CivilianRoomAfter(c, e), d.vmr = Here(t),
         RelayIsDue(RelayOf(d, e), e, t),
         \A x \in (Parties \cup {Nobody}) \ Concerned(e, d) :
           Right(c, x, t) /\ RecordRight(a, x, t),
         \A x \in Concerned(e, d) :
           \/ x \in ByRelay(RelayOf(d, e), e)
           \/ /\ Right(Handled(d, CallbackOf(e, x, d)), x, t)
              /\ RecordRight(Record(a, CallbackOf(e, x, d)), x, t)
  PROVE  Expected(c, a, e, t)
<1> DEFINE cbs == Callbacks(e, d)
           but == ByRelay(RelayOf(d, e), e)
<1>1. /\ d \in CachedConference
      /\ \A x : AgreeOn(c, d, x)
  BY CivilianRoomChange
<1>2. /\ OneEach(cbs)
      /\ \A x \in Concerned(e, d) : Concerns(cbs, x)
      /\ \A cb \in cbs : \E x \in Concerned(e, d) :
           cb = CallbackOf(e, x, d) /\ cb.who = x
  <2>1. \A x : CallbackOf(e, x, d).who = x
    BY DEF CallbackOf
  <2> QED BY <1>1, <2>1, CallbacksAre
<1>3. ASSUME NEW x \in Parties \cup {Nobody}
      PROVE  /\ x \in but \/ Concerns(cbs, x) \/ Right(d, x, t)
             /\ x \in but \/ Concerns(cbs, x) \/ RecordRight(a, x, t)
  <2>1. CASE x \in Concerned(e, d)
    BY <1>2, <2>1
  <2>2. CASE x \notin Concerned(e, d)
    <3>1. Right(c, x, t) /\ RecordRight(a, x, t)
      BY <2>2
    <3> QED BY <1>1, <3>1, RightAgrees
  <2> QED BY <2>1, <2>2
<1> HIDE DEF cbs
<1>4. \A cb \in cbs :
        /\ cb.who \in but \/ Right(Handled(d, cb), cb.who, t)
        /\ cb.who \in but \/ RecordRight(Record(a, cb), cb.who, t)
  BY <1>2
<1> HIDE DEF but
<1>5. PublishDue(d, cbs, but, t) /\ RaiseDue(a, cbs, but, t)
  BY <1>2, <1>3, <1>4 DEF PublishDue, RaiseDue
<1>6. but \cup {} = but
  OBVIOUS
<1>7. Underway(d, a, cbs, cbs, RelayOf(d, e), e, {}, t)
  BY <1>5, <1>6 DEF Underway, but
<1> QED BY <1>7 DEF Expected, cbs

\* An event about one party.
LEMMA OneExpected ==
  ASSUME NEW c \in CachedConference, NEW a \in CachedConference,
         NEW e \in SentEvents, e.type \notin {"Refresh", "StartConsultation"},
         e.who \in Parties \cup {Nobody},
         NEW s, NEW t, Settled(c, a, s),
         NEW d, d = CivilianRoomAfter(c, e), d.vmr = Here(t),
         RelayIsDue(RelayOf(d, e), e, t),
         \A x \in (Parties \cup {Nobody}) \ {e.who} :
           /\ x \in Parties => s.where[x] = t.where[x]
           /\ x = Nobody => s.hearing = t.hearing,
         NEW cb, cb = CallbackOf(e, e.who, d),
         \/ RelayOf(d, e) # {}
         \/ Right(Handled(d, cb), e.who, t) /\ RecordRight(Record(a, cb), e.who, t)
  PROVE  Expected(c, a, e, t)
<1>1. e.who # VMR
  BY EventsAssumption DEF Parties
<1>2. Concerned(e, d) = {e.who}
  BY <1>1 DEF Concerned
<1>3. RelayOf(d, e) # {} => e.who \in ByRelay(RelayOf(d, e), e)
  BY DEF ByRelay
<1>4. \A x \in (Parties \cup {Nobody}) \ Concerned(e, d) :
        Right(c, x, t) /\ RecordRight(a, x, t)
  BY <1>2, OthersStay
<1> QED BY <1>2, <1>3, <1>4, ExpectedFrom

\* A party that moves alone.
LEMMA OneMoves ==
  ASSUME NEW s \in ProperWorlds, NEW who \in Parties, NEW place, NEW t,
         t = Placed(s, who, place)
  PROVE  /\ t.hearing = s.hearing /\ t.where[who] = place
         /\ \A x \in Parties \ {who} : t.where[x] = s.where[x]
         /\ \A x \in (Parties \cup {Nobody}) \ {who} :
              /\ x \in Parties => s.where[x] = t.where[x]
              /\ x = Nobody => s.hearing = t.hearing
         /\ Here(t) = IF who \notin Linked THEN Here(s)
                      ELSE IF place = "Out" THEN Here(s) \ {who}
                      ELSE Here(s) \cup {who}
<1>1. /\ s.where \in [Parties -> Locations \cup {"Out"}]
      /\ Linked \subseteq Parties
  BY EventsAssumption DEF ProperWorlds, World, Parties
<1>2. t.hearing = s.hearing /\ t.where = [s.where EXCEPT ![who] = place]
  BY DEF ProperWorlds, World, Placed
<1>3. /\ t.where[who] = place
      /\ \A x \in Parties \ {who} : t.where[x] = s.where[x]
  BY <1>1, <1>2
<1> QED BY <1>1, <1>2, <1>3 DEF Here

\* Places and what they make of a status and a room.
LEMMA Places ==
  /\ RoomAt("Out") = NoRoom /\ RoomAt("WaitingRoom") = NoRoom
  /\ RoomAt("HearingRoom") = NoRoom
  /\ \A to : to \notin Rooms => RoomAt(to) = NoRoom
  /\ \A to \in Locations : to # "Out"
  /\ \A x, to : TransferStatus(x, to) # "Disconnected"
  /\ \A x, to : /\ TransferStatus(x, to) = "InConsultation" <=> to \in Rooms
                /\ TransferStatus(x, to) \in {"InHearing", "InConsultation"}
                     <=> to \in Rooms \cup {"HearingRoom"}
  BY RoomsAssumption DEF RoomAt, IsConsultation, TransferStatus, Locations

\* What is so of a participant and of an endpoint between requests.
LEMMA SettledParty ==
  ASSUME NEW c, NEW a, NEW s, Settled(c, a, s)
  PROVE  /\ c.vmr = Here(s)
         /\ \A p \in Participants :
              /\ c.pRoom[p] = RoomAt(s.where[p]) /\ a.pRoom[p] = RoomAt(s.where[p])
              /\ s.where[p] = "Out" => c.pRoom[p] = NoRoom /\ a.pRoom[p] = NoRoom
              /\ p \notin Linked /\ s.where[p] # "Out" =>
                   c.pStatus[p] = TransferStatus(p, s.where[p])
         /\ \A q \in Here(s) : c.pStatus[q] = "InConsultation" <=> s.where[q] \in Rooms
         /\ c.status = s.hearing.status /\ c.countdownComplete = s.hearing.countdown
<1>1. /\ \A x \in Parties \cup {Nobody} : Right(c, x, s) /\ RecordRight(a, x, s)
      /\ c.vmr = Here(s)
  BY SettledIs
<1>2. ASSUME NEW p \in Participants
      PROVE  /\ c.pRoom[p] = RoomAt(s.where[p]) /\ a.pRoom[p] = RoomAt(s.where[p])
             /\ p \notin Linked /\ s.where[p] # "Out" =>
                  c.pStatus[p] = TransferStatus(p, s.where[p])
    BY <1>1 DEF Parties, Right, RecordRight
<1>3. ASSUME NEW q \in Here(s)
      PROVE  c.pStatus[q] = "InConsultation" <=> s.where[q] \in Rooms
  BY <1>1, EventsAssumption DEF Parties, Right, Here
<1>4. c.status = s.hearing.status /\ c.countdownComplete = s.hearing.countdown
  BY <1>1 DEF Right
<1> QED BY <1>1, <1>2, <1>3, <1>4, Places

\* Somebody arrives who does not share the civilian room ...
LEMMA ArrivalExpected ==
  ASSUME NEW c \in CachedConference, NEW a \in CachedConference,
         NEW e \in SentEvents, NEW s \in ProperWorlds, NEW t, Settled(c, a, s),
         Arrives(s, e, t), e.who \notin Linked
  PROVE  Expected(c, a, e, t)
<1>1. /\ e.type = "Joined" /\ e.who \in Parties /\ ~e.via
      /\ s.where[e.who] = "Out"
      /\ t = Placed(s, e.who, "WaitingRoom")
  BY DEF Arrives
<1>2. /\ t.where[e.who] = "WaitingRoom" /\ Here(t) = Here(s)
      /\ \A x \in (Parties \cup {Nobody}) \ {e.who} :
           /\ x \in Parties => s.where[x] = t.where[x]
           /\ x = Nobody => s.hearing = t.hearing
  BY <1>1, OneMoves
<1> PICK d : d = CivilianRoomAfter(c, e)
  OBVIOUS
<1>3. d = c /\ RelayOf(d, e) = {}
  BY <1>1 DEF CivilianRoomAfter, ChangesCivilianRoom, RelayOf
<1>4. d.vmr = Here(t) /\ RelayIsDue(RelayOf(d, e), e, t)
  BY <1>2, <1>3, SettledParty DEF RelayIsDue
<1> PICK cb : cb = CallbackOf(e, e.who, d)
  OBVIOUS
<1>5. cb \in ProperCallbacks /\ cb.who = e.who /\ cb.type = "Joined"
      /\ cb.status = StatusOf(e, e.who, d)
  <2>1. e.who \in Concerned(e, d)
    BY <1>1, EventsAssumption DEF Concerned, Parties
  <2>2. cb \in ProperCallbacks
    BY <1>1, <1>3, <2>1, CallbacksAre
  <2> QED BY <1>1, <2>2 DEF CallbackOf
<1>6. cb.status = IF e.who \in Endpoints THEN "Connected" ELSE "Available"
  <2>1. e.who # VMR
    BY <1>1, EventsAssumption DEF Parties
  <2> QED BY <1>1, <1>5, <2>1 DEF StatusOf, JoinedStatus
<1>7. cb.status = TransferStatus(e.who, "WaitingRoom")
  BY <1>6, RoomsAssumption DEF TransferStatus, IsConsultation
<1>8. Right(Handled(d, cb), e.who, t) /\ RecordRight(Record(a, cb), e.who, t)
  <2>1. CASE e.who \in Endpoints
    <3>1. Right(Handled(d, cb), cb.who, t) /\ RecordRight(Record(a, cb), cb.who, t)
      BY <1>2, <1>3, <1>5, <1>7, <2>1, EndpointIsRight
    <3> QED BY <1>5, <3>1
  <2>2. CASE e.who \in Participants
    <3>1. c.pRoom[e.who] = NoRoom /\ a.pRoom[e.who] = NoRoom
      BY <1>1, <2>2, SettledParty
    <3>2. cb.status # "Disconnected" /\ RoomAt("WaitingRoom") = NoRoom
      BY <1>6, Places
    <3>3. Right(Handled(d, cb), cb.who, t) /\ RecordRight(Record(a, cb), cb.who, t)
      BY <1>2, <1>3, <1>5, <1>7, <2>2, <3>1, <3>2, ParticipantIsRight
    <3> QED BY <1>5, <3>3
  <2> QED BY <1>1, <2>1, <2>2 DEF Parties
<1> QED BY <1>1, <1>2, <1>4, <1>8, OneExpected

\* ... and somebody who does: unless the others are in a consultation, and then
\* the relay puts the arrival right, the callback does.
LEMMA LinkedArrivalExpected ==
  ASSUME NEW c \in CachedConference, NEW a \in CachedConference,
         NEW e \in SentEvents, NEW s \in ProperWorlds, NEW t, Settled(c, a, s),
         Arrives(s, e, t), e.who \in Linked
  PROVE  Expected(c, a, e, t)
<1> PICK place \in Locations :
      /\ t = Placed(s, e.who, place)
      /\ IF Here(s) # {} THEN \E q \in Here(s) : place = s.where[q]
                         ELSE place = "WaitingRoom"
  BY DEF Arrives
<1>1. /\ e.type = "Joined" /\ e.who \in Parties /\ e.via
      /\ s.where[e.who] = "Out" /\ e.who \in Participants
      /\ place # "Out" /\ e.who \notin Here(s)
  BY EventsAssumption, Places DEF Arrives, Here
<1>2. /\ t.where[e.who] = place /\ Here(t) = Here(s) \cup {e.who}
      /\ \A x \in Parties \ {e.who} : t.where[x] = s.where[x]
      /\ \A x \in (Parties \cup {Nobody}) \ {e.who} :
           /\ x \in Parties => s.where[x] = t.where[x]
           /\ x = Nobody => s.hearing = t.hearing
  BY <1>1, OneMoves
<1> PICK d : d = CivilianRoomAfter(c, e)
  OBVIOUS
<1>3. /\ d \in CachedConference /\ d.pStatus = c.pStatus /\ d.pRoom = c.pRoom
      /\ d.vmr = c.vmr \cup {e.who}
  <2>1. ChangesCivilianRoom(e)
    BY <1>1 DEF ChangesCivilianRoom
  <2> QED BY ONLY <1>1, <2>1, JoinedCivilianRoom, c \in CachedConference,
                  e \in SentEvents, d = CivilianRoomAfter(c, e)
<1>4. /\ c.vmr = Here(s)
      /\ \A q \in Here(s) : c.pStatus[q] = "InConsultation" <=> s.where[q] \in Rooms
      /\ c.pRoom[e.who] = NoRoom /\ a.pRoom[e.who] = NoRoom
  BY <1>1, SettledParty
<1> PICK relay : relay = RelayOf(d, e)
  OBVIOUS
<1>5. relay = {q \in Here(s) : s.where[q] \in Rooms}
  <2>1. relay = {q \in d.vmr \ {e.who} : d.pStatus[q] = "InConsultation"}
    BY <1>1 DEF RelayOf, OthersInConsultation
  <2>2. d.vmr \ {e.who} = Here(s)
    BY <1>1, <1>3, <1>4
  <2> QED BY <1>3, <1>4, <2>1, <2>2
<1>6. d.vmr = Here(t) /\ RelayIsDue(relay, e, t)
  <2>1. ASSUME NEW q \in relay
        PROVE  q \in Here(t) /\ q # e.who /\ t.where[q] \in Rooms
    <3>1. q \in Here(s) /\ q # e.who /\ q \in Parties
      BY <1>1, <1>5, EventsAssumption DEF Here, Parties
    <3> QED BY <1>2, <1>5, <3>1
  <2> QED BY <1>2, <1>3, <1>4, <2>1 DEF RelayIsDue
<1> PICK cb : cb = CallbackOf(e, e.who, d)
  OBVIOUS
<1>7. cb \in ProperCallbacks /\ cb.who = e.who /\ cb.type = "Joined"
      /\ cb.status = StatusOf(e, e.who, d)
  <2>1. e.who \in Concerned(e, d)
    BY <1>1, EventsAssumption DEF Concerned, Parties
  <2>2. cb \in ProperCallbacks
    BY <1>1, <1>3, <2>1, CallbacksAre
  <2> QED BY <1>1, <2>2 DEF CallbackOf
<1>8. ASSUME relay = {}
      PROVE  Right(Handled(d, cb), e.who, t) /\ RecordRight(Record(a, cb), e.who, t)
  <2>1. place \notin Rooms
    BY <1>5, <1>8, RoomsAssumption
  <2>2. cb.status \in {"InHearing", "Available"}
    <3>1. e.who \notin Endpoints
      BY <1>1, PartiesAssumption
    <3>2. OthersInConsultation(d, e.who) = {}
      BY <1>1, <1>8 DEF RelayOf
    <3> QED BY <1>1, <1>7, <3>1, <3>2 DEF StatusOf, JoinedStatus
  <2>3. RoomAt(place) = NoRoom
    BY <2>1, Places
  <2>4. Right(Handled(d, cb), cb.who, t) /\ RecordRight(Record(a, cb), cb.who, t)
    BY <1>1, <1>2, <1>3, <1>4, <1>7, <2>1, <2>2, <2>3, ParticipantIsRight
  <2> QED BY <1>7, <2>4
<1>9. /\ RelayIsDue(RelayOf(d, e), e, t)
      /\ \/ RelayOf(d, e) # {}
         \/ Right(Handled(d, cb), e.who, t) /\ RecordRight(Record(a, cb), e.who, t)
  BY <1>6, <1>8
<1>10. e.type \notin {"Refresh", "StartConsultation"} /\ e.who \in Parties \cup {Nobody}
  BY <1>1
<1> QED
  BY ONLY <1>2, <1>6, <1>9, <1>10, OneExpected, Settled(c, a, s),
          c \in CachedConference, a \in CachedConference, e \in SentEvents,
          d = CivilianRoomAfter(c, e), cb = CallbackOf(e, e.who, d)

\* Somebody is moved.
LEMMA MoveExpected ==
  ASSUME NEW c \in CachedConference, NEW a \in CachedConference,
         NEW e \in SentEvents, NEW s \in ProperWorlds, NEW t, Settled(c, a, s),
         Moves(s, e, t)
  PROVE  Expected(c, a, e, t)
<1>1. /\ e.type = "Transfer" /\ e.who \in Parties /\ e.who \notin Linked /\ ~e.via
      /\ e.to \in Locations /\ t = Placed(s, e.who, e.to)
  BY DEF Moves
<1>2. /\ t.where[e.who] = e.to /\ Here(t) = Here(s)
      /\ \A x \in (Parties \cup {Nobody}) \ {e.who} :
           /\ x \in Parties => s.where[x] = t.where[x]
           /\ x = Nobody => s.hearing = t.hearing
  BY <1>1, OneMoves
<1> PICK d : d = CivilianRoomAfter(c, e)
  OBVIOUS
<1>3. d = c /\ RelayOf(d, e) = {}
  BY <1>1 DEF CivilianRoomAfter, ChangesCivilianRoom, RelayOf
<1>4. d.vmr = Here(t) /\ RelayIsDue(RelayOf(d, e), e, t)
  BY <1>2, <1>3, SettledParty DEF RelayIsDue
<1> PICK cb : cb = CallbackOf(e, e.who, d)
  OBVIOUS
<1>5. /\ cb \in ProperCallbacks /\ cb.who = e.who /\ cb.type = "Transfer"
      /\ cb.to = e.to /\ cb.status = TransferStatus(e.who, e.to)
  <2>1. e.who \in Concerned(e, d)
    BY <1>1, EventsAssumption DEF Concerned, Parties
  <2>2. cb \in ProperCallbacks
    BY <1>1, <1>3, <2>1, CallbacksAre
  <2>3. cb.status = StatusOf(e, e.who, d) /\ cb.who = e.who /\ cb.type = e.type
        /\ cb.to = e.to
    BY DEF CallbackOf
  <2>4. cb.status = TransferStatus(e.who, e.to)
    BY <1>1, <2>3 DEF StatusOf
  <2> QED BY <1>1, <2>2, <2>3, <2>4
<1>6. e.to # "Out" /\ cb.status # "Disconnected"
  BY <1>1, <1>5, Places
<1>7. Right(Handled(d, cb), cb.who, t) /\ RecordRight(Record(a, cb), cb.who, t)
  <2>1. CASE e.who \in Endpoints
    BY <1>2, <1>3, <1>5, <1>6, <2>1, EndpointIsRight
  <2>2. CASE e.who \in Participants
    BY <1>1, <1>2, <1>3, <1>5, <1>6, <2>2, ParticipantIsRight
  <2> QED BY <1>1, <2>1, <2>2 DEF Parties
<1> QED BY <1>1, <1>2, <1>4, <1>5, <1>7, OneExpected

\* The civilian room is moved, or told again where it is: one callback for each
\* who is there.
LEMMA GatherExpected ==
  ASSUME NEW c \in CachedConference, NEW a \in CachedConference,
         NEW e \in SentEvents, e.type = "Transfer", e.who = VMR, ~e.via,
         NEW t, c.vmr = Here(t), \A x \in Here(t) : t.where[x] = e.to,
         \A x \in (Parties \cup {Nobody}) \ Here(t) :
           Right(c, x, t) /\ RecordRight(a, x, t)
  PROVE  Expected(c, a, e, t)
<1> PICK d : d = CivilianRoomAfter(c, e)
  OBVIOUS
<1>1. d = c /\ RelayOf(d, e) = {}
  BY DEF CivilianRoomAfter, ChangesCivilianRoom, RelayOf
<1>2. d.vmr = Here(t) /\ RelayIsDue(RelayOf(d, e), e, t)
  BY <1>1 DEF RelayIsDue
<1>3. Concerned(e, d) = Here(t)
  BY <1>1 DEF Concerned
<1>4. ASSUME NEW x \in Concerned(e, d)
      PROVE  /\ Right(Handled(d, CallbackOf(e, x, d)), x, t)
             /\ RecordRight(Record(a, CallbackOf(e, x, d)), x, t)
  <2>1. x \in Linked /\ x \in Participants /\ t.where[x] = e.to
    BY <1>3, EventsAssumption DEF Here
  <2> PICK cb : cb = CallbackOf(e, x, d)
    OBVIOUS
  <2>2. cb \in ProperCallbacks
    BY <1>1, CallbacksAre
  <2>3. cb.status = StatusOf(e, x, d) /\ cb.who = x /\ cb.type = e.type
        /\ cb.to = e.to
    BY DEF CallbackOf
  <2>4. cb.status = TransferStatus(x, e.to)
    BY <2>3 DEF StatusOf
  <2>5. /\ cb.status # "Disconnected"
        /\ cb.status = "InConsultation" <=> e.to \in Rooms
    BY <2>4, Places
  <2>6. Right(Handled(d, cb), cb.who, t) /\ RecordRight(Record(a, cb), cb.who, t)
    BY <1>1, <2>1, <2>2, <2>3, <2>5, ParticipantIsRight
  <2> QED BY <2>3, <2>6
<1>5. e.type \notin {"Refresh", "StartConsultation"}
  OBVIOUS
<1>6. \A x \in (Parties \cup {Nobody}) \ Concerned(e, d) :
        Right(c, x, t) /\ RecordRight(a, x, t)
  BY <1>3
<1> QED BY <1>2, <1>4, <1>5, <1>6, ExpectedFrom

\* The supplier moves everybody who is in the civilian room.
LEMMA AllMoveExpected ==
  ASSUME NEW c \in CachedConference, NEW a \in CachedConference,
         NEW e \in SentEvents, NEW s \in ProperWorlds, NEW t, Settled(c, a, s),
         AllMove(s, e, t)
  PROVE  Expected(c, a, e, t)
<1>1. /\ e.type = "Transfer" /\ e.who = VMR /\ ~e.via /\ e.to \in Locations
      /\ e.to # "Out"
  BY Places DEF AllMove
<1>2. /\ t.hearing = s.hearing /\ Here(t) = Here(s)
      /\ \A x \in Parties : t.where[x] = IF x \in Here(s) THEN e.to ELSE s.where[x]
      /\ Linked \subseteq Parties
  <2>1. /\ t.hearing = s.hearing
        /\ t.where = [p \in Parties |-> IF p \in Here(s) THEN e.to ELSE s.where[p]]
    BY DEF AllMove, ProperWorlds, World
  <2>2. \A x \in Parties : t.where[x] = IF x \in Here(s) THEN e.to ELSE s.where[x]
    BY <2>1
  <2>3. Linked \subseteq Parties
    BY EventsAssumption DEF Parties
  <2> QED BY <1>1, <2>1, <2>2, <2>3 DEF Here
<1>3. c.vmr = Here(t) /\ \A x \in Here(t) : t.where[x] = e.to
  <2>1. c.vmr = Here(s)
    BY SettledParty
  <2> QED BY <1>2, <2>1 DEF Here
<1>4. \A x \in (Parties \cup {Nobody}) \ Here(t) :
        /\ x \in Parties => s.where[x] = t.where[x]
        /\ x = Nobody => s.hearing = t.hearing
  BY <1>2
<1>5. \A x \in (Parties \cup {Nobody}) \ Here(t) :
        Right(c, x, t) /\ RecordRight(a, x, t)
  BY <1>4, OthersStay
<1> QED BY <1>1, <1>3, <1>5, GatherExpected

\* The callback of an event about one party.
LEMMA OneCallback ==
  ASSUME NEW e \in SentEvents, e.type \notin {"Refresh", "StartConsultation"},
         e.who \in Parties \cup {Nobody}, NEW d \in CachedConference,
         NEW cb, cb = CallbackOf(e, e.who, d)
  PROVE  /\ cb \in ProperCallbacks /\ cb.who = e.who /\ cb.type = e.type
         /\ cb.to = e.to /\ cb.status = StatusOf(e, e.who, d)
<1>1. e.who \in Concerned(e, d)
  BY EventsAssumption DEF Concerned, Parties
<1>2. cb \in ProperCallbacks
  BY <1>1, CallbacksAre
<1>3. cb.who = e.who /\ cb.type = e.type /\ cb.to = e.to
      /\ cb.status = StatusOf(e, e.who, d)
  BY DEF CallbackOf
<1> QED BY <1>2, <1>3

\* Somebody leaves, by whichever of the three callbacks.
LEMMA DepartureExpected ==
  ASSUME NEW c \in CachedConference, NEW a \in CachedConference,
         NEW e \in SentEvents, NEW s \in ProperWorlds, NEW t, Settled(c, a, s),
         Departs(s, e, t)
  PROVE  Expected(c, a, e, t)
<1>1. /\ e.type \in {"Disconnected", "Leave", "LeaveForOtherDevice"}
      /\ e.who \in Parties /\ s.where[e.who] # "Out"
      /\ t = Placed(s, e.who, "Out")
      /\ e.type = "Leave" => e.who \in Participants \ Linked
      /\ e.who \in Linked <=> e.via
      /\ e.via => e.type = "Disconnected"
  BY EventsAssumption DEF Departs, Parties
<1>2. /\ t.where[e.who] = "Out"
      /\ \A x \in (Parties \cup {Nobody}) \ {e.who} :
           /\ x \in Parties => s.where[x] = t.where[x]
           /\ x = Nobody => s.hearing = t.hearing
      /\ Here(t) = IF e.who \in Linked THEN Here(s) \ {e.who} ELSE Here(s)
  BY <1>1, OneMoves
<1> PICK d : d = CivilianRoomAfter(c, e)
  OBVIOUS
<1>3. /\ d \in CachedConference /\ d.pStatus = c.pStatus /\ d.pRoom = c.pRoom
      /\ d.vmr = Here(t)
  <2>1. c.vmr = Here(s)
    BY SettledParty
  <2>2. CASE e.via
    <3>1. ChangesCivilianRoom(e) /\ e.type # "Joined"
      BY <1>1, <2>2 DEF ChangesCivilianRoom
    <3>2. /\ d \in CachedConference /\ d.pStatus = c.pStatus /\ d.pRoom = c.pRoom
          /\ d.vmr = c.vmr \ {e.who}
      BY ONLY <3>1, JoinedCivilianRoom, c \in CachedConference,
              e \in SentEvents, d = CivilianRoomAfter(c, e)
    <3> QED BY <1>1, <1>2, <2>1, <2>2, <3>2
  <2>3. CASE ~e.via
    <3>1. d = c
      BY <2>3 DEF CivilianRoomAfter, ChangesCivilianRoom
    <3> QED BY <1>1, <1>2, <2>1, <2>3, <3>1
  <2> QED BY <2>2, <2>3
<1>4. RelayOf(d, e) = {}
  BY <1>1 DEF RelayOf
<1>5. RelayIsDue(RelayOf(d, e), e, t)
  BY <1>4 DEF RelayIsDue
<1> PICK cb : cb = CallbackOf(e, e.who, d)
  OBVIOUS
<1>6. e.type \notin {"Refresh", "StartConsultation"}
  BY <1>1
<1>7. /\ cb \in ProperCallbacks /\ cb.who = e.who /\ cb.type = e.type
      /\ cb.status = "Disconnected"
  <2>1. /\ cb \in ProperCallbacks /\ cb.who = e.who /\ cb.type = e.type
        /\ cb.status = StatusOf(e, e.who, d)
    BY <1>1, <1>3, <1>6, OneCallback
  <2> QED BY <1>1, <2>1 DEF StatusOf
<1>8. Right(Handled(d, cb), cb.who, t) /\ RecordRight(Record(a, cb), cb.who, t)
  <2>1. CASE e.who \in Endpoints
    BY <1>2, <1>3, <1>7, <2>1, EndpointIsRight
  <2>2. CASE e.who \in Participants /\ e.type # "Leave"
    BY <1>1, <1>2, <1>3, <1>7, <2>2, Places, ParticipantIsRight
  <2>3. CASE e.type = "Leave"
    <3>1. e.who \in Participants /\ e.who \notin Linked /\ e.who \notin Endpoints
          /\ e.who # Nobody /\ e.who \notin Here(t)
      BY <1>1, <2>3, PartiesAssumption, EventsAssumption DEF Here
    <3> PICK h : h = Handled(d, cb)
      OBVIOUS
    <3>2. /\ h.pRoom[e.who] = NoRoom
          /\ h.pStatus[e.who] \notin {"InHearing", "InConsultation"}
      <4>1. CASE LeaveIsIgnored(d, cb)
        <5>1. /\ d.pStatus[e.who] \notin {"InHearing", "InConsultation"}
              /\ h = d
          BY <1>3, <1>7, <3>1, <4>1, HandledParticipant DEF LeaveIsIgnored
        <5>2. /\ c.pRoom[e.who] = RoomAt(s.where[e.who])
              /\ c.pStatus[e.who] = TransferStatus(e.who, s.where[e.who])
          BY <1>1, <3>1, SettledParty
        <5>3. s.where[e.who] \notin Rooms
          BY <1>3, <5>1, <5>2, Places
        <5> QED BY <1>3, <5>1, <5>2, <5>3, Places
      <4>2. CASE ~LeaveIsIgnored(d, cb)
        <5>1. /\ Handled(d, cb).pStatus[cb.who] = cb.status
              /\ Handled(d, cb).pRoom[cb.who] = NoRoom
          BY <1>3, <1>7, <3>1, <4>2, HandledParticipant
        <5> QED BY <1>7, <5>1
      <4> QED BY <4>1, <4>2
    <3>3. Record(a, cb).pRoom[e.who] = NoRoom
      BY <1>7, <3>1, RecordEffect
    <3>4. Right(h, e.who, t)
      BY <1>2, <3>1, <3>2, Places DEF Right
    <3>5. RecordRight(Record(a, cb), e.who, t)
      BY <1>2, <3>3, Places DEF RecordRight
    <3> QED BY <1>7, <3>4, <3>5
  <2> QED BY <1>1, <2>1, <2>2, <2>3 DEF Parties
<1> QED BY <1>1, <1>2, <1>3, <1>5, <1>6, <1>7, <1>8, OneExpected

\* The hearing starts, is interrupted or ends; its countdown ends.
LEMMA HearingExpected ==
  ASSUME NEW c \in CachedConference, NEW a \in CachedConference,
         NEW e \in SentEvents, NEW s \in ProperWorlds, NEW t, Settled(c, a, s),
         Turns(s, e, t) \/ Counts(s, e, t)
  PROVE  Expected(c, a, e, t)
<1>1. /\ e.type \in {"Start", "Pause", "Suspend", "Close", "CountdownFinished"}
      /\ e.who = Nobody /\ ~e.via
      /\ e.type = "Start" => s.hearing.countdown = FALSE
      /\ e.type = "CountdownFinished" => s.hearing.status = "InSession"
  BY DEF Turns, Counts
<1>2. /\ t.where = s.where
      /\ t.hearing.status = IF e.type = "CountdownFinished" THEN "InSession"
                            ELSE ConferenceStatusOf(e.type)
      /\ t.hearing.countdown = (e.type = "CountdownFinished")
  <2> PICK g : /\ t = [s EXCEPT !.hearing = g]
               /\ g = [status |-> IF e.type = "CountdownFinished" THEN "InSession"
                                  ELSE ConferenceStatusOf(e.type),
                       countdown |-> e.type = "CountdownFinished"]
    <3>1. CASE Turns(s, e, t)
      <4>1. e.type # "CountdownFinished"
        BY <3>1 DEF Turns
      <4> QED BY <3>1, <4>1 DEF Turns
    <3>2. CASE Counts(s, e, t)
      BY <3>2 DEF Counts
    <3> QED BY <3>1, <3>2
  <2>1. t.where = s.where /\ t.hearing = g
    BY DEF ProperWorlds, World
  <2> QED BY <2>1
<1> PICK d : d = CivilianRoomAfter(c, e)
  OBVIOUS
<1>3. d = c /\ RelayOf(d, e) = {}
  BY <1>1 DEF CivilianRoomAfter, ChangesCivilianRoom, RelayOf
<1>4. d.vmr = Here(t) /\ RelayIsDue(RelayOf(d, e), e, t)
  BY <1>2, <1>3, SettledParty DEF RelayIsDue, Here
<1> PICK cb : cb = CallbackOf(e, e.who, d)
  OBVIOUS
<1>5. e.type \notin {"Refresh", "StartConsultation"}
      /\ e.who \in Parties \cup {Nobody}
  BY <1>1
<1>6. /\ cb \in ProperCallbacks /\ cb.who = Nobody /\ cb.type = e.type
      /\ cb.status = ConferenceStatusOf(e.type)
  <2>1. /\ cb \in ProperCallbacks /\ cb.who = e.who /\ cb.type = e.type
        /\ cb.status = StatusOf(e, e.who, d)
    BY <1>3, <1>5, OneCallback
  <2> QED BY <1>1, <2>1 DEF StatusOf
<1>7. Right(Handled(d, cb), Nobody, t)
  <2> PICK h : h = Handled(d, cb)
    OBVIOUS
  <2>1. /\ c.status = s.hearing.status /\ c.countdownComplete = s.hearing.countdown
    BY SettledParty
  <2>2. h.status = t.hearing.status /\ h.countdownComplete = t.hearing.countdown
    <3>1. CASE e.type = "CountdownFinished"
      <4>1. h.status = c.status /\ h.countdownComplete = TRUE
        BY ONLY <1>3, <1>6, <3>1, HandledHearing, c \in CachedConference,
                h = Handled(d, cb)
      <4> QED BY <1>1, <1>2, <2>1, <3>1, <4>1
    <3>2. CASE e.type # "CountdownFinished"
      <4>1. /\ h.status = cb.status
            /\ h.countdownComplete = (c.countdownComplete
                 /\ cb.status \notin {"Closed", "Paused", "Suspended"})
        BY <1>3, <1>6, <3>2, HandledHearing
      <4>2. e.type # "Start" => cb.status \in {"Closed", "Paused", "Suspended"}
        BY <1>1, <1>6, <3>2 DEF ConferenceStatusOf
      <4>3. h.countdownComplete = FALSE
        BY <1>1, <2>1, <4>1, <4>2
      <4> QED BY <1>2, <1>6, <3>2, <4>1, <4>3
    <3> QED BY <3>1, <3>2
  <2>3. Nobody \notin Participants \cup Endpoints /\ Nobody \notin Here(t)
    BY EventsAssumption DEF Here
  <2> QED BY <2>2, <2>3 DEF Right
<1>8. RecordRight(Record(a, cb), Nobody, t)
  BY EventsAssumption DEF RecordRight
<1>9. Right(Handled(d, cb), e.who, t) /\ RecordRight(Record(a, cb), e.who, t)
  BY <1>1, <1>7, <1>8
<1>10. \A x \in (Parties \cup {Nobody}) \ {e.who} :
         /\ x \in Parties => s.where[x] = t.where[x]
         /\ x = Nobody => s.hearing = t.hearing
  BY <1>1, <1>2
<1> QED BY <1>4, <1>5, <1>9, <1>10, OneExpected

\* A browser posts a status while its user is out; a consultation is asked for.
LEMMA PostExpected ==
  ASSUME NEW c \in CachedConference, NEW a \in CachedConference,
         NEW e \in SentEvents, NEW s \in ProperWorlds, NEW t, Settled(c, a, s),
         Stays(s, e, t)
  PROVE  Expected(c, a, e, t)
<1>1. CASE e.type = "StartConsultation"
  BY <1>1 DEF Stays, Expected
<1>2. CASE e.type # "StartConsultation"
  <2>1. /\ e.type \in BrowserTypes /\ e.who \in Participants /\ ~e.via
        /\ s.where[e.who] = "Out" /\ t = s
    BY <1>2 DEF Stays
  <2> PICK d : d = CivilianRoomAfter(c, e)
    OBVIOUS
  <2>2. d = c /\ RelayOf(d, e) = {}
    BY <2>1 DEF CivilianRoomAfter, ChangesCivilianRoom, RelayOf
  <2>3. d.vmr = Here(t) /\ RelayIsDue(RelayOf(d, e), e, t)
    BY <2>1, <2>2, SettledParty DEF RelayIsDue
  <2> PICK cb : cb = CallbackOf(e, e.who, d)
    OBVIOUS
  <2>4. e.type \notin {"Refresh", "StartConsultation"}
        /\ e.who \in Parties \cup {Nobody}
    BY <2>1 DEF BrowserTypes, Parties
  <2>5. /\ cb \in ProperCallbacks /\ cb.who = e.who /\ cb.type = e.type
        /\ cb.status \in {"NotSignedIn", "Joining", "Disconnected"}
        /\ cb.type \notin {"Leave", "Transfer"}
    <3>1. /\ cb \in ProperCallbacks /\ cb.who = e.who /\ cb.type = e.type
      BY <2>2, <2>4, OneCallback
    <3> QED BY <2>1, <3>1 DEF ProperCallbacks, BrowserTypes
  <2>6. c.pRoom[e.who] = NoRoom /\ a.pRoom[e.who] = NoRoom
    BY <2>1, SettledParty
  <2>7. Right(Handled(d, cb), cb.who, t) /\ RecordRight(Record(a, cb), cb.who, t)
    BY <2>1, <2>2, <2>5, <2>6, Places, ParticipantIsRight
  <2>8. \A x \in (Parties \cup {Nobody}) \ {e.who} :
         /\ x \in Parties => s.where[x] = t.where[x]
         /\ x = Nobody => s.hearing = t.hearing
    BY <2>1
  <2> QED BY <2>3, <2>4, <2>5, <2>7, <2>8, OneExpected
<1> QED BY <1>1, <1>2

\* Whatever has happened, the request that tells of it is as it should be.
LEMMA RequestExpected ==
  ASSUME NEW c \in CachedConference, NEW a \in CachedConference,
         NEW e \in SentEvents, NEW s \in ProperWorlds, NEW t, Settled(c, a, s),
         Happens(s, e, t)
  PROVE  Expected(c, a, e, t)
  BY ArrivalExpected, LinkedArrivalExpected, MoveExpected, AllMoveExpected,
     DepartureExpected, HearingExpected, PostExpected DEF Happens
-----------------------------------------------------------------------------
(***************************************************************************)
(* The worker's steps: what is due of the request stays due.               *)
(***************************************************************************)
\* When everything has been handled, everything is right.
LEMMA AllHandled ==
  ASSUME NEW c, NEW a, NEW e, NEW s, Underway(c, a, {}, {}, {}, e, {}, s)
  PROVE  Settled(c, a, s)
  BY DEF Underway, Settled, ByRelay, RelayIsDue

\* A request that has read its conference.
LEMMA GotWorking ==
  ASSUME NEW c, NEW a, NEW s, NEW r \in ProperRequests, r.pc \in {"get", "fill"},
         r.conf = c, r.phase # "final", RequestIsDue(r, c, a, s)
  PROVE  Working(Got(r), c, a, s)
<1>1. r \in Request
  BY DEF ProperRequests
<1>2. ASSUME NEW pc \in {"room", "status", "create", "plan"},
             NEW n, n = [r EXCEPT !.pc = pc]
      PROVE  /\ n.pc = pc /\ n.conf = c /\ n.phase = r.phase /\ n.event = r.event
             /\ n.unpublished = r.unpublished /\ n.unraised = r.unraised
             /\ n.relay = r.relay /\ n.current = r.current
  BY <1>1, <1>2 DEF Request
<1>3. CASE r.phase = "handler"
  <2> PICK pc : pc = IF r.current.type = "Transfer" THEN "room" ELSE "status"
    OBVIOUS
  <2> PICK n : n = [r EXCEPT !.pc = pc]
    OBVIOUS
  <2>1. Got(r) = n
    BY <1>3 DEF Got
  <2>2. /\ n.pc = pc /\ n.conf = c /\ n.phase = r.phase /\ n.event = r.event
        /\ n.unpublished = r.unpublished /\ n.unraised = r.unraised
        /\ n.relay = r.relay /\ n.current = r.current
    BY <1>2
  <2>3. HandlerIsDue(r, c, a, s, Handled(c, r.current))
    BY <1>3 DEF RequestIsDue
  <2>4. HandlerIsDue(n, c, a, s, Handled(c, n.current))
    BY <2>2, <2>3 DEF HandlerIsDue
  <2>5. CASE r.current.type = "Transfer"
    BY <1>3, <2>1, <2>2, <2>4, <2>5 DEF Working, RequestIsDue
  <2>6. CASE r.current.type # "Transfer"
    <3>1. Handled(c, n.current) = Finished(c, n.current)
      BY <2>2, <2>6 DEF Handled
    <3> QED BY <1>3, <2>1, <2>2, <2>4, <2>6, <3>1 DEF Working, RequestIsDue
  <2> QED BY <2>5, <2>6
<1>4. CASE r.phase = "controller"
  <2> PICK pc : pc = IF r.event.type = "StartConsultation" THEN "create" ELSE "plan"
    OBVIOUS
  <2> PICK n : n = [r EXCEPT !.pc = pc]
    OBVIOUS
  <2>1. Got(r) = n
    BY <1>4 DEF Got
  <2>2. n.pc = pc /\ n.conf = c /\ n.phase = r.phase /\ n.event = r.event
    BY <1>2
  <2>3. Expected(c, a, n.event, s)
    BY <1>4, <2>2 DEF RequestIsDue
  <2> QED BY <1>4, <2>1, <2>2, <2>3 DEF Working, RequestIsDue
<1> QED BY <1>1, <1>3, <1>4 DEF Request, Phases

\* A request that goes on to its next callback, its relay or its end.
LEMMA FollowingWorking ==
  ASSUME NEW c, NEW a, NEW s, NEW r,
         Underway(c, a, r.unpublished, r.unraised, r.relay, r.event, {}, s),
         NEW n,
         IF Following(r) = "idle" THEN n = Idle
         ELSE /\ n.pc = Following(r) /\ n.phase # "final" /\ n.event = r.event
              /\ n.unpublished = r.unpublished /\ n.unraised = r.unraised
              /\ n.relay = r.relay
  PROVE  Working(n, c, a, s)
<1>1. /\ Following(r) = "idle" =>
           r.unpublished = {} /\ r.unraised = {} /\ r.relay = {}
      /\ Following(r) = "relay" => r.unpublished = {} /\ r.unraised = {}
      /\ Following(r) \in {"raise", "next", "relay", "idle"}
  BY DEF Following
<1>2. CASE Following(r) = "idle"
  <2>1. Settled(c, a, s)
    BY <1>1, <1>2, AllHandled
  <2>2. n.pc = "idle" /\ n.phase = "controller"
    BY <1>2 DEF Idle
  <2> QED BY <2>1, <2>2 DEF Working, RequestIsDue
<1>3. CASE Following(r) # "idle"
  BY <1>1, <1>3 DEF Working, RequestIsDue
<1> QED BY <1>2, <1>3

\* One that goes on after a callback.
LEMMA ContinueWorking ==
  ASSUME TypeInv, NEW w \in Workers, NEW r \in ProperRequests, Continue(w, r),
         NEW c, NEW a, NEW s, r.phase # "final",
         Underway(c, a, r.unpublished, r.unraised, r.relay, r.event, {}, s)
  PROVE  Working(req'[w], c, a, s)
<1> PICK next : next = [r EXCEPT !.pc = Following(r), !.current = NoCallback,
                                 !.conf = NewConference, !.overtaken = FALSE]
  OBVIOUS
<1> PICK n : n = IF Following(r) = "idle" THEN Idle ELSE next
  OBVIOUS
<1>1. /\ next.pc = Following(r) /\ next.phase = r.phase /\ next.event = r.event
      /\ next.unpublished = r.unpublished /\ next.unraised = r.unraised
      /\ next.relay = r.relay
  BY DEF ProperRequests, Request
<1>2. req'[w] = n
  BY DEF Continue, TypeInv
<1>3. IF Following(r) = "idle" THEN n = Idle
      ELSE /\ n.pc = Following(r) /\ n.phase # "final" /\ n.event = r.event
           /\ n.unpublished = r.unpublished /\ n.unraised = r.unraised
           /\ n.relay = r.relay
  BY <1>1
<1>4. Working(n, c, a, s)
  BY ONLY <1>3, FollowingWorking,
          Underway(c, a, r.unpublished, r.unraised, r.relay, r.event, {}, s)
<1> QED BY <1>2, <1>4

\* What is read is a conference.
LEMMA CachedType ==
  ASSUME TypeInv
  PROVE  Cached \in CachedConference /\ (cache # Missing => Cached = cache)
  BY NewConferenceType DEF TypeInv, Cached

\* What is due of a request that reads does not depend on its copy.
LEMMA ReadIsDue ==
  ASSUME NEW c, NEW a, NEW s, NEW r \in Request, NEW n,
         r.pc \in {"get", "fill"}, RequestIsDue(r, c, a, s), r.phase # "final",
         n.pc \in {"get", "fill"}, n.phase = r.phase, n.event = r.event,
         n.unpublished = r.unpublished, n.unraised = r.unraised,
         n.relay = r.relay, n.current = r.current
  PROVE  RequestIsDue(n, c, a, s)
<1>1. CASE r.phase = "handler"
  <2>1. HandlerIsDue(r, c, a, s, Handled(c, r.current))
    BY <1>1 DEF RequestIsDue
  <2>2. HandlerIsDue(n, c, a, s, Handled(c, n.current))
    BY <2>1 DEF HandlerIsDue
  <2> QED BY <1>1, <2>2 DEF RequestIsDue
<1>2. CASE r.phase = "controller"
  BY <1>2 DEF RequestIsDue
<1> QED BY <1>1, <1>2 DEF Request, Phases

\* GetConference reads what the requests before have made of the conference.
LEMMA CacheStepsWorking ==
  ASSUME TypeInv, ListedInv, ~Fault, NEW w \in Workers, NEW s,
         Working(req[w], Cached, api, s), GetHit(w) \/ GetMiss(w) \/ Fill(w)
  PROVE  Working(req[w], Cached, api, s)'
<1> DEFINE r == req[w]
<1>1. /\ w \in Workers /\ r \in ProperRequests /\ r \in Request /\ ~Fault
      /\ r.phase # "final" /\ RequestIsDue(r, Cached, api, s)
  BY DEF TypeInv, ProperRequests, Fault, Working
<1>2. UNCHANGED api
  BY DEF GetHit, GetMiss, Fill, apiVars
<1>4. CASE GetHit(w)
  <2> PICK n : n = [r EXCEPT !.conf = cache, !.overtaken = FALSE]
    OBVIOUS
  <2>1. r.pc = "get" /\ cache # Missing /\ cache = Cached /\ cache \in CachedConference
    BY <1>4, CachedType DEF GetHit, At
  <2>2. /\ n \in Request /\ n.pc = "get" /\ n.conf = Cached
        /\ n.phase = r.phase /\ n.event = r.event
        /\ n.unpublished = r.unpublished /\ n.unraised = r.unraised
        /\ n.relay = r.relay /\ n.current = r.current
    BY <1>1, <2>1 DEF Request
  <2>3. n \in ProperRequests
    BY <1>1, <2>1, <2>2 DEF ProperRequests, HandlerSteps
  <2>7. RequestIsDue(n, Cached, api, s)
    BY ONLY <1>1, <2>1, <2>2, ReadIsDue
  <2>4. req'[w] = Got(n) /\ UNCHANGED cache
    BY <1>1, <1>4 DEF GetHit, TypeInv
  <2>5. Working(Got(n), Cached, api, s)
    BY <1>1, <2>2, <2>3, <2>7, GotWorking
  <2>6. Cached' = Cached
    BY <2>4 DEF Cached
  <2> QED BY <1>2, <2>4, <2>5, <2>6
<1>5. CASE GetMiss(w)
  <2> PICK n : n = [r EXCEPT !.pc = "fill", !.overtaken = FALSE,
                             !.conf = MapConferenceToCacheModel(api)]
    OBVIOUS
  <2>1. r.pc = "get" /\ cache = Missing /\ UNCHANGED cache /\ req'[w] = n
    BY <1>1, <1>5 DEF GetMiss, At, TypeInv
  <2>2. MapConferenceToCacheModel(api) = Cached /\ Cached \in CachedConference
    <3>1. api = NewConference /\ Cached = NewConference
      BY <2>1 DEF ListedInv, Cached
    <3>2. MapConferenceToCacheModel(NewConference) = NewConference
      <4> PICK m : m = MapConferenceToCacheModel(NewConference)
        OBVIOUS
      <4>1. /\ m \in CachedConference
            /\ m.status = NewConference.status /\ m.rooms = NewConference.rooms
            /\ m.countdownComplete = NewConference.countdownComplete
            /\ m.pStatus = NewConference.pStatus /\ m.pRoom = NewConference.pRoom
            /\ m.eStatus = NewConference.eStatus /\ m.eRoom = NewConference.eRoom
            /\ m.vmr = NewConference.vmr
        <5>1. NewConference.rooms = {} /\ NewConference.countdownComplete = FALSE
          BY DEF NewConference
        <5> QED BY <5>1, NewConferenceType
                DEF MapConferenceToCacheModel, CachedConference
      <4> QED BY <4>1, NewConferenceType DEF CachedConference
    <3> QED BY <3>1, <3>2, NewConferenceType
  <2>3. /\ n.pc = "fill" /\ n.conf = Cached
        /\ n.phase = r.phase /\ n.event = r.event
        /\ n.unpublished = r.unpublished /\ n.unraised = r.unraised
        /\ n.relay = r.relay /\ n.current = r.current
    BY <1>1, <2>2 DEF Request
  <2>6. RequestIsDue(n, Cached, api, s)
    BY ONLY <1>1, <2>1, <2>3, ReadIsDue
  <2>4. Working(n, Cached, api, s)
    BY <1>1, <2>3, <2>6 DEF Working
  <2>5. Cached' = Cached
    BY <2>1 DEF Cached
  <2> QED BY <1>2, <2>1, <2>4, <2>5
<1>6. CASE Fill(w)
  <2>1. /\ r.pc = "fill" /\ r.conf = Cached /\ r.conf \in CachedConference
        /\ WriteToCache(w, r.conf, Got(r))
    BY <1>1, <1>6 DEF Fill, At, Working, Request
  <2>2. Got(r) \in ProperRequests
    BY <1>1, <2>1, GotType
  <2>3. cache' = r.conf /\ req'[w] = Got(r) /\ r.conf # Missing
    BY <1>1, <2>1, <2>2, WriteSucceeds, EventsAssumption
  <2>4. Cached' = Cached
    BY <2>1, <2>3 DEF Cached
  <2>5. Working(Got(r), Cached, api, s)
    BY <1>1, <2>1, GotWorking
  <2> QED BY <1>2, <2>3, <2>4, <2>5
<1> QED BY <1>4, <1>5, <1>6

\* The controller builds the callbacks and writes who is in the civilian room.
LEMMA PlanWorking ==
  ASSUME TypeInv, ListedInv, ~Fault, NEW w \in Workers, NEW s,
         Working(req[w], Cached, api, s), Plan(w)
  PROVE  Working(req[w], Cached, api, s)'
<1> PICK r : r = req[w]
  OBVIOUS
<1>1. /\ w \in Workers /\ r \in ProperRequests /\ r \in Request
      /\ r.pc = "plan" /\ UNCHANGED api /\ cache # Missing /\ cache = Cached
      /\ r.event \in SentEvents /\ r.event.type \notin {"Refresh", "StartConsultation"}
      /\ r.phase # "final"
  BY CachedType DEF TypeInv, ListedInv, ListedRequest, ProperRequests, Plan, At,
                    apiVars, Working
<1>2. r.conf = cache /\ Expected(cache, api, r.event, s)
  BY <1>1 DEF Working, RequestIsDue
<1> PICK d : d = CivilianRoomAfter(r.conf, r.event)
  OBVIOUS
<1> PICK p : p = Planned(r)
  OBVIOUS
<1> PICK n : n = Ready(p)
  OBVIOUS
<1>3. d \in CachedConference /\ p \in Request /\ n \in ProperRequests /\ d # Missing
  BY <1>1, PlannedType, EventsAssumption
<1>4. /\ p.unraised = Callbacks(r.event, d) /\ p.unpublished = Callbacks(r.event, d)
      /\ p.relay = RelayOf(d, r.event) /\ p.event = r.event /\ p.phase = r.phase
  BY <1>1 DEF Planned, Request, RelayOf
<1>5. Underway(d, api, p.unpublished, p.unraised, p.relay, p.event, {}, s)
  <2>1. Underway(d, api, Callbacks(r.event, d), Callbacks(r.event, d),
                 RelayOf(d, r.event), r.event, {}, s)
    BY <1>1, <1>2 DEF Expected
  <2> QED BY ONLY <1>4, <2>1
<1>6. IF Following(p) = "idle" THEN n = Idle
      ELSE /\ n.pc = Following(p) /\ n.phase # "final" /\ n.event = p.event
           /\ n.unpublished = p.unpublished /\ n.unraised = p.unraised
           /\ n.relay = p.relay
  BY <1>1, <1>3, <1>4 DEF Ready, Request
<1>7. Working(n, d, api, s)
  BY ONLY <1>5, <1>6, FollowingWorking
<1>8. cache' = d /\ req'[w] = n
  <2>1. CASE ChangesCivilianRoom(r.event)
    <3>1. WriteToCache(w, d, n)
      BY <2>1 DEF Plan
    <3> QED BY ONLY <1>1, <1>3, <3>1, WriteSucceeds, TypeInv, ~Fault
  <2>2. CASE ~ChangesCivilianRoom(r.event)
    <3>1. d = cache
      BY <1>2, <2>2 DEF CivilianRoomAfter
    <3> QED BY <1>1, <2>2, <3>1 DEF Plan, TypeInv
  <2> QED BY <2>1, <2>2
<1>9. Cached' = d
  BY <1>3, <1>8 DEF Cached
<1> QED BY <1>1, <1>7, <1>8, <1>9

\* The Video API accepts a callback.
LEMMA RaiseWorking ==
  ASSUME TypeInv, NEW w \in Workers, NEW s,
         Working(req[w], Cached, api, s), Raise(w)
  PROVE  Working(req[w], Cached, api, s)'
<1> PICK r : r = req[w]
  OBVIOUS
<1> PICK cb \in r.unraised :
      api' = Record(api, cb) /\ Continue(w, [r EXCEPT !.unraised = @ \ {cb}])
  BY DEF Raise
<1> PICK n : n = [r EXCEPT !.unraised = @ \ {cb}]
  OBVIOUS
<1>1. /\ w \in Workers /\ r \in ProperRequests /\ r \in Request
      /\ r.pc = "raise" /\ UNCHANGED cache /\ r.phase # "final"
      /\ r.unraised \in SUBSET ProperCallbacks /\ api \in CachedConference
  BY DEF TypeInv, ProperRequests, Raise, At, Working
<1>2. Underway(Cached, api, r.unpublished, r.unraised, r.relay, r.event, {}, s)
  BY <1>1 DEF Working, RequestIsDue
<1>3. /\ n \in ProperRequests /\ n.unraised = r.unraised \ {cb}
      /\ n.unpublished = r.unpublished /\ n.relay = r.relay /\ n.event = r.event
      /\ n.phase # "final"
  BY <1>1 DEF ProperRequests, Request
<1>4. RaiseDue(api', n.unraised, ByRelay(n.relay, n.event), s)
  <2>1. RaiseDue(api, r.unraised, ByRelay(r.relay, r.event), s)
    BY <1>2 DEF Underway
  <2>2. RaiseDue(Record(api, cb), r.unraised \ {cb}, ByRelay(r.relay, r.event), s)
    BY ONLY <1>1, <2>1, cb \in r.unraised, RaiseDueAfter
  <2> QED BY <1>3, <2>2
<1>5. Underway(Cached, api', n.unpublished, n.unraised, n.relay, n.event, {}, s)
  BY <1>2, <1>3, <1>4 DEF Underway
<1>6. Continue(w, n)
  OBVIOUS
<1>7. Working(req'[w], Cached, api', s)
  BY ONLY <1>1, <1>3, <1>5, <1>6, TypeInv, ContinueWorking
<1> QED BY <1>1, <1>7 DEF Cached

\* The next callback is taken up.
LEMMA NextWorking ==
  ASSUME TypeInv, NEW w \in Workers, NEW s,
         Working(req[w], Cached, api, s), NextCallback(w)
  PROVE  Working(req[w], Cached, api, s)'
<1> PICK r : r = req[w]
  OBVIOUS
<1> PICK cb \in r.unpublished :
      req' = [req EXCEPT ![w].pc = "get", ![w].phase = "handler",
                         ![w].current = cb, ![w].unpublished = @ \ {cb}]
  BY DEF NextCallback
<1> PICK n : n = req'[w]
  OBVIOUS
<1>1. /\ w \in Workers /\ r \in ProperRequests /\ r \in Request
      /\ r.pc = "next" /\ UNCHANGED <<cache, api>> /\ r.phase # "final"
      /\ r.unpublished \in SUBSET ProperCallbacks
  BY DEF TypeInv, ProperRequests, NextCallback, At, Working, apiVars
<1>2. Underway(Cached, api, r.unpublished, r.unraised, r.relay, r.event, {}, s)
  BY <1>1 DEF Working, RequestIsDue
<1>3. /\ n.pc = "get" /\ n.phase = "handler" /\ n.current = cb
      /\ n.unpublished = r.unpublished \ {cb} /\ n.unraised = r.unraised
      /\ n.relay = r.relay /\ n.event = r.event
  BY <1>1 DEF TypeInv, Request
<1> PICK but : but = ByRelay(r.relay, r.event)
  OBVIOUS
<1>4. PublishDue(Cached, r.unpublished, but, s)
  <2>1. but \cup {} = but
    OBVIOUS
  <2> QED BY <1>2, <2>1 DEF Underway
<1>5. PublishDue(Cached, n.unpublished, but \cup {cb.who}, s)
  <2>1. OneEach(r.unpublished \ {cb})
    BY <1>4 DEF PublishDue, OneEach
  <2>2. \A x \in Parties \cup {Nobody} :
          \/ x \in but \cup {cb.who} \/ Concerns(r.unpublished \ {cb}, x)
          \/ Right(Cached, x, s)
    BY <1>4 DEF PublishDue, Concerns
  <2>3. \A b \in r.unpublished \ {cb} :
          b.who \in but \cup {cb.who} \/ Right(Handled(Cached, b), b.who, s)
    BY <1>4 DEF PublishDue
  <2> QED BY ONLY <1>3, <2>1, <2>2, <2>3 DEF PublishDue
<1>6. ~Concerns(n.unpublished, cb.who)
  BY <1>3, <1>4 DEF Concerns, PublishDue, OneEach
<1>7. cb.who \in but \/ Right(Handled(Cached, cb), cb.who, s)
  BY <1>4 DEF PublishDue
<1>8. HandlerIsDue(n, Cached, api, s, Handled(Cached, n.current))
  <2>1. Underway(Cached, api, n.unpublished, n.unraised, n.relay, n.event,
                 {n.current.who}, s)
    BY <1>2, <1>3, <1>5 DEF Underway
  <2> QED BY <1>3, <1>6, <1>7, <2>1 DEF HandlerIsDue
<1>9. Working(n, Cached, api, s)
  BY <1>3, <1>8 DEF Working, RequestIsDue
<1> QED BY <1>1, <1>9 DEF Cached

\* What is due beside the callback that has been handled.
LEMMA HandlerDone ==
  ASSUME NEW c \in CachedConference, NEW d \in CachedConference, NEW a, NEW s,
         NEW r \in ProperRequests, r.pc \in HandlerSteps,
         NEW result, HandlerIsDue(r, c, a, s, result),
         SameBut(c, d, r.current.who), AgreeOn(d, result, r.current.who)
  PROVE  Underway(d, a, r.unpublished, r.unraised, r.relay, r.event, {}, s)
<1> PICK but : but = ByRelay(r.relay, r.event)
  OBVIOUS
<1> PICK who : who = r.current.who
  OBVIOUS
<1>1. /\ ~Concerns(r.unpublished, who)
      /\ c.vmr = Here(s) /\ PublishDue(c, r.unpublished, but \cup {who}, s)
      /\ RaiseDue(a, r.unraised, but, s) /\ RelayIsDue(r.relay, r.event, s)
      /\ who \in but \/ Right(result, who, s)
  BY DEF HandlerIsDue, Underway
<1>2. r.unpublished \in SUBSET ProperCallbacks /\ who \in Parties \cup {Nobody}
  BY DEF ProperRequests, ProperCallbacks, Callback
<1>3. who \in but \/ Right(d, who, s)
  BY <1>1, RightAgrees
<1>4. SameBut(c, d, who)
  OBVIOUS
<1>5. PublishDue(d, r.unpublished, but, s)
  BY ONLY <1>1, <1>2, <1>3, <1>4, PublishDueAfter, c \in CachedConference,
          d \in CachedConference
<1>6. d.vmr = Here(s) /\ but \cup {} = but
  BY <1>1, <1>4 DEF SameBut
<1> QED BY <1>1, <1>5, <1>6 DEF Underway

\* The move is shown, then written.
LEMMA RoomWorking ==
  ASSUME TypeInv, ListedInv, ~Fault, NEW w \in Workers, NEW s,
         Working(req[w], Cached, api, s),
         PublishRoomTransfer(w) \/ UpdateConsultationRoom(w)
  PROVE  Working(req[w], Cached, api, s)'
<1> PICK r : r = req[w]
  OBVIOUS
<1>1. /\ w \in Workers /\ r \in ProperRequests /\ r \in Request
      /\ r.pc \in {"room", "writeRoom"} /\ UNCHANGED api
      /\ cache # Missing /\ cache = Cached /\ cache \in CachedConference
      /\ r.phase # "final"
  BY CachedType DEF TypeInv, ListedInv, ListedRequest, ProperRequests,
                    PublishRoomTransfer, UpdateConsultationRoom, At, apiVars, Working
<1>2. /\ r.conf = cache /\ r.current.type = "Transfer"
      /\ HandlerIsDue(r, cache, api, s, Handled(cache, r.current))
  BY <1>1 DEF Working, RequestIsDue
<1>3. CASE PublishRoomTransfer(w)
  <2> PICK n : n = [r EXCEPT !.pc = "writeRoom"]
    OBVIOUS
  <2>1. req'[w] = n /\ UNCHANGED cache
    BY <1>1, <1>3 DEF PublishRoomTransfer, TypeInv
  <2>2. /\ n.pc = "writeRoom" /\ n.conf = r.conf /\ n.phase = r.phase
        /\ n.event = r.event /\ n.unpublished = r.unpublished
        /\ n.unraised = r.unraised /\ n.relay = r.relay /\ n.current = r.current
    BY <1>1 DEF Request
  <2>3. HandlerIsDue(n, cache, api, s, Handled(cache, n.current))
    BY <1>2, <2>2 DEF HandlerIsDue
  <2>4. Working(n, cache, api, s)
    BY <1>1, <1>2, <2>2, <2>3 DEF Working, RequestIsDue
  <2>5. Cached' = cache
    BY <1>1, <2>1 DEF Cached
  <2> QED BY <1>1, <2>1, <2>4, <2>5
<1>4. CASE UpdateConsultationRoom(w)
  <2> PICK d : d = MoveRoom(cache, r.current)
    OBVIOUS
  <2> PICK n : n = [r EXCEPT !.pc = "status", !.conf = d]
    OBVIOUS
  <2>1. r.pc = "writeRoom" /\ r.current \in ProperCallbacks
    BY <1>1, <1>4 DEF UpdateConsultationRoom, At, HandlerSteps, ProperRequests
  <2>2. d \in CachedConference /\ d # Missing /\ SameBut(cache, d, r.current.who)
    BY <1>1, <2>1, HandlerType, HandlerChangesOnly, EventsAssumption
  <2>3. /\ n \in Request /\ n.pc = "status" /\ n.conf = d /\ n.phase = r.phase
        /\ n.event = r.event /\ n.unpublished = r.unpublished
        /\ n.unraised = r.unraised /\ n.relay = r.relay /\ n.current = r.current
    BY <1>1, <2>2 DEF Request, Steps
  <2>4. n \in ProperRequests
    BY <1>1, <2>1, <2>3 DEF ProperRequests, HandlerSteps
  <2>5. WriteToCache(w, d, n)
    BY <1>2, <1>4 DEF UpdateConsultationRoom
  <2>6. cache' = d /\ req'[w] = n
    BY ONLY <1>1, <2>4, <2>5, WriteSucceeds, TypeInv, ~Fault
  <2>7. HandlerIsDue(n, d, api, s, Finished(d, n.current))
    <3> PICK but : but = ByRelay(r.relay, r.event)
      OBVIOUS
    <3> PICK who : who = r.current.who
      OBVIOUS
    <3>1. /\ ~Concerns(r.unpublished, who)
          /\ cache.vmr = Here(s)
          /\ PublishDue(cache, r.unpublished, but \cup {who}, s)
          /\ RaiseDue(api, r.unraised, but, s) /\ RelayIsDue(r.relay, r.event, s)
          /\ who \in but \/ Right(Handled(cache, r.current), who, s)
      BY <1>2 DEF HandlerIsDue, Underway
    <3>2. r.unpublished \in SUBSET ProperCallbacks /\ who \in Parties \cup {Nobody}
      BY <1>1, <2>1 DEF ProperRequests, ProperCallbacks, Callback
    <3>3. PublishDue(cache, r.unpublished, (but \cup {who}) \cup {who}, s)
      <4>1. (but \cup {who}) \cup {who} = but \cup {who}
        OBVIOUS
      <4> QED BY <3>1, <4>1
    <3>4. who \in but \cup {who} \/ Right(d, who, s)
      OBVIOUS
    <3>5. SameBut(cache, d, who)
      BY <2>2
    <3>6. PublishDue(d, r.unpublished, but \cup {who}, s)
      BY ONLY <1>1, <2>2, <3>1, <3>2, <3>3, <3>4, <3>5, PublishDueAfter
    <3>7. Handled(cache, r.current) = Finished(d, r.current)
      BY <1>2 DEF Handled
    <3>8. d.vmr = Here(s)
      BY <3>1, <3>5 DEF SameBut
    <3> QED BY <2>3, <3>1, <3>6, <3>7, <3>8 DEF HandlerIsDue, Underway
  <2>8. Working(n, d, api, s)
    BY <1>1, <2>3, <2>7 DEF Working, RequestIsDue
  <2>9. Cached' = d
    BY <2>2, <2>6 DEF Cached
  <2> QED BY <1>1, <2>6, <2>8, <2>9
<1> QED BY <1>3, <1>4

\* The status is written, or the callback is found to change none.
LEMMA StatusWorking ==
  ASSUME TypeInv, ListedInv, ~Fault, NEW w \in Workers, NEW s,
         Working(req[w], Cached, api, s), UpdateStatus(w) \/ IgnoreLeave(w)
  PROVE  Working(req[w], Cached, api, s)'
<1> PICK r : r = req[w]
  OBVIOUS
<1>1. /\ w \in Workers /\ r \in ProperRequests /\ r \in Request
      /\ r.pc = "status" /\ r.pc \in HandlerSteps /\ UNCHANGED api
      /\ cache # Missing /\ cache = Cached /\ cache \in CachedConference
      /\ r.phase # "final" /\ r.current \in ProperCallbacks
  BY CachedType DEF TypeInv, ListedInv, ListedRequest, ProperRequests, HandlerSteps,
                    UpdateStatus, IgnoreLeave, At, apiVars, Working
<1>2. /\ r.conf = cache
      /\ HandlerIsDue(r, cache, api, s, Finished(cache, r.current))
  BY <1>1 DEF Working, RequestIsDue
<1>3. \A c, x : AgreeOn(c, c, x)
  BY DEF AgreeOn
<1>4. CASE UpdateStatus(w)
  <2> PICK d : d = SetStatus(cache, r.current)
    OBVIOUS
  <2> PICK n : n = [r EXCEPT !.pc = "publish", !.conf = d]
    OBVIOUS
  <2>1. d \in CachedConference /\ d # Missing /\ SameBut(cache, d, r.current.who)
    BY <1>1, HandlerType, HandlerChangesOnly, EventsAssumption
  <2>2. /\ n \in Request /\ n.pc = "publish" /\ n.phase = r.phase
        /\ n.event = r.event /\ n.unpublished = r.unpublished
        /\ n.unraised = r.unraised /\ n.relay = r.relay /\ n.current = r.current
    BY <1>1, <2>1 DEF Request, Steps
  <2>3. n \in ProperRequests
    BY <1>1, <2>2 DEF ProperRequests, HandlerSteps
  <2>4. WriteToCache(w, d, n) /\ ~LeaveIsIgnored(cache, r.current)
    BY <1>2, <1>4 DEF UpdateStatus
  <2>5. cache' = d /\ req'[w] = n
    BY ONLY <1>1, <2>3, <2>4, WriteSucceeds, TypeInv, ~Fault
  <2>6. Finished(cache, r.current) = d
    BY <2>4 DEF Finished
  <2>7. AgreeOn(d, Finished(cache, r.current), r.current.who)
    BY <1>3, <2>6
  <2>8. Underway(d, api, r.unpublished, r.unraised, r.relay, r.event, {}, s)
    BY ONLY <1>1, <1>2, <2>1, <2>7, HandlerDone
  <2>9. Underway(d, api, n.unpublished, n.unraised, n.relay, n.event, {}, s)
    BY ONLY <2>2, <2>8
  <2>10. Working(n, d, api, s)
    BY <1>1, <2>2, <2>9 DEF Working, RequestIsDue
  <2>11. Cached' = d
    BY <2>1, <2>5 DEF Cached
  <2> QED BY <1>1, <2>5, <2>10, <2>11
<1>5. CASE IgnoreLeave(w)
  <2>1. Continue(w, r) /\ UNCHANGED cache /\ LeaveIsIgnored(cache, r.current)
    BY <1>2, <1>5 DEF IgnoreLeave
  <2>2. AgreeOn(cache, Finished(cache, r.current), r.current.who)
        /\ SameBut(cache, cache, r.current.who)
    BY <1>3, <2>1 DEF Finished, SameBut
  <2>3. Underway(cache, api, r.unpublished, r.unraised, r.relay, r.event, {}, s)
    BY ONLY <1>1, <1>2, <2>2, HandlerDone
  <2>4. Working(req'[w], cache, api, s)
    BY ONLY <1>1, <2>1, <2>3, TypeInv, ContinueWorking
  <2>5. Cached' = cache
    BY <1>1, <2>1 DEF Cached
  <2> QED BY <1>1, <2>4, <2>5
<1> QED BY <1>4, <1>5

\* The status is shown.
LEMMA PublishWorking ==
  ASSUME TypeInv, NEW w \in Workers, NEW s,
         Working(req[w], Cached, api, s), PublishStatus(w)
  PROVE  Working(req[w], Cached, api, s)'
<1> PICK r : r = req[w]
  OBVIOUS
<1>1. /\ w \in Workers /\ r \in ProperRequests /\ r.pc = "publish"
      /\ UNCHANGED <<cache, api>> /\ r.phase # "final" /\ Continue(w, r)
  BY DEF TypeInv, PublishStatus, At, Working, apiVars
<1>2. Underway(Cached, api, r.unpublished, r.unraised, r.relay, r.event, {}, s)
  BY <1>1 DEF Working, RequestIsDue
<1>3. Working(req'[w], Cached, api, s)
  BY ONLY <1>1, <1>2, TypeInv, ContinueWorking
<1> QED BY <1>1, <1>3 DEF Cached

\* The whole civilian room is transferred to where its others are.
LEMMA RelayWorking ==
  ASSUME TypeInv, NEW w \in Workers, NEW s \in ProperWorlds,
         Working(req[w], Cached, api, s), Relay(w)
  PROVE  Working(req[w], Cached, api, s)'
<1> PICK r : r = req[w]
  OBVIOUS
<1>1. /\ w \in Workers /\ r \in ProperRequests /\ r \in Request
      /\ r.pc = "relay" /\ UNCHANGED <<cache, api>>
      /\ r.unpublished = {} /\ r.unraised = {} /\ api \in CachedConference
      /\ Cached \in CachedConference
  BY CachedType DEF TypeInv, ProperRequests, Relay, At, Working, RequestIsDue, apiVars
<1>2. Underway(Cached, api, {}, {}, r.relay, r.event, {}, s)
  BY <1>1 DEF Working, RequestIsDue
<1> PICK p \in r.relay :
      req' = [req EXCEPT
                ![w] = IF api.pRoom[p] = NoRoom THEN Idle
                       ELSE [Idle EXCEPT
                               !.pc = "get",
                               !.event = Transfer(VMR, "WaitingRoom", api.pRoom[p])]]
  BY DEF Relay
<1> PICK who : who = r.event.who
  OBVIOUS
<1>3. /\ p \in Here(s) /\ p # who /\ s.where[p] \in Rooms /\ who \in Here(s)
      /\ ByRelay(r.relay, r.event) = {who}
  BY <1>2 DEF Underway, RelayIsDue, ByRelay
<1>4. /\ Cached.vmr = Here(s)
      /\ \A x \in (Parties \cup {Nobody}) \ {who} :
           Right(Cached, x, s) /\ RecordRight(api, x, s)
  BY <1>2, <1>3 DEF Underway, PublishDue, RaiseDue, Concerns
<1>5. p \in Participants /\ p \in Parties
  BY <1>3, EventsAssumption DEF Here, Parties
<1>6. api.pRoom[p] = s.where[p] /\ api.pRoom[p] # NoRoom /\ api.pRoom[p] \in Locations
  BY <1>3, <1>4, <1>5, RoomsAssumption DEF RecordRight, RoomAt, IsConsultation, Locations
<1> PICK e : e = Transfer(VMR, "WaitingRoom", api.pRoom[p])
  OBVIOUS
<1>7. e \in SentEvents /\ e.type = "Transfer" /\ e.who = VMR /\ ~e.via
      /\ e.to = api.pRoom[p]
  <2>1. e \in SentEvents
    BY <1>6, TransferSent DEF Locations
  <2> QED BY <2>1 DEF Transfer, Simple
<1>8. \A x \in Here(s) : s.where[x] = e.to
  BY <1>3, <1>6, <1>7 DEF ProperWorlds
<1>9. \A x \in (Parties \cup {Nobody}) \ Here(s) :
        Right(Cached, x, s) /\ RecordRight(api, x, s)
  BY <1>3, <1>4
<1>10. Expected(Cached, api, e, s)
  BY ONLY <1>1, <1>4, <1>7, <1>8, <1>9, GatherExpected
<1> PICK n : n = [Idle EXCEPT !.pc = "get", !.event = e]
  OBVIOUS
<1>11. n.pc = "get" /\ n.phase = "controller" /\ n.event = e
  BY DEF Idle
<1>12. req'[w] = n
  BY <1>1, <1>6 DEF TypeInv
<1>13. Working(n, Cached, api, s)
  BY <1>10, <1>11 DEF Working, RequestIsDue
<1> QED BY <1>1, <1>12, <1>13 DEF Cached

\* A started consultation lists its room, and leaves everything else as it is.
LEMMA CreateWorking ==
  ASSUME TypeInv, ListedInv, ~Fault, NEW w \in Workers, NEW s,
         Working(req[w], Cached, api, s), CreateConsultation(w)
  PROVE  Working(req[w], Cached, api, s)'
<1> PICK r : r = req[w]
  OBVIOUS
<1>1. /\ w \in Workers /\ r \in ProperRequests /\ r \in Request
      /\ r.pc = "create" /\ UNCHANGED api /\ r.event \in SentEvents
      /\ r.event.type = "StartConsultation"
      /\ cache # Missing /\ cache = Cached /\ cache \in CachedConference
  BY CachedType DEF TypeInv, ListedInv, ListedRequest, ProperRequests,
                    CreateConsultation, At, apiVars
<1>2. r.conf = cache /\ Settled(cache, api, s)
  BY <1>1 DEF Working, RequestIsDue, Expected
<1> PICK d : d = UpsertConsultationRoom(cache, r.event.to)
  OBVIOUS
<1>3. d \in CachedConference /\ d # Missing
  BY <1>1, CivilianRoomType, EventsAssumption DEF SentEvents
<1>4. d.vmr = cache.vmr /\ \A x : AgreeOn(cache, d, x)
  BY <1>1 DEF UpsertConsultationRoom, AgreeOn, CachedConference
<1>5. WriteToCache(w, d, Idle)
  BY <1>2 DEF CreateConsultation
<1>6. cache' = d /\ req'[w] = Idle
  BY ONLY <1>1, <1>5, IdleType, WriteSucceeds, TypeInv, ~Fault
<1>7. Settled(d, api, s)
  <2>1. /\ cache.vmr = Here(s)
        /\ \A x \in Parties \cup {Nobody} : Right(cache, x, s) /\ RecordRight(api, x, s)
    BY <1>2, SettledIs
  <2>2. \A x \in Parties \cup {Nobody} : Right(d, x, s)
    BY <1>4, <2>1, RightAgrees
  <2> QED BY <1>4, <2>1, <2>2, SettledIs
<1>8. Idle.pc = "idle" /\ Idle.phase = "controller"
  BY DEF Idle
<1>9. Working(Idle, d, api, s)
  BY <1>7, <1>8 DEF Working, RequestIsDue
<1>10. Cached' = d
  BY <1>3, <1>6 DEF Cached
<1> QED BY <1>1, <1>6, <1>9, <1>10

\* Every step of the worker but the one that takes up a request.
LEMMA StepsWorking ==
  ASSUME TypeInv, ListedInv, ~Fault, NEW w \in Workers,
         NEW s \in ProperWorlds, Working(req[w], Cached, api, s),
         Handle(w), ~\E i \in 1..Len(net) : Receive(w, i)
  PROVE  Working(req[w], Cached, api, s)'
<1>1. ~Fault /\ w \in Workers /\ req[w].pc \notin {"force", "add"}
  BY DEF Fault, TypeInv, ListedInv, ListedRequest
<1>2. ~RaiseFails(w) /\ ~ReadFails(w) /\ ~CreateConsultationFails(w) /\ ~ForceGet(w)
      /\ ~AddConference(w)
  BY <1>1 DEF RaiseFails, ReadFails, CreateConsultationFails, ForceGet, AddConference, At
<1>3. \/ GetHit(w) \/ GetMiss(w) \/ Fill(w)
      \/ Plan(w) \/ Raise(w) \/ NextCallback(w)
      \/ PublishRoomTransfer(w) \/ UpdateConsultationRoom(w)
      \/ UpdateStatus(w) \/ IgnoreLeave(w) \/ PublishStatus(w) \/ Relay(w)
      \/ CreateConsultation(w)
  BY <1>2 DEF Handle
<1> QED BY <1>3, CacheStepsWorking, PlanWorking, RaiseWorking, NextWorking,
           RoomWorking, StatusWorking, PublishWorking, RelayWorking, CreateWorking

\* It leaves what has been sent, and the supplier, alone.
LEMMA StepsSendNothing ==
  ASSUME TypeInv, NEW w, Handle(w), ~\E i \in 1..Len(net) : Receive(w, i)
  PROVE  UNCHANGED <<net, where, hearing>>
  BY DEF Handle, GetHit, GetMiss, Fill, Plan, Raise, RaiseFails, ReadFails, NextCallback,
         PublishRoomTransfer, UpdateConsultationRoom, UpdateStatus, IgnoreLeave,
         PublishStatus, Relay, CreateConsultation, CreateConsultationFails,
         ForceGet, AddConference, supplierVars
-----------------------------------------------------------------------------
\* A step that takes up a request takes up the one sent first of those on their way.
InTurn ==
  \A w \in Workers, i \in 1..Len(net) : Receive(w, i) => Receive(w, 1)

\* Without the request that is taken up, and the world it was sent from.
LEMMA TakenUp ==
  ASSUME TypeInv, NEW w, NEW i \in 1..Len(net), i = 1, Receive(w, i),
         NEW h, Behind(h)
  PROVE  /\ i = 1 /\ Len(net) > 0 /\ Behind(Tail(h))' /\ Tail(h)[1] = h[2]
         /\ h[1] \in ProperWorlds /\ h[2] \in ProperWorlds
         /\ Happens(h[1], net[1], h[2])
<1>1. /\ net \in Seq(SentEvents) /\ Len(net) \in Nat /\ i = 1 /\ Len(net) > 0
      /\ UNCHANGED <<where, hearing>>
      /\ net' = SubSeq(net, 1, 0) \o SubSeq(net, 2, Len(net))
  BY LenProperties DEF TypeInv, Receive
<1>2. /\ h \in Seq(ProperWorlds) /\ Len(h) = Len(net) + 1 /\ h[Len(h)] = Now
      /\ \A j \in 1..Len(net) : Happens(h[j], net[j], h[j + 1])
  BY DEF Behind
<1>3. /\ Len(net') = Len(net) - 1
      /\ \A j \in 1..Len(net') : net'[j] = net[j + 1]
  <2> DEFINE before == SubSeq(net, 1, 0)
             after  == SubSeq(net, 2, Len(net))
  <2>1. Len(before) = 0 /\ before \in Seq(SentEvents)
    BY <1>1, SubSeqProperties
  <2>2. /\ Len(after) = Len(net) - 1 /\ after \in Seq(SentEvents)
        /\ \A j \in 1..Len(after) : after[j] = net[j + 1]
    <3>1. \A j \in 2 .. Len(net) : net[j] \in SentEvents
      BY <1>1, ElementOfSeq
    <3>2. /\ after \in Seq(SentEvents)
          /\ Len(after) = IF 2 <= Len(net) THEN Len(net) - 2 + 1 ELSE 0
          /\ \A j \in 1 .. Len(net) - 2 + 1 : after[j] = net[2 + j - 1]
      BY <1>1, <3>1, SubSeqProperties
    <3>4. Len(after) = Len(net) - 1 /\ Len(net) - 2 + 1 = Len(net) - 1
      <4>1. \A k, n \in Int :
              n > 0 /\ k = (IF 2 <= n THEN n - 2 + 1 ELSE 0)
                => k = n - 1 /\ n - 2 + 1 = n - 1
        OBVIOUS
      <4>2. Len(net) \in Int /\ Len(net) > 0
        BY <1>1
      <4>3. Len(after) \in Int
        BY <3>2, LenProperties
      <4> QED BY <3>2, <4>1, <4>2, <4>3
    <3>3. \A j \in 1..Len(after) : 2 + j - 1 = j + 1
      <4> HIDE DEF after
      <4> QED BY <1>1, <3>4
    <3> HIDE DEF after
    <3> QED BY <3>2, <3>3, <3>4
  <2>3. net' = before \o after
    BY <1>1
  <2> HIDE DEF before, after
  <2>4. /\ Len(net') = Len(net) - 1
        /\ \A j \in 1..Len(net') : net'[j] = after[j]
    BY <1>1, <2>1, <2>2, <2>3, ConcatProperties
  <2> QED BY <1>1, <2>2, <2>4
<1>4. h # <<>> /\ h[1] \in ProperWorlds /\ h[2] \in ProperWorlds
  BY <1>1, <1>2, ElementOfSeq
<1> PICK t : t = Tail(h)
  OBVIOUS
<1>5. /\ t \in Seq(ProperWorlds) /\ Len(t) = Len(net)
      /\ \A j \in 1..Len(t) : t[j] = h[j + 1]
  <2>1. /\ t \in Seq(ProperWorlds) /\ Len(t) = Len(h) - 1
        /\ \A j \in 1..Len(t) : t[j] = h[j + 1]
    BY ONLY <1>2, <1>4, t = Tail(h), HeadTailProperties
  <2> QED BY <1>1, <1>2, <2>1
<1>6. t[1] = h[2] /\ t[Len(t)] = Now
  BY <1>1, <1>2, <1>5
<1>7. Now' = Now
  BY <1>1 DEF Now
<1>8. ASSUME NEW j \in 1..Len(net') PROVE Happens(t[j], net'[j], t[j + 1])
  <2>1. /\ j \in 1..Len(t) /\ j + 1 \in 1..Len(t) /\ j + 1 \in 1..Len(net)
        /\ (j + 1) + 1 = j + 2
    BY <1>1, <1>3, <1>5
  <2>2. Happens(h[j + 1], net[j + 1], h[j + 2])
    BY <1>2, <2>1
  <2>3. t[j] = h[j + 1] /\ t[j + 1] = h[j + 2] /\ net'[j] = net[j + 1]
    BY <1>3, <1>5, <2>1
  <2> QED BY <2>2, <2>3
<1>9. Behind(t)'
  BY <1>1, <1>3, <1>5, <1>6, <1>7, <1>8 DEF Behind
<1>10. Happens(h[1], net[1], h[2])
  BY <1>1, <1>2
<1> QED BY <1>1, <1>4, <1>6, <1>9, <1>10

\* The request that is taken up tells of the next world.
LEMMA ReceiveFollows ==
  ASSUME TypeInv, OneAtATime, OneAtATime', ListedInv, NEW w \in Workers, Handle(w),
         NEW i \in 1..Len(net), i = 1, Receive(w, i), MirrorInv
  PROVE  MirrorInv'
<1> PICK h : Follows(h)
  BY DEF MirrorInv
<1> PICK r : r = req[w]
  OBVIOUS
<1> PICK g : g = Tail(h)
  OBVIOUS
<1>1. Behind(h) /\ Settled(Cached, api, h[1])
  <2>1. NoRequestInProgress
    BY OthersAreIdle DEF Receive, NoRequestInProgress, At
  <2> QED BY <2>1 DEF Follows
<1>2. /\ i = 1 /\ Len(net) > 0 /\ Behind(g)' /\ g[1] = h[2]
      /\ h[1] \in ProperWorlds /\ h[2] \in ProperWorlds
      /\ Happens(h[1], net[1], h[2])
  BY <1>1, TakenUp
<1>3. /\ w \in Workers /\ r.pc = "idle" /\ net[1] \in SentEvents
      /\ net[1].type # "Refresh" /\ UNCHANGED <<cache, api>>
      /\ Cached \in CachedConference /\ api \in CachedConference
  <2>1. 1 \in 1..Len(net)
    BY <1>2
  <2> QED BY <2>1, CachedType, ElementOfSeq
          DEF Receive, At, TypeInv, ListedInv, NoRefresh, apiVars
<1> PICK e : e = net[1]
  OBVIOUS
<1>5. Expected(Cached, api, e, h[2])
  BY <1>1, <1>2, <1>3, RequestExpected
<1> PICK n : n = [Idle EXCEPT !.pc = "get", !.event = e]
  OBVIOUS
<1>6. n.pc = "get" /\ n.phase = "controller" /\ n.event = e
  BY DEF Idle
<1>7. req'[w] = n
  BY <1>2, <1>3 DEF Receive, TypeInv
<1>8. Working(n, Cached, api, g[1])
  BY <1>2, <1>5, <1>6 DEF Working, RequestIsDue
<1>9. Cached' = Cached
  BY <1>3 DEF Cached
<1>10. Working(req'[w], Cached', api', g[1])
  BY <1>3, <1>7, <1>8, <1>9
<1>11. Follows(g)'
  BY <1>2, <1>6, <1>7, <1>10, OthersAreIdle DEF Follows, NoRequestInProgress, At
<1> QED BY <1>11 DEF MirrorInv

\* Whatever happens at the supplier is one more world.
LEMMA EnvironmentFollows ==
  ASSUME TypeInv, NoRefresh', Environment, MirrorInv
  PROVE  MirrorInv'
<1> PICK h : Follows(h)
  BY DEF MirrorInv
<1>1. /\ h \in Seq(ProperWorlds) /\ Len(h) = Len(net) + 1 /\ h[Len(h)] = Now
      /\ \A j \in 1..Len(net) : Happens(h[j], net[j], h[j + 1])
      /\ \A w \in Workers : ~At(w, "idle") => Working(req[w], Cached, api, h[1])
      /\ NoRequestInProgress => Settled(Cached, api, h[1])
      /\ net \in Seq(SentEvents) /\ Len(net) \in Nat
  BY LenProperties DEF Follows, Behind, TypeInv
<1>2. Now \in ProperWorlds
  BY <1>1, ElementOfSeq
<1> PICK e : /\ net' = Append(net, e) /\ Happens(Now, e, Now')
             /\ UNCHANGED <<cache, api, req>>
  BY <1>2, EnvironmentHappens
<1> PICK t : t = Now'
  OBVIOUS
<1>3. t \in ProperWorlds
  BY <1>2, HappensProper
<1> PICK g : g = Append(h, t)
  OBVIOUS
<1>4. /\ g \in Seq(ProperWorlds) /\ Len(g) = Len(h) + 1 /\ g[Len(h) + 1] = t
      /\ \A j \in 1..Len(h) : g[j] = h[j]
  BY ONLY <1>1, <1>3, g = Append(h, t), AppendProperties
<1>5. /\ Len(net') = Len(net) + 1 /\ net'[Len(net) + 1] = e
      /\ \A j \in 1..Len(net) : net'[j] = net[j]
  BY <1>1
<1>6. ASSUME NEW j \in 1..Len(net') PROVE Happens(g[j], net'[j], g[j + 1])
  <2>1. CASE j \in 1..Len(net)
    <3>1. j \in 1..Len(h) /\ j + 1 \in 1..Len(h)
      BY <1>1, <2>1
    <3> QED BY <1>1, <1>4, <1>5, <2>1, <3>1
  <2>2. CASE j = Len(net) + 1
    <3>1. j = Len(h) /\ j \in 1..Len(h) /\ j + 1 = Len(h) + 1
      BY <1>1, <2>2
    <3>2. g[j] = Now /\ g[j + 1] = t /\ net'[j] = e
      BY <1>1, <1>4, <1>5, <2>2, <3>1
    <3> QED BY <3>2
  <2> QED BY <1>1, <1>5, <2>1, <2>2
<1>7. Behind(g)'
  <2>1. g[Len(g)] = Now'
    BY <1>4
  <2>2. Len(g) = Len(net') + 1
    BY <1>1, <1>4, <1>5
  <2> QED BY <1>4, <1>6, <2>1, <2>2 DEF Behind
<1>8. g[1] = h[1] /\ Cached' = Cached
  BY <1>1, <1>4 DEF Cached
<1>9. Follows(g)'
  BY <1>1, <1>7, <1>8 DEF Follows, NoRequestInProgress, At
<1> QED BY <1>9 DEF MirrorInv

\* A step that is no request's.
LEMMA NothingFollows ==
  ASSUME UNCHANGED <<where, hearing, net, cache, api, req>>, MirrorInv
  PROVE  MirrorInv'
  BY DEF MirrorInv, Follows, Behind, Now, Cached, NoRequestInProgress, At

\* A step of the worker.
LEMMA HandleFollows ==
  ASSUME TypeInv, OneAtATime, OneAtATime', ListedInv, ~Fault, InTurn,
         NEW w \in Workers, Handle(w), MirrorInv
  PROVE  MirrorInv'
<1>1. CASE \E i \in 1..Len(net) : Receive(w, i)
  <2>1. Len(net) \in Nat
    BY LenProperties DEF TypeInv
  <2>2. 1 \in 1..Len(net) /\ Receive(w, 1)
    BY <1>1, <2>1 DEF InTurn
  <2> QED BY <2>2, ReceiveFollows
<1>2. CASE ~\E i \in 1..Len(net) : Receive(w, i)
  <2> PICK h : Follows(h)
    BY DEF MirrorInv
  <2> PICK s : s = h[1]
    OBVIOUS
  <2> req[w].pc # "idle"
    BY <1>2
    DEF Handle, GetHit, GetMiss, Fill, Plan, Raise, RaiseFails, ReadFails, AsksVideoApi, NextCallback,
        PublishRoomTransfer, UpdateConsultationRoom, UpdateStatus, IgnoreLeave,
        PublishStatus, Relay, CreateConsultation, CreateConsultationFails,
        ForceGet, AddConference, At
  <2>1. Behind(h) /\ Working(req[w], Cached, api, s) /\ s \in ProperWorlds
    <3>1. h \in Seq(ProperWorlds) /\ Len(h) = Len(net) + 1 /\ Len(net) \in Nat
      BY LenProperties DEF Follows, Behind, TypeInv
    <3> QED BY <3>1, ElementOfSeq DEF Follows, At
  <2>2. Working(req'[w], Cached', api', s)
    BY <1>2, <2>1, StepsWorking
  <2>3. UNCHANGED <<net, where, hearing>>
    BY <1>2, StepsSendNothing
  <2>4. Behind(h)'
    BY <2>1, <2>3 DEF Behind, Now
  <2>5. \A v \in Workers \ {w} : req'[v].pc = "idle"
    BY OthersAreIdle
  <2>6. NoRequestInProgress' => Settled(Cached', api', s)
    BY <2>2 DEF NoRequestInProgress, At, Working, RequestIsDue
  <2>7. Follows(h)'
    BY <2>2, <2>4, <2>5, <2>6 DEF Follows, At
  <2> QED BY <2>7 DEF MirrorInv
<1> QED BY <1>1, <1>2

\* At first nobody is connected, and the conference says so.
LEMMA InitFollows == Init => MirrorInv
<1> SUFFICES ASSUME Init PROVE MirrorInv
  OBVIOUS
<1> PICK s : s = Now
  OBVIOUS
<1> PICK h : h = <<s>>
  OBVIOUS
<1>1. /\ s.where = [party \in Parties |-> "Out"]
      /\ s.hearing = [status |-> "NotStarted", countdown |-> FALSE]
      /\ s \in World
  BY DEF Init, Now, World, ConferenceStatus
<1>2. Linked \subseteq Parties /\ Participants \subseteq Parties /\ Endpoints \subseteq Parties
  BY EventsAssumption DEF Parties
<1>3. Here(s) = {}
  BY <1>1, <1>2 DEF Here
<1>4. s \in ProperWorlds
  BY <1>1, <1>3 DEF ProperWorlds
<1>5. Behind(h)
  BY <1>4 DEF Init, Behind
<1>6. Cached = NewConference /\ api = NewConference
  BY DEF Init, Cached
<1>7. Settled(NewConference, NewConference, s)
  <2>1. ASSUME NEW x PROVE Right(NewConference, x, s) /\ RecordRight(NewConference, x, s)
    <3>1. /\ x \in Participants => /\ NewConference.pRoom[x] = RoomAt(s.where[x])
                                   /\ NewConference.pStatus[x] = "None"
                                   /\ s.where[x] = "Out"
          /\ x \in Endpoints => /\ NewConference.eStatus[x] = "NotYetJoined"
                                /\ s.where[x] = "Out"
          /\ NewConference.status = "NotStarted"
          /\ NewConference.countdownComplete = FALSE
      BY <1>1, <1>2, Places DEF NewConference
    <3> PICK c : c = NewConference
      OBVIOUS
    <3>2. s.hearing.status = "NotStarted" /\ s.hearing.countdown = FALSE
      BY <1>1
    <3>3. /\ x \in Participants => c.pRoom[x] = RoomAt(s.where[x])
          /\ x \in Participants \ Linked =>
               s.where[x] = "Out" /\ c.pStatus[x] \notin {"InHearing", "InConsultation"}
          /\ x \notin Here(s)
          /\ x \in Endpoints =>
               s.where[x] = "Out" /\ c.eStatus[x] \in {"NotYetJoined", "Disconnected"}
          /\ c.status = s.hearing.status /\ c.countdownComplete = s.hearing.countdown
      BY <1>3, <3>1, <3>2
    <3> QED BY ONLY <3>3, c = NewConference DEF Right, RecordRight
  <2>2. NewConference.vmr = {}
    BY DEF NewConference
  <2> QED BY <1>3, <2>1, <2>2, SettledIs
<1>8. \A w \in Workers : At(w, "idle")
  BY DEF Init, Idle, At
<1>9. Follows(h)
  BY <1>5, <1>6, <1>7, <1>8 DEF Follows
<1> QED BY <1>9 DEF MirrorInv

\* With nothing on its way the first world is the last.
LEMMA FollowsIsMirrored ==
  ASSUME MirrorInv
  PROVE  CacheMirrorsSupplier
<1> SUFFICES ASSUME Quiet, cache # Missing PROVE CacheMirrorsSupplier
  BY DEF CacheMirrorsSupplier
<1> PICK h : Follows(h)
  BY DEF MirrorInv
<1> PICK s : s = Now
  OBVIOUS
<1>1. h[1] = s /\ Cached = cache
  BY DEF Quiet, Follows, Behind, Cached
<1>2. Settled(cache, api, s)
  BY <1>1 DEF Quiet, Follows
<1>3. \A x \in Parties \cup {Nobody} : Right(cache, x, s)
  BY <1>2, SettledIs
<1>4. s.where = where /\ s.hearing = hearing
  BY DEF Now
<1>5. /\ cache.status = hearing.status
      /\ cache.countdownComplete = hearing.countdown
  BY <1>3, <1>4 DEF Right
<1>6. \A p \in Participants : Right(cache, p, s)
  BY <1>3 DEF Parties
<1>7. \A e \in Endpoints : Right(cache, e, s)
  BY <1>3 DEF Parties
<1> QED BY <1>4, <1>5, <1>6, <1>7 DEF CacheMirrorsSupplier, Connected, Right

\* Requests that do not overlap, handled in the order they were sent, leave the
\* cached conference saying of the hearing and of everyone what is true at the
\* supplier, the linked participants whose arrival is relayed included, as long
\* as nothing has failed and the conference is not rebuilt.
THEOREM CachedIsSupplier ==
  Spec /\ []OneAtATime /\ [][InTurn]_vars /\ []NoRefresh
    => [](faults = 0 => CacheMirrorsSupplier)
<1>1. TypeInv /\ OneAtATime /\ OneAtATime' /\ NoRefresh' /\ (faults = 0 => ListedInv)
      /\ (faults = 0 => MirrorInv) /\ [Next]_vars /\ [InTurn]_vars
      => (faults = 0 => MirrorInv)'
  <2> SUFFICES ASSUME TypeInv, OneAtATime, OneAtATime', NoRefresh',
                      faults = 0 => ListedInv, faults = 0 => MirrorInv,
                      [Next]_vars, [InTurn]_vars, faults' = 0
               PROVE  MirrorInv'
    OBVIOUS
  <2> ListedInv /\ MirrorInv /\ ~Fault
    BY NoFaultBefore
  <2>1. CASE Environment
    BY <2>1, EnvironmentFollows
  <2>2. CASE Evict
    BY <2>2 DEF Evict
  <2>3. CASE (\E v \in Workers : Handle(v)) /\ ~UNCHANGED vars
    <3>1. InTurn
      BY <2>3
    <3> QED BY <2>3, <3>1, HandleFollows
  <2>4. CASE UNCHANGED vars
    BY <2>4, NothingFollows DEF vars, supplierVars, apiVars
  <2> QED BY <2>1, <2>2, <2>3, <2>4 DEF Next
<1>2. MirrorInv => CacheMirrorsSupplier
  BY FollowsIsMirrored
<1> QED BY <1>1, <1>2, InitFollows, TypeInvHolds, ListedHolds, PTL DEF Spec

\* End to end: with nothing on its way, what the hub's messages have told a
\* client of the hearing, of the rooms and of who is connected is what is true at
\* the supplier, by way of the cache.  (Nothing is said of the status of a linked
\* participant, nor of anybody while the conference is not in the cache.)
ShownMirrorsSupplier ==
  Quiet /\ cache # Missing =>
    /\ ui.status = hearing.status
    /\ ui.countdownComplete = hearing.countdown
    /\ \A p \in Participants : ui.pRoom[p] = RoomAt(where[p])
    /\ \A p \in Participants \ Linked :
         IF Connected(p)
           THEN ui.pStatus[p] = TransferStatus(p, where[p])
           ELSE ui.pStatus[p] \notin {"InHearing", "InConsultation"}
    /\ \A e \in Endpoints :
         IF Connected(e)
           THEN ui.eStatus[e] = TransferStatus(e, where[e])
           ELSE ui.eStatus[e] \in {"NotYetJoined", "Disconnected"}

\* End to end: handled one at a time and in order, while nothing fails, what the
\* supplier reports is what a connected client shows once every request is done.
THEOREM ShownIsSupplier ==
  Spec /\ []OneAtATime /\ [][InTurn]_vars /\ []NoRefresh
    => [](faults = 0 => ShownMirrorsSupplier)
<1>1. UiMirrorsCache /\ CacheMirrorsSupplier => ShownMirrorsSupplier
  BY DEF UiMirrorsCache, CacheMirrorsSupplier, ShownMirrorsSupplier, Quiet
<1> QED BY <1>1, ShownIsCached, CachedIsSupplier, PTL
=============================================================================
