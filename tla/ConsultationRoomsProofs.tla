----------------------- MODULE ConsultationRoomsProofs -----------------------
(***************************************************************************)
(* For any parties, rooms, screening and number of requests in progress:   *)
(* the variables keep their types, and two screened parties who both came  *)
(* by a check meet only if the cache could not tell.                       *)
(*                                                                         *)
(* The property is not inductive: the check and the move are two steps, so *)
(* the invariant also compares the requests that are about to move         *)
(* somebody, with each other and with those who are in the room already,   *)
(* and says when the cache can be relied upon.                             *)
(***************************************************************************)
EXTENDS ConsultationRooms, SequenceTheorems, TLAPS

Moving == {"tell", "call"}

\* A request that is about to bring a checked party into its room.
Comes(r) == r.pc \in Moving /\ r.by \in Checked

RequestOK(r) ==
  r.pc # "idle" =>
    /\ r.room \in Rooms
    /\ r.pc # "show" /\ r.pc # "link" => r.who \in Parties

\* With nothing pending and nothing overwritten, the cache is right about those
\* in a consultation; otherwise the last callback that is pending leads to where
\* the party is, and the handler of the first is about to write what it says.
CacheRight ==
  \A x \in Parties :
    /\ pending[x] = <<>> /\ x \notin overwritten /\ place[x] \in Rooms
         => cached[x] = place[x]
    /\ pending[x] # <<>> /\ place[x] \in Rooms
         => pending[x][Len(pending[x])] = place[x]
    /\ handling[x].step # "none" =>
         /\ pending[x] # <<>>
         /\ Head(pending[x]) # NoRoom => handling[x].copy[x] = Head(pending[x])

\* Two checks of which one could not see the other, unless there was no need.
Excused(x, U, y, V) == x # y /\ Screened(x, y) => x \in V \/ y \in U

RequestsApart ==
  \A w, v \in Workers :
    Comes(req[w]) /\ Comes(req[v]) /\ req[w].room = req[v].room
      => Excused(req[w].who, req[w].unseen, req[v].who, req[v].unseen)

RequestsAndEntriesApart ==
  \A w \in Workers, y \in Parties :
    Comes(req[w]) /\ place[y] = req[w].room /\ entry[y].by \in Checked
      => Excused(req[w].who, req[w].unseen, y, entry[y].unseen)

EntriesApart ==
  \A x, y \in Parties :
    place[x] = place[y] /\ place[x] \in Rooms
      /\ entry[x].by \in Checked /\ entry[y].by \in Checked
      => Excused(x, entry[x].unseen, y, entry[y].unseen)

RequestsOK == \A w \in Workers : RequestOK(req[w])

Apart == RequestsApart /\ RequestsAndEntriesApart /\ EntriesApart

RoomsInv == TypeOK /\ RequestsOK /\ CacheRight /\ Apart

-----------------------------------------------------------------------------
(***************************************************************************)
(* Lemmas about the parts.                                                 *)
(***************************************************************************)
\* What is pending first stays first.
LEMMA HeadOfAppend ==
  ASSUME NEW S, NEW s \in Seq(S), NEW e \in S, s # <<>>
  PROVE  Head(Append(s, e)) = Head(s)
BY AppendProperties, EmptySeq

\* A party who may join is not screened from anybody the cache has in the room.
LEMMA JoinChecks ==
  ASSUME NEW r, NEW x \in Parties, NEW y \in InRoom(r),
         CanJoinConsultationRoom(r, x)
  PROVE  ~Screened(x, y)
BY DEF CanJoinConsultationRoom, AreEntitiesScreenedFromEachOther, Screened, InRoom

\* Excused has no direction.
LEMMA ExcusedBoth ==
  ASSUME NEW x, NEW U, NEW y, NEW V, Excused(x, U, y, V)
  PROVE  Excused(y, V, x, U)
BY DEF Excused, Screened

\* Idle is a request, and a proper one.
LEMMA IdleOK == Idle \in Request /\ RequestOK(Idle) /\ ~Comes(Idle)
<1>1. Nowhere \in [Parties -> Places]
  BY DEF Nowhere, Places
<1>2. QED
  BY <1>1 DEF Idle, Request, Steps, Ways, RequestOK, Comes, Moving

\* One request changes to a proper one.
LEMMA OneRequest ==
  ASSUME RoomsInv, NEW w \in Workers, NEW r \in Request, RequestOK(r),
         req' = [req EXCEPT ![w] = r]
  PROVE  /\ req' \in [Workers -> Request]
         /\ RequestsOK'
         /\ req'[w] = r
         /\ \A v \in Workers \ {w} : req'[v] = req[v]
<1>1. req \in [Workers -> Request]
  BY DEF RoomsInv, TypeOK
<1>2. /\ req' \in [Workers -> Request] /\ req'[w] = r
      /\ \A v \in Workers \ {w} : req'[v] = req[v]
  BY <1>1
<1>3. QED
  BY <1>2 DEF RoomsInv, RequestsOK

\* Nobody moves, and no new request comes: the parties stay apart.
LEMMA StayApart ==
  ASSUME RoomsInv, UNCHANGED <<place, entry>>,
         \A w \in Workers :
           Comes(req'[w]) => /\ Comes(req[w])
                             /\ req'[w].who = req[w].who
                             /\ req'[w].room = req[w].room
                             /\ req'[w].unseen = req[w].unseen
  PROVE  Apart'
<1>1. RequestsApart'
  BY DEF RoomsInv, Apart, RequestsApart
<1>2. RequestsAndEntriesApart'
  BY DEF RoomsInv, Apart, RequestsAndEntriesApart
<1>3. EntriesApart'
  BY DEF RoomsInv, Apart, EntriesApart
<1>4. QED
  BY <1>1, <1>2, <1>3 DEF Apart

\* A move is a well-formed entry, and the last of the pending transfers.
LEMMA MoveIsPending ==
  ASSUME RoomsInv, NEW x \in Parties, NEW r \in Places, NEW by \in Ways,
         NEW U \in SUBSET Parties, MoveTo(x, r, by, U),
         UNCHANGED <<handling, cached, overwritten>>
  PROVE  /\ place' \in [Parties -> Places]
         /\ pending' \in [Parties -> Seq(Callbacks)]
         /\ entry' \in [Parties -> [by : Ways, unseen : SUBSET Parties]]
         /\ place'[x] = r /\ entry'[x].by = by /\ entry'[x].unseen = U
         /\ \A y \in Parties \ {x} : place'[y] = place[y] /\ entry'[y] = entry[y]
         /\ CacheRight'
<1>1. /\ place \in [Parties -> Places]
      /\ pending \in [Parties -> Seq(Callbacks)]
      /\ entry \in [Parties -> [by : Ways, unseen : SUBSET Parties]]
      /\ CacheRight
  BY DEF RoomsInv, TypeOK
<1>2. place' = [place EXCEPT ![x] = r]
  BY DEF MoveTo
<1>3. entry' = [entry EXCEPT ![x] = [by |-> by, unseen |-> U]]
  BY DEF MoveTo
<1>4. pending' = [pending EXCEPT ![x] = Append(pending[x], r)]
  BY DEF MoveTo
<1>5. pending[x] \in Seq(Callbacks)
  BY <1>1
<1>6. /\ Append(pending[x], r) \in Seq(Callbacks)
      /\ Append(pending[x], r) # <<>>
      /\ Append(pending[x], r)[Len(Append(pending[x], r))] = r
      /\ pending[x] # <<>> => Head(Append(pending[x], r)) = Head(pending[x])
  <2>1. r \in Callbacks
    BY DEF Callbacks
  <2>2. pending[x] # <<>> => Head(Append(pending[x], r)) = Head(pending[x])
    BY <1>5, <2>1, HeadOfAppend
  <2>3. QED
    BY <1>5, <2>1, <2>2
<1>7. /\ place' \in [Parties -> Places] /\ place'[x] = r
      /\ \A y \in Parties \ {x} : place'[y] = place[y]
  BY <1>1, <1>2
<1>8. /\ pending' \in [Parties -> Seq(Callbacks)] /\ pending'[x] = Append(pending[x], r)
      /\ \A y \in Parties \ {x} : pending'[y] = pending[y]
  BY <1>1, <1>4, <1>6
<1>9. /\ entry' \in [Parties -> [by : Ways, unseen : SUBSET Parties]]
      /\ entry'[x] = [by |-> by, unseen |-> U]
      /\ \A y \in Parties \ {x} : entry'[y] = entry[y]
  BY <1>1, <1>3
<1>10. CacheRight'
  BY <1>1, <1>6, <1>7, <1>8, ConsultationRoomsAssumption DEF CacheRight
<1>11. QED
  BY <1>7, <1>8, <1>9, <1>10

\* Somebody who comes without a check disturbs nobody.
LEMMA UncheckedMove ==
  ASSUME RoomsInv, NEW x \in Parties, 
         entry'[x].by \notin Checked,
         \A y \in Parties \ {x} : place'[y] = place[y] /\ entry'[y] = entry[y],
         \A w \in Workers :
           Comes(req'[w]) => /\ Comes(req[w])
                             /\ req'[w].who = req[w].who
                             /\ req'[w].room = req[w].room
                             /\ req'[w].unseen = req[w].unseen
  PROVE  Apart'
<1>1. RequestsApart'
  BY DEF RoomsInv, Apart, RequestsApart
<1>2. RequestsAndEntriesApart'
  BY DEF RoomsInv, Apart, RequestsAndEntriesApart
<1>3. EntriesApart'
  <2>1. SUFFICES ASSUME NEW a \in Parties, NEW b \in Parties,
                        place'[a] = place'[b], place'[a] \in Rooms,
                        entry'[a].by \in Checked, entry'[b].by \in Checked
                 PROVE  Excused(a, entry'[a].unseen, b, entry'[b].unseen)
    BY DEF EntriesApart
  <2>2. a # x /\ b # x
    BY <2>1
  <2>3. /\ place'[a] = place[a] /\ entry'[a] = entry[a]
        /\ place'[b] = place[b] /\ entry'[b] = entry[b]
    BY <2>2
  <2>4. EntriesApart
    BY DEF RoomsInv, Apart
  <2>5. QED
    BY <2>1, <2>3, <2>4 DEF EntriesApart
<1>4. QED
  BY <1>1, <1>2, <1>3 DEF Apart

-----------------------------------------------------------------------------
(***************************************************************************)
(* Initially, and one lemma per kind of step.                              *)
(***************************************************************************)
\* Nobody is in a room and nothing is in progress.
THEOREM RoomsInit == Init => RoomsInv
<1>1. SUFFICES ASSUME Init PROVE RoomsInv
  OBVIOUS
<1>2. Nowhere \in [Parties -> Places] /\ WaitingRoom \notin Rooms
  BY ConsultationRoomsAssumption DEF Nowhere, Places
<1>3. TypeOK
  <2>1. pending \in [Parties -> Seq(Callbacks)]
        /\ handling \in [Parties -> [step : {"none", "room", "status"},
                                   copy : [Parties -> Places]]]
    BY <1>1, <1>2 DEF Init, Unhandled
  <2>2. entry \in [Parties -> [by : Ways, unseen : SUBSET Parties]]
    BY <1>1 DEF Init, Ways
  <2>3. req \in [Workers -> Request]
    BY <1>1, IdleOK DEF Init
  <2>4. QED
    BY <1>1, <1>2, <2>1, <2>2, <2>3 DEF Init, TypeOK
<1>4. RequestsOK
  BY <1>1, IdleOK DEF Init, RequestsOK
<1>5. CacheRight
  BY <1>1 DEF Init, CacheRight, Unhandled
<1>6. Apart
  <2>1. \A w \in Workers : ~Comes(req[w])
    BY <1>1, IdleOK DEF Init
  <2>2. \A x \in Parties : place[x] \notin Rooms
    BY <1>1, <1>2 DEF Init, Nowhere
  <2>3. RequestsApart /\ RequestsAndEntriesApart
    BY <2>1 DEF RequestsApart, RequestsAndEntriesApart
  <2>4. EntriesApart
    BY <2>2 DEF EntriesApart
  <2>5. QED
    BY <2>3, <2>4 DEF Apart
<1>7. QED
  BY <1>3, <1>4, <1>5, <1>6 DEF RoomsInv

\* A new request that the check has let through.
LEMMA CheckedRequest ==
  ASSUME RoomsInv, NEW w \in Workers, At(w, "idle"),
         NEW x \in Parties, NEW room \in Rooms, NEW r \in Request,
         CanJoinConsultationRoom(room, x),
         r.pc \in Moving, r.who = x, r.room = room, r.unseen = OnTheWay,
         req' = [req EXCEPT ![w] = r],
         UNCHANGED <<place, pending, handling, cached, entry, overwritten>>
  PROVE  req' \in [Workers -> Request] /\ RequestsOK' /\ CacheRight' /\ Apart'
<1>1. RequestOK(r)
  BY DEF RequestOK, Moving
<1>2. /\ req' \in [Workers -> Request] /\ RequestsOK' /\ req'[w] = r
      /\ \A v \in Workers \ {w} : req'[v] = req[v]
  BY <1>1, OneRequest
<1>3. CacheRight'
  BY DEF RoomsInv, CacheRight
<1>4. \A v \in Workers : Comes(req[v]) => req[v].who \in r.unseen
  BY DEF Comes, Moving, OnTheWay, RoomsInv, RequestsOK, RequestOK
<1>5. ~Comes(req[w])
  BY DEF At, Comes, Moving
<1>6. ASSUME NEW y \in Parties, place[y] = room, y \notin r.unseen
      PROVE  ~Screened(x, y)
  <2>1. pending[y] = <<>> /\ y \notin overwritten
    BY <1>6 DEF OnTheWay
  <2>2. y \in InRoom(room)
    BY <1>6, <2>1 DEF RoomsInv, CacheRight, InRoom
  <2>3. QED
    BY <2>2, JoinChecks
<1>7. RequestsApart'
  <2>1. SUFFICES ASSUME NEW u \in Workers, NEW v \in Workers,
                        Comes(req'[u]), Comes(req'[v]), req'[u].room = req'[v].room
                 PROVE  Excused(req'[u].who, req'[u].unseen, req'[v].who, req'[v].unseen)
    BY DEF RequestsApart
  <2>2. CASE u = w /\ v = w
    BY <2>2 DEF Excused
  <2>3. CASE u = w /\ v # w
    BY <1>2, <1>4, <2>1, <2>3 DEF Excused
  <2>4. CASE u # w /\ v = w
    BY <1>2, <1>4, <2>1, <2>4 DEF Excused
  <2>5. CASE u # w /\ v # w
    BY <1>2, <2>1, <2>5 DEF RoomsInv, Apart, RequestsApart
  <2>6. QED
    BY <2>2, <2>3, <2>4, <2>5
<1>8. RequestsAndEntriesApart'
  <2>1. SUFFICES ASSUME NEW u \in Workers, NEW y \in Parties,
                        Comes(req'[u]), place[y] = req'[u].room,
                        entry[y].by \in Checked
                 PROVE  Excused(req'[u].who, req'[u].unseen, y, entry[y].unseen)
    BY DEF RequestsAndEntriesApart
  <2>2. CASE u = w
    BY <1>2, <1>6, <2>1, <2>2 DEF Excused
  <2>3. CASE u # w
    BY <1>2, <2>1, <2>3 DEF RoomsInv, Apart, RequestsAndEntriesApart
  <2>4. QED
    BY <2>2, <2>3
<1>9. EntriesApart'
  BY DEF RoomsInv, Apart, EntriesApart
<1>10. QED
  BY <1>2, <1>3, <1>7, <1>8, <1>9 DEF Apart

\* A request of its own that nobody was checked for, or that is further along.
LEMMA PlainRequest ==
  ASSUME RoomsInv, NEW w \in Workers, NEW r \in Request, RequestOK(r),
         Comes(r) => /\ Comes(req[w])
                     /\ r.who = req[w].who /\ r.room = req[w].room
                     /\ r.unseen = req[w].unseen,
         req' = [req EXCEPT ![w] = r],
         UNCHANGED <<place, pending, handling, cached, entry, overwritten>>
  PROVE  req' \in [Workers -> Request] /\ RequestsOK' /\ CacheRight' /\ Apart'
<1>1. /\ req' \in [Workers -> Request] /\ RequestsOK' /\ req'[w] = r
      /\ \A v \in Workers \ {w} : req'[v] = req[v]
  BY OneRequest
<1>2. CacheRight'
  BY DEF RoomsInv, CacheRight
<1>3. \A v \in Workers :
        Comes(req'[v]) => /\ Comes(req[v])
                          /\ req'[v].who = req[v].who
                          /\ req'[v].room = req[v].room
                          /\ req'[v].unseen = req[v].unseen
  BY <1>1
<1>4. Apart'
  BY <1>3, StayApart
<1>5. QED
  BY <1>1, <1>2, <1>4

\* What a worker that is not idle is busy with.
LEMMA CurrentRequest ==
  ASSUME RoomsInv, NEW w \in Workers, ~At(w, "idle")
  PROVE  /\ req[w] \in Request /\ RequestOK(req[w])
         /\ req[w].room \in Rooms
         /\ ~At(w, "show") /\ ~At(w, "link") => req[w].who \in Parties
BY DEF RoomsInv, TypeOK, RequestsOK, RequestOK, At

\* OnTheWay names parties.
LEMMA OnTheWayType == RoomsInv => OnTheWay \in SUBSET Parties
BY DEF RoomsInv, TypeOK, OnTheWay

\* A participant who joins has been checked.
LEMMA JoinStep ==
  ASSUME RoomsInv, NEW w \in Workers, NEW x \in Participants, NEW room \in Rooms,
         Join(w, x, room)
  PROVE  RoomsInv'
<1> DEFINE r == [Idle EXCEPT !.pc = "call", !.by = "Joined", !.who = x,
                             !.room = room, !.unseen = OnTheWay]
<1>1. /\ r \in Request /\ r.pc \in Moving
      /\ r.who = x /\ r.room = room /\ r.unseen = OnTheWay
  BY IdleOK, OnTheWayType DEF Request, Steps, Ways, Moving, Parties, Idle
<1>2. /\ At(w, "idle") /\ CanJoinConsultationRoom(room, x) /\ sent' = sent + 1
      /\ req' = [req EXCEPT ![w] = r]
      /\ UNCHANGED <<place, pending, handling, cached, rooms, shown, told,
                     faults, historyVars>>
  BY DEF Join, Send
<1> HIDE DEF r
<1>3. req' \in [Workers -> Request] /\ RequestsOK' /\ CacheRight' /\ Apart'
  BY <1>1, <1>2, CheckedRequest DEF historyVars, Parties
<1>4. QED
  BY <1>2, <1>3 DEF RoomsInv, TypeOK, historyVars

\* So has an endpoint that is added.
LEMMA AddEndpointStep ==
  ASSUME RoomsInv, NEW w \in Workers, NEW x \in Endpoints, NEW room \in Rooms,
         AddEndpoint(w, x, room)
  PROVE  RoomsInv'
<1> DEFINE r == [Idle EXCEPT !.pc = "tell", !.by = "Added", !.who = x,
                             !.room = room, !.unseen = OnTheWay]
<1>1. /\ r \in Request /\ r.pc \in Moving
      /\ r.who = x /\ r.room = room /\ r.unseen = OnTheWay
  BY IdleOK, OnTheWayType DEF Request, Steps, Ways, Moving, Parties, Idle
<1>2. /\ At(w, "idle") /\ CanJoinConsultationRoom(room, x) /\ sent' = sent + 1
      /\ req' = [req EXCEPT ![w] = r]
      /\ UNCHANGED <<place, pending, handling, cached, rooms, shown, told,
                     faults, historyVars>>
  BY DEF AddEndpoint, Send
<1> HIDE DEF r
<1>3. req' \in [Workers -> Request] /\ RequestsOK' /\ CacheRight' /\ Apart'
  BY <1>1, <1>2, CheckedRequest DEF historyVars, Parties
<1>4. QED
  BY <1>2, <1>3 DEF RoomsInv, TypeOK, historyVars

\* Who answers an invitation has not, and the property says nothing of them.
LEMMA AcceptStep ==
  ASSUME RoomsInv, NEW w \in Workers, NEW x \in Participants, NEW room \in Rooms,
         Accept(w, x, room)
  PROVE  RoomsInv'
<1> DEFINE r == [Idle EXCEPT !.pc = "tell", !.by = "Answered", !.who = x,
                             !.room = room]
<1>1. r \in Request /\ RequestOK(r) /\ ~Comes(r)
  BY IdleOK DEF Request, Steps, Ways, Parties, Idle, RequestOK, Comes, Checked
<1>2. /\ sent' = sent + 1
      /\ req' = [req EXCEPT ![w] = r]
      /\ UNCHANGED <<place, pending, handling, cached, rooms, shown, told,
                     faults, historyVars>>
  BY DEF Accept, Send
<1> HIDE DEF r
<1>3. req' \in [Workers -> Request] /\ RequestsOK' /\ CacheRight' /\ Apart'
  BY <1>1, <1>2, PlainRequest DEF historyVars
<1>4. QED
  BY <1>2, <1>3 DEF RoomsInv, TypeOK, historyVars

\* An invitation moves nobody yet.
LEMMA InviteStep ==
  ASSUME RoomsInv, NEW w \in Workers, NEW x \in Participants, NEW room \in Rooms,
         Invite(w, x, room)
  PROVE  RoomsInv'
<1> DEFINE r == [Idle EXCEPT !.pc = "show", !.room = room, !.invitees = {x}]
<1>1. r \in Request /\ RequestOK(r) /\ ~Comes(r)
  BY IdleOK DEF Request, Steps, Idle, RequestOK, Comes, Moving
<1>2. /\ sent' = sent + 1
      /\ req' = [req EXCEPT ![w] = r]
      /\ UNCHANGED <<place, pending, handling, cached, rooms, shown, told,
                     faults, historyVars>>
  BY DEF Invite, Send
<1> HIDE DEF r
<1>3. req' \in [Workers -> Request] /\ RequestsOK' /\ CacheRight' /\ Apart'
  BY <1>1, <1>2, PlainRequest DEF historyVars
<1>4. QED
  BY <1>2, <1>3 DEF RoomsInv, TypeOK, historyVars

\* Nor does the request for a new room.
LEMMA StartStep ==
  ASSUME RoomsInv, NEW w \in Workers, NEW x \in Participants, NEW room \in Rooms,
         NEW I \in SUBSET Participants, NEW E \in SUBSET Endpoints,
         Start(w, x, room, I, E)
  PROVE  RoomsInv'
<1> DEFINE r == [Idle EXCEPT !.pc = "create", !.who = x, !.room = room,
                   !.invitees = I, !.endpoints = E \cap EndpointsOf[x],
                   !.copy = cached]
<1>1. r \in Request
  BY IdleOK DEF RoomsInv, TypeOK, Request, Steps, Parties, Idle
<1>2. RequestOK(r) /\ ~Comes(r)
  BY DEF Idle, RequestOK, Comes, Moving, Parties
<1>3. /\ sent' = sent + 1
      /\ req' = [req EXCEPT ![w] = r]
      /\ UNCHANGED <<place, pending, handling, cached, rooms, shown, told,
                     faults, historyVars>>
  BY DEF Start, Send
<1> HIDE DEF r
<1>4. req' \in [Workers -> Request] /\ RequestsOK' /\ CacheRight' /\ Apart'
  BY <1>1, <1>2, <1>3, PlainRequest DEF historyVars
<1>5. QED
  BY <1>3, <1>4 DEF RoomsInv, TypeOK, historyVars

\* Telling the clients moves nobody.
LEMMA TellTransferringStep ==
  ASSUME RoomsInv, NEW w \in Workers, TellTransferring(w)
  PROVE  RoomsInv'
<1> DEFINE r == [req[w] EXCEPT !.pc = "call"]
<1>1. /\ At(w, "tell") /\ told' = [told EXCEPT ![req[w].who] = "Transferring"]
      /\ req' = [req EXCEPT ![w] = r]
      /\ UNCHANGED <<place, pending, handling, cached, rooms, shown, sent,
                     faults, historyVars>>
  BY DEF TellTransferring
<1>2. req[w] \in Request /\ req[w].room \in Rooms /\ req[w].who \in Parties
  BY <1>1, CurrentRequest DEF At
<1>3. r \in Request /\ RequestOK(r)
  BY <1>2 DEF Request, Steps, RequestOK
<1>4. Comes(r) => /\ Comes(req[w]) /\ r.who = req[w].who
                  /\ r.room = req[w].room /\ r.unseen = req[w].unseen
  BY <1>1, <1>2 DEF Request, Comes, Moving, At
<1> HIDE DEF r
<1>5. req' \in [Workers -> Request] /\ RequestsOK' /\ CacheRight' /\ Apart'
  BY <1>1, <1>3, <1>4, PlainRequest DEF historyVars
<1>6. told' \in [Parties -> {"None", "Transferring", "Failed"}]
  BY <1>1 DEF RoomsInv, TypeOK
<1>7. QED
  BY <1>1, <1>5, <1>6 DEF RoomsInv, TypeOK, historyVars

\* Nor does announcing a participant's own join, which ends the request.
LEMMA NotifyParticipantTransferringStep ==
  ASSUME RoomsInv, NEW w \in Workers, NotifyParticipantTransferring(w)
  PROVE  RoomsInv'
<1>1. /\ told' = [told EXCEPT ![req[w].who] = "Transferring"]
      /\ req' = [req EXCEPT ![w] = Idle]
      /\ UNCHANGED <<place, pending, handling, cached, rooms, shown, sent,
                     faults, historyVars>>
  BY DEF NotifyParticipantTransferring
<1>2. req' \in [Workers -> Request] /\ RequestsOK' /\ CacheRight' /\ Apart'
  BY <1>1, IdleOK, PlainRequest DEF historyVars
<1>3. told' \in [Parties -> {"None", "Transferring", "Failed"}]
  BY <1>1 DEF RoomsInv, TypeOK
<1>4. QED
  BY <1>1, <1>2, <1>3 DEF RoomsInv, TypeOK, historyVars

\* A refused call moves nobody.
LEMMA CallRefusedStep ==
  ASSUME RoomsInv, NEW w \in Workers, CallRefused(w)
  PROVE  RoomsInv'
<1>1. /\ told' = IF req[w].by = "Joined" THEN told
                 ELSE [told EXCEPT ![req[w].who] = "Failed"]
      /\ req' = [req EXCEPT ![w] = Idle] /\ faults' = faults + 1
      /\ UNCHANGED <<place, pending, handling, cached, rooms, shown, sent,
                     historyVars>>
  BY DEF CallRefused, Refused
<1>2. req' \in [Workers -> Request] /\ RequestsOK' /\ CacheRight' /\ Apart'
  BY <1>1, IdleOK, PlainRequest DEF historyVars
<1>3. told' \in [Parties -> {"None", "Transferring", "Failed"}]
  BY <1>1 DEF RoomsInv, TypeOK
<1>4. QED
  BY <1>1, <1>2, <1>3 DEF RoomsInv, TypeOK, historyVars

\* Nor does a refused room.
LEMMA CreateRefusedStep ==
  ASSUME RoomsInv, NEW w \in Workers, CreateRefused(w)
  PROVE  RoomsInv'
<1>1. /\ req' = [req EXCEPT ![w] = Idle] /\ faults' = faults + 1
      /\ UNCHANGED <<place, pending, handling, cached, rooms, shown, told,
                     sent, historyVars>>
  BY DEF CreateRefused, Refused
<1>2. req' \in [Workers -> Request] /\ RequestsOK' /\ CacheRight' /\ Apart'
  BY <1>1, IdleOK, PlainRequest DEF historyVars
<1>3. QED
  BY <1>1, <1>2 DEF RoomsInv, TypeOK, historyVars

\* Showing an invitation moves nobody.
LEMMA ShowInvitationStep ==
  ASSUME RoomsInv, NEW w \in Workers, ShowInvitation(w)
  PROVE  RoomsInv'
<1>1. /\ At(w, "show")
      /\ UNCHANGED <<place, pending, handling, cached, rooms, told, sent,
                     faults, historyVars>>
  BY DEF ShowInvitation
<1>2. req[w] \in Request /\ req[w].room \in Rooms /\ req[w].pc = "show"
  BY <1>1, CurrentRequest DEF At
<1>3. ~Comes(req[w])
  BY <1>2 DEF Comes, Moving
<1>4. PICK r \in Request :
        /\ RequestOK(r) /\ ~Comes(r)
        /\ req' = [req EXCEPT ![w] = r]
        /\ shown' \subseteq Rooms \X Participants
  <2>1. CASE /\ req' = [req EXCEPT ![w].pc = "link"]
             /\ UNCHANGED shown
    <3> DEFINE r == [req[w] EXCEPT !.pc = "link"]
    <3>1. r \in Request /\ RequestOK(r) /\ ~Comes(r)
      BY <1>2 DEF Request, Steps, RequestOK, Comes, Moving
    <3>2. req' = [req EXCEPT ![w] = r]
      BY <2>1
    <3>3. shown' \subseteq Rooms \X Participants
      BY <2>1 DEF RoomsInv, TypeOK
    <3>4. QED
      BY <3>1, <3>2, <3>3
  <2>2. CASE \E p \in req[w].invitees :
               /\ shown' = shown \cup {<<req[w].room, p>>}
               /\ req' = [req EXCEPT ![w].invitees = @ \ {p}]
    <3>1. PICK p \in req[w].invitees :
               /\ shown' = shown \cup {<<req[w].room, p>>}
               /\ req' = [req EXCEPT ![w].invitees = @ \ {p}]
      BY <2>2
    <3> DEFINE r == [req[w] EXCEPT !.invitees = req[w].invitees \ {p}]
    <3>2. req[w].invitees \in SUBSET Participants
      BY <1>2 DEF Request
    <3>3. r \in Request /\ RequestOK(r) /\ ~Comes(r)
      BY <1>2, <3>2 DEF Request, RequestOK, Comes, Moving
    <3>4. req' = [req EXCEPT ![w] = r]
      BY <3>1
    <3>5. shown' \subseteq Rooms \X Participants
      BY <1>2, <3>1, <3>2 DEF RoomsInv, TypeOK
    <3>6. QED
      BY <3>3, <3>4, <3>5
  <2>3. QED
    BY <2>1, <2>2 DEF ShowInvitation
<1>5. req' \in [Workers -> Request] /\ RequestsOK' /\ CacheRight' /\ Apart'
  BY <1>1, <1>4, PlainRequest DEF historyVars
<1>6. QED
  BY <1>1, <1>4, <1>5 DEF RoomsInv, TypeOK, historyVars

\* The older copy is stored: whose room it changes is overwritten.
LEMMA UpdateConferenceStep ==
  ASSUME RoomsInv, NEW w \in Workers, UpdateConference(w)
  PROVE  RoomsInv'
<1> DEFINE r == [req[w] EXCEPT !.pc = "show"]
<1>1. /\ At(w, "write") /\ cached' = req[w].copy
      /\ overwritten' = overwritten \cup {x \in Parties : cached[x] # req[w].copy[x]}
      /\ req' = [req EXCEPT ![w] = r]
      /\ UNCHANGED <<place, pending, handling, rooms, shown, told, sent,
                     faults, entry>>
  BY DEF UpdateConference
<1>2. req[w] \in Request /\ req[w].room \in Rooms /\ req[w].who \in Parties
  BY <1>1, CurrentRequest DEF At
<1>3. r \in Request /\ RequestOK(r) /\ ~Comes(r)
  BY <1>2 DEF Request, Steps, RequestOK, Comes, Moving
<1> HIDE DEF r
<1>4. /\ req' \in [Workers -> Request] /\ RequestsOK' /\ req'[w] = r
      /\ \A v \in Workers \ {w} : req'[v] = req[v]
  BY <1>1, <1>3, OneRequest
<1>5. Apart'
  BY <1>1, <1>3, <1>4, StayApart
<1>6. cached' \in [Parties -> Places]
  BY <1>1, <1>2 DEF Request
<1>7. overwritten' \subseteq Parties
  BY <1>1 DEF RoomsInv, TypeOK
<1>8. CacheRight'
  BY <1>1 DEF RoomsInv, CacheRight
<1>9. QED
  BY <1>1, <1>4, <1>5, <1>6, <1>7, <1>8 DEF RoomsInv, TypeOK

\* Whoever the Video API moves for a request was compared, when checked, with
\* everyone who is in the room by a check of their own, or is on the way there.
LEMMA CallStep ==
  ASSUME RoomsInv, NEW w \in Workers, Call(w)
  PROVE  RoomsInv'
<1> DEFINE c == req[w]
           x == c.who
           r == IF c.by = "Joined" THEN [c EXCEPT !.pc = "announce"] ELSE Idle
<1>1. /\ At(w, "call") /\ MoveTo(x, c.room, c.by, c.unseen)
      /\ req' = [req EXCEPT ![w] = r]
      /\ UNCHANGED <<handling, cached, rooms, shown, told, sent, faults,
                     overwritten>>
  BY DEF Call
<1>2. c \in Request /\ c.room \in Rooms /\ x \in Parties /\ c.pc = "call"
  BY <1>1, CurrentRequest DEF At
<1>3. r \in Request /\ RequestOK(r) /\ ~Comes(r)
  BY <1>2, IdleOK DEF Request, Steps, RequestOK, Comes, Moving
<1>4. c.room \in Places /\ c.by \in Ways /\ c.unseen \in SUBSET Parties
  BY <1>2 DEF Request, Places
<1> HIDE DEF r
<1>5. /\ req' \in [Workers -> Request] /\ RequestsOK' /\ req'[w] = r
      /\ \A v \in Workers \ {w} : req'[v] = req[v]
  BY <1>1, <1>3, OneRequest
<1>6. /\ place' \in [Parties -> Places]
      /\ pending' \in [Parties -> Seq(Callbacks)]
      /\ entry' \in [Parties -> [by : Ways, unseen : SUBSET Parties]]
      /\ place'[x] = c.room /\ entry'[x].by = c.by /\ entry'[x].unseen = c.unseen
      /\ \A y \in Parties \ {x} : place'[y] = place[y] /\ entry'[y] = entry[y]
      /\ CacheRight'
  BY <1>1, <1>2, <1>4, MoveIsPending
<1>7. c.by \in Checked => Comes(c)
  BY <1>2 DEF Comes, Moving
<1>8. \A v \in Workers : Comes(req'[v]) => v # w /\ req'[v] = req[v]
  BY <1>3, <1>5
<1> HIDE DEF c, x
<1>9. RequestsApart'
  BY <1>8 DEF RoomsInv, Apart, RequestsApart
<1>10. RequestsAndEntriesApart'
  <2>1. SUFFICES ASSUME NEW v \in Workers, NEW y \in Parties,
                        Comes(req'[v]), place'[y] = req'[v].room,
                        entry'[y].by \in Checked
                 PROVE  Excused(req'[v].who, req'[v].unseen, y, entry'[y].unseen)
    BY DEF RequestsAndEntriesApart
  <2>2. CASE y = x
    <3>1. Comes(c) /\ c.room = req[v].room /\ Comes(req[v])
      BY <1>6, <1>7, <1>8, <2>1, <2>2
    <3>2. Excused(req[v].who, req[v].unseen, x, c.unseen)
      BY <3>1 DEF RoomsInv, Apart, RequestsApart, c, x
    <3>3. QED
      BY <1>6, <1>8, <2>1, <2>2, <3>2
  <2>3. CASE y # x
    BY <1>6, <1>8, <2>1, <2>3 DEF RoomsInv, Apart, RequestsAndEntriesApart
  <2>4. QED
    BY <2>2, <2>3
<1>11. ASSUME NEW y \in Parties, y # x, place'[y] = c.room,
              entry'[y].by \in Checked, c.by \in Checked
       PROVE  Excused(x, c.unseen, y, entry'[y].unseen)
  <2>1. place[y] = c.room /\ entry[y].by \in Checked /\ entry'[y] = entry[y]
    BY <1>6, <1>11
  <2>2. Comes(c)
    BY <1>7, <1>11
  <2>3. QED
    BY <2>1, <2>2 DEF RoomsInv, Apart, RequestsAndEntriesApart, c, x
<1>12. EntriesApart'
  <2>1. SUFFICES ASSUME NEW a \in Parties, NEW b \in Parties,
                        place'[a] = place'[b], place'[a] \in Rooms,
                        entry'[a].by \in Checked, entry'[b].by \in Checked
                 PROVE  Excused(a, entry'[a].unseen, b, entry'[b].unseen)
    BY DEF EntriesApart
  <2>2. CASE a = b
    BY <2>2 DEF Excused
  <2>3. CASE a = x /\ b # x
    BY <1>6, <1>11, <2>1, <2>3
  <2>4. CASE a # x /\ b = x
    <3>1. Excused(x, c.unseen, a, entry'[a].unseen)
      BY <1>6, <1>11, <2>1, <2>4
    <3>2. QED
      BY <1>6, <2>4, <3>1, ExcusedBoth
  <2>5. CASE a # x /\ b # x
    <3>1. /\ place'[a] = place[a] /\ entry'[a] = entry[a]
          /\ place'[b] = place[b] /\ entry'[b] = entry[b]
      BY <1>6, <2>5
    <3>2. QED
      BY <2>1, <3>1 DEF RoomsInv, Apart, EntriesApart
  <2>6. QED
    BY <2>2, <2>3, <2>4, <2>5
<1>13. QED
  BY <1>1, <1>5, <1>6, <1>9, <1>10, <1>12 DEF RoomsInv, TypeOK, Apart

\* The one who starts a consultation is not checked.
LEMMA CreateRoomStep ==
  ASSUME RoomsInv, NEW w \in Workers, CreateRoom(w)
  PROVE  RoomsInv'
<1> DEFINE r == [req[w] EXCEPT !.pc = "write"]
           x == req[w].who
<1>1. /\ At(w, "create") /\ MoveTo(x, req[w].room, "Started", {})
      /\ rooms' = rooms \cup {req[w].room}
      /\ req' = [req EXCEPT ![w] = r]
      /\ UNCHANGED <<handling, cached, shown, told, sent, faults, overwritten>>
  BY DEF CreateRoom
<1>2. req[w] \in Request /\ req[w].room \in Rooms /\ x \in Parties
  BY <1>1, CurrentRequest DEF At
<1>3. r \in Request /\ RequestOK(r) /\ ~Comes(r)
  BY <1>2 DEF Request, Steps, RequestOK, Comes, Moving
<1> HIDE DEF r
<1>4. /\ req' \in [Workers -> Request] /\ RequestsOK' /\ req'[w] = r
      /\ \A v \in Workers \ {w} : req'[v] = req[v]
  BY <1>1, <1>3, OneRequest
<1> HIDE DEF x
<1>5. req[w].room \in Places /\ "Started" \in Ways /\ {} \in SUBSET Parties
  BY <1>2 DEF Places, Ways
<1>6. /\ place' \in [Parties -> Places]
      /\ pending' \in [Parties -> Seq(Callbacks)]
      /\ entry' \in [Parties -> [by : Ways, unseen : SUBSET Parties]]
      /\ entry'[x].by = "Started"
      /\ \A y \in Parties \ {x} : place'[y] = place[y] /\ entry'[y] = entry[y]
      /\ CacheRight'
  BY <1>1, <1>2, <1>5, MoveIsPending
<1>7. Apart'
  BY <1>2, <1>3, <1>4, <1>6, UncheckedMove DEF Checked
<1>8. rooms' \subseteq Rooms
  BY <1>1, <1>2 DEF RoomsInv, TypeOK
<1>9. QED
  BY <1>1, <1>4, <1>6, <1>7, <1>8 DEF RoomsInv, TypeOK

\* Nor is an endpoint linked to them.
LEMMA LinkEndpointStep ==
  ASSUME RoomsInv, NEW w \in Workers, LinkEndpoint(w)
  PROVE  RoomsInv'
<1>1. /\ At(w, "link")
      /\ UNCHANGED <<handling, cached, rooms, shown, sent, overwritten>>
  BY DEF LinkEndpoint
<1>2. req[w] \in Request /\ req[w].room \in Rooms /\ req[w].pc = "link"
  BY <1>1, CurrentRequest DEF At
<1>3. CASE req' = [req EXCEPT ![w] = Idle] /\ UNCHANGED <<place, pending,
                                                          entry, told, faults>>
  <2>1. req' \in [Workers -> Request] /\ RequestsOK' /\ CacheRight' /\ Apart'
    BY <1>1, <1>3, IdleOK, PlainRequest
  <2>2. QED
    BY <1>1, <1>3, <2>1 DEF RoomsInv, TypeOK
<1>4. ASSUME NEW e \in req[w].endpoints,
             MoveTo(e, req[w].room, "Linked", {}),
             req' = [req EXCEPT ![w] = Idle], UNCHANGED <<told, faults>>
      PROVE  RoomsInv'
  <2>1. /\ req' \in [Workers -> Request] /\ RequestsOK' /\ req'[w] = Idle
        /\ \A v \in Workers \ {w} : req'[v] = req[v]
    BY <1>4, IdleOK, OneRequest
  <2>2. /\ e \in Parties /\ req[w].room \in Places
        /\ "Linked" \in Ways /\ {} \in SUBSET Parties
    BY <1>2 DEF Request, Parties, Places, Ways
  <2>3. /\ place' \in [Parties -> Places]
        /\ pending' \in [Parties -> Seq(Callbacks)]
        /\ entry' \in [Parties -> [by : Ways, unseen : SUBSET Parties]]
        /\ entry'[e].by = "Linked"
        /\ \A y \in Parties \ {e} : place'[y] = place[y] /\ entry'[y] = entry[y]
        /\ CacheRight'
    BY <1>1, <1>4, <2>2, MoveIsPending
  <2>4. \A v \in Workers : Comes(req'[v]) => req'[v] = req[v]
    BY <2>1, IdleOK
  <2>5. Apart'
    BY <2>2, <2>3, <2>4, UncheckedMove DEF Checked
  <2>6. QED
    BY <1>1, <1>4, <2>1, <2>3, <2>5 DEF RoomsInv, TypeOK
<1>5. ASSUME NEW e \in req[w].endpoints, Refused,
             told' = [told EXCEPT ![e] = "Failed"],
             req' = [req EXCEPT ![w].endpoints = @ \ {e}],
             UNCHANGED <<place, pending, entry>>
      PROVE  RoomsInv'
  <2> DEFINE r == [req[w] EXCEPT !.endpoints = req[w].endpoints \ {e}]
  <2>1. req' = [req EXCEPT ![w] = r]
    BY <1>5
  <2>2. r \in Request /\ RequestOK(r) /\ ~Comes(r)
    BY <1>2 DEF Request, RequestOK, Comes, Moving
  <2> HIDE DEF r
  <2>3. req' \in [Workers -> Request] /\ RequestsOK' /\ CacheRight' /\ Apart'
    BY <1>1, <1>5, <2>1, <2>2, PlainRequest
  <2>4. told' \in [Parties -> {"None", "Transferring", "Failed"}]
    BY <1>5 DEF RoomsInv, TypeOK
  <2>5. faults' \in Nat
    BY <1>5 DEF RoomsInv, TypeOK, Refused
  <2>6. QED
    BY <1>1, <1>5, <2>3, <2>4, <2>5 DEF RoomsInv, TypeOK
<1>6. QED
  BY <1>3, <1>4, <1>5 DEF LinkEndpoint

\* Who leaves, or has gone, is in no consultation room.
LEMMA LeavesStep ==
  ASSUME RoomsInv, NEW x \in Parties, NEW callback \in Callbacks,
         callback \notin Rooms, Leaves(x, callback)
  PROVE  RoomsInv'
<1>1. /\ sent' = sent + 1
      /\ place' = [place EXCEPT ![x] = WaitingRoom]
      /\ pending' = [pending EXCEPT ![x] = Append(pending[x], callback)]
      /\ UNCHANGED <<handling, cached, rooms, shown, told, req, faults,
                     historyVars>>
  BY DEF Leaves, Send
<1>2. WaitingRoom \in Places /\ WaitingRoom \notin Rooms
  BY ConsultationRoomsAssumption DEF Places
<1>3. pending[x] \in Seq(Callbacks)
  BY DEF RoomsInv, TypeOK
<1>4. /\ Append(pending[x], callback) \in Seq(Callbacks)
      /\ Append(pending[x], callback) # <<>>
      /\ pending[x] # <<>> => Head(Append(pending[x], callback)) = Head(pending[x])
  <2>1. pending[x] # <<>> => Head(Append(pending[x], callback)) = Head(pending[x])
    BY <1>3, HeadOfAppend
  <2>2. QED
    BY <1>3, <2>1
<1>5. /\ place' \in [Parties -> Places] /\ place'[x] = WaitingRoom
      /\ \A y \in Parties \ {x} : place'[y] = place[y]
  BY <1>1, <1>2 DEF RoomsInv, TypeOK
<1>6. /\ pending' \in [Parties -> Seq(Callbacks)]
      /\ pending'[x] = Append(pending[x], callback)
      /\ \A y \in Parties \ {x} : pending'[y] = pending[y]
  BY <1>1, <1>4 DEF RoomsInv, TypeOK
<1>7. CacheRight'
  BY <1>1, <1>2, <1>4, <1>5, <1>6 DEF RoomsInv, CacheRight, historyVars
<1>8. RequestsApart'
  BY <1>1 DEF RoomsInv, Apart, RequestsApart
<1>9. \A w \in Workers : Comes(req[w]) => req[w].room \in Rooms
  BY DEF RoomsInv, RequestsOK, RequestOK, Comes, Moving
<1>10. RequestsAndEntriesApart'
  BY <1>1, <1>2, <1>5, <1>9 DEF RoomsInv, Apart, RequestsAndEntriesApart, historyVars
<1>11. EntriesApart'
  BY <1>1, <1>2, <1>5 DEF RoomsInv, Apart, EntriesApart, historyVars
<1>12. RequestsOK'
  BY <1>1 DEF RoomsInv, RequestsOK
<1>13. QED
  BY <1>1, <1>5, <1>6, <1>7, <1>8, <1>10, <1>11, <1>12
  DEF RoomsInv, TypeOK, Apart, historyVars

\* A handler reads the conference, and changes its copy for its own party.
LEMMA HandleCallbackStep ==
  ASSUME RoomsInv, NEW x \in Parties, HandleCallback(x)
  PROVE  RoomsInv'
<1> DEFINE callback == Head(pending[x])
           copy == [cached EXCEPT ![x] = RoomAfter(callback, cached[x])]
<1>1. PICK h : /\ h = [step |-> IF callback = NoRoom THEN "status" ELSE "room",
                        copy |-> copy]
               /\ handling' = [handling EXCEPT ![x] = h]
  BY DEF HandleCallback
<1>2. /\ pending[x] # <<>>
      /\ UNCHANGED <<place, pending, cached, rooms, shown, told, req, sent, faults, entry,
                     overwritten>>
  BY DEF HandleCallback, historyVars
<1>3. pending[x] \in Seq(Callbacks) /\ callback \in Callbacks
  BY <1>2, ElementOfSeq DEF RoomsInv, TypeOK
<1>4. /\ copy \in [Parties -> Places]
      /\ callback # NoRoom => copy[x] = callback
  BY <1>3 DEF RoomsInv, TypeOK, RoomAfter, Callbacks
<1> HIDE DEF callback, copy
<1>5. /\ h \in [step : {"none", "room", "status"}, copy : [Parties -> Places]]
      /\ h.copy = copy
  BY <1>1, <1>4
<1>6. /\ handling' \in [Parties -> [step : {"none", "room", "status"},
                                    copy : [Parties -> Places]]]
      /\ handling'[x] = h /\ \A y \in Parties \ {x} : handling'[y] = handling[y]
  BY <1>1, <1>5 DEF RoomsInv, TypeOK
<1>7. CacheRight'
  <2>1. SUFFICES ASSUME NEW y \in Parties, handling'[y].step # "none"
                 PROVE  /\ pending[y] # <<>>
                        /\ Head(pending[y]) # NoRoom =>
                             handling'[y].copy[y] = Head(pending[y])
    BY <1>2 DEF RoomsInv, CacheRight
  <2>2. CASE y = x
    BY <1>2, <1>4, <1>5, <1>6, <2>2 DEF callback
  <2>3. CASE y # x
    BY <1>6, <2>1, <2>3 DEF RoomsInv, CacheRight
  <2>4. QED
    BY <2>2, <2>3
<1>8. Apart' /\ RequestsOK'
  BY <1>2, StayApart DEF RoomsInv, RequestsOK
<1>9. QED
  BY <1>2, <1>6, <1>7, <1>8 DEF RoomsInv, TypeOK

\* What is stored is about the party that is handled, and whom else it changes
\* is overwritten.
LEMMA Stored ==
  ASSUME RoomsInv, NEW x \in Parties, StoreCopy(x)
  PROVE  /\ cached' \in [Parties -> Places]
         /\ overwritten' \subseteq Parties
         /\ cached'[x] = handling[x].copy[x]
         /\ \A y \in Parties \ {x} :
              y \notin overwritten' => y \notin overwritten /\ cached'[y] = cached[y]
BY DEF RoomsInv, TypeOK, StoreCopy

\* The first write of a transfer: its callback is still pending.
LEMMA UpdateConsultationRoomStep ==
  ASSUME RoomsInv, NEW x \in Parties, UpdateConsultationRoom(x)
  PROVE  RoomsInv'
<1>1. /\ handling[x].step = "room" /\ StoreCopy(x)
      /\ handling' = [handling EXCEPT ![x] = [handling[x] EXCEPT !.step = "status"]]
      /\ UNCHANGED <<place, pending, rooms, shown, told, req, sent, faults,
                     entry>>
  BY DEF UpdateConsultationRoom
<1>2. /\ handling' \in [Parties -> [step : {"none", "room", "status"},
                                    copy : [Parties -> Places]]]
      /\ handling'[x].copy = handling[x].copy
      /\ \A y \in Parties \ {x} : handling'[y] = handling[y]
  BY <1>1 DEF RoomsInv, TypeOK
<1>3. pending[x] # <<>>
  BY <1>1 DEF RoomsInv, CacheRight
<1>4. /\ cached' \in [Parties -> Places] /\ overwritten' \subseteq Parties
      /\ \A y \in Parties \ {x} :
           y \notin overwritten' => y \notin overwritten /\ cached'[y] = cached[y]
  BY <1>1, Stored
<1>5. CacheRight'
  <2>1. \A y \in Parties : handling'[y].step # "none" => handling[y].step # "none"
    BY <1>1, <1>2
  <2>2. \A y \in Parties : handling'[y].copy = handling[y].copy
    BY <1>2
  <2>3. QED
    BY <1>1, <1>3, <1>4, <2>1, <2>2 DEF RoomsInv, CacheRight
<1>6. Apart' /\ RequestsOK'
  BY <1>1, StayApart DEF RoomsInv, RequestsOK
<1>7. QED
  BY <1>1, <1>2, <1>4, <1>5, <1>6 DEF RoomsInv, TypeOK

\* The last write sets the cache right when its callback was the last one pending.
LEMMA UpdateStatusStep ==
  ASSUME RoomsInv, NEW x \in Parties, UpdateStatus(x)
  PROVE  RoomsInv'
<1>1. /\ handling[x].step = "status" /\ StoreCopy(x)
      /\ handling' = [handling EXCEPT ![x] = Unhandled]
      /\ pending' = [pending EXCEPT ![x] = Tail(pending[x])]
      /\ UNCHANGED <<place, rooms, shown, told, req, sent, faults, entry>>
  BY DEF UpdateStatus
<1>2. /\ pending[x] \in Seq(Callbacks) /\ pending[x] # <<>>
      /\ place[x] \in Rooms => pending[x][Len(pending[x])] = place[x]
      /\ Head(pending[x]) # NoRoom => handling[x].copy[x] = Head(pending[x])
  BY <1>1 DEF RoomsInv, TypeOK, CacheRight
<1>3. /\ Head(pending[x]) \in Callbacks /\ Tail(pending[x]) \in Seq(Callbacks)
      /\ Tail(pending[x]) = <<>> => Head(pending[x]) = pending[x][Len(pending[x])]
      /\ Tail(pending[x]) # <<>>
           => Tail(pending[x])[Len(Tail(pending[x]))] = pending[x][Len(pending[x])]
  <2> DEFINE s == pending[x]
  <2>1. s \in Seq(Callbacks) /\ s # <<>>
    BY <1>1, <1>2
  <2> HIDE DEF s
  <2>2. /\ Len(s) \in Nat \ {0} /\ Head(s) = s[1] /\ Head(s) \in Callbacks
        /\ Tail(s) \in Seq(Callbacks) /\ Len(Tail(s)) = Len(s) - 1
    BY <2>1
  <2>3. \A i \in 1..Len(Tail(s)) : Tail(s)[i] = s[i + 1]
    BY <2>1
  <2>4. Len(<<>>) = 0
    BY EmptySeq
  <2>5. Tail(s) # <<>> => Len(Tail(s)) \in Nat \ {0}
    BY <2>2, EmptySeq
  <2>6. QED
    <3>1. Tail(s) = <<>> => Head(s) = s[Len(s)]
      <4>1. ASSUME Tail(s) = <<>> PROVE Len(s) = 1
        <5>1. Len(Tail(s)) = 0
          BY <2>4, <4>1, Zenon
        <5> DEFINE n == Len(s)
        <5> DEFINE k == Len(Tail(s))
        <5>2. n \in Nat \ {0} /\ k = n - 1 /\ k = 0
          BY <2>2, <5>1, Zenon
        <5> HIDE DEF n, k
        <5>3. n = 1
          BY <5>2
        <5>4. QED
          BY <5>3 DEF n
      <4>2. QED
        BY <2>2, <4>1
    <3>2. Tail(s) # <<>> => Tail(s)[Len(Tail(s))] = s[Len(s)]
      BY <2>2, <2>3, <2>5
    <3>3. QED
      BY <2>2, <3>1, <3>2 DEF s
<1>4. /\ cached' \in [Parties -> Places] /\ overwritten' \subseteq Parties
      /\ cached'[x] = handling[x].copy[x]
      /\ \A y \in Parties \ {x} :
           y \notin overwritten' => y \notin overwritten /\ cached'[y] = cached[y]
  BY <1>1, Stored
<1>5. /\ pending' \in [Parties -> Seq(Callbacks)] /\ pending'[x] = Tail(pending[x])
      /\ \A y \in Parties \ {x} : pending'[y] = pending[y]
  BY <1>1, <1>3 DEF RoomsInv, TypeOK
<1>6. /\ handling' \in [Parties -> [step : {"none", "room", "status"},
                                    copy : [Parties -> Places]]]
      /\ handling'[x].step = "none"
      /\ \A y \in Parties \ {x} : handling'[y] = handling[y]
  <2>1. Unhandled \in [step : {"none", "room", "status"}, copy : [Parties -> Places]]
        /\ Unhandled.step = "none"
    BY DEF Unhandled, Nowhere, Places
  <2>2. QED
    BY <1>1, <2>1 DEF RoomsInv, TypeOK
<1>7. NoRoom \notin Rooms
  BY ConsultationRoomsAssumption DEF Places
<1>8. CacheRight'
  <2>1. \A y \in Parties \ {x} :
          /\ pending'[y] = <<>> /\ y \notin overwritten' /\ place'[y] \in Rooms
               => cached'[y] = place'[y]
          /\ pending'[y] # <<>> /\ place'[y] \in Rooms
               => pending'[y][Len(pending'[y])] = place'[y]
          /\ handling'[y].step # "none" =>
               /\ pending'[y] # <<>>
               /\ Head(pending'[y]) # NoRoom => handling'[y].copy[y] = Head(pending'[y])
    BY <1>1, <1>4, <1>5, <1>6 DEF RoomsInv, CacheRight
  <2>2. pending'[x] = <<>> /\ place'[x] \in Rooms => cached'[x] = place'[x]
    BY <1>1, <1>2, <1>3, <1>4, <1>5, <1>7
  <2>3. pending'[x] # <<>> /\ place'[x] \in Rooms
          => pending'[x][Len(pending'[x])] = place'[x]
    BY <1>1, <1>2, <1>3, <1>5
  <2>4. QED
    BY <1>6, <2>1, <2>2, <2>3 DEF CacheRight
<1>9. Apart' /\ RequestsOK'
  BY <1>1, StayApart DEF RoomsInv, RequestsOK
<1>10. QED
  BY <1>1, <1>4, <1>5, <1>6, <1>8, <1>9 DEF RoomsInv, TypeOK

-----------------------------------------------------------------------------
\* Every step keeps the invariant.
THEOREM RoomsNext == RoomsInv /\ [Next]_vars => RoomsInv'
<1>1. SUFFICES ASSUME RoomsInv, [Next]_vars PROVE RoomsInv'
  OBVIOUS
<1>2. ASSUME NEW w \in Workers, Handle(w) PROVE RoomsInv'
  BY <1>1, <1>2, TellTransferringStep, CallStep, CallRefusedStep,
     NotifyParticipantTransferringStep, CreateRoomStep, CreateRefusedStep,
     UpdateConferenceStep, ShowInvitationStep, LinkEndpointStep DEF Handle
<1>3. ASSUME NEW w \in Workers, NEW r \in Rooms, NEW p \in Participants,
             Join(w, p, r) \/ Accept(w, p, r) \/ Invite(w, p, r)
      PROVE  RoomsInv'
  BY <1>1, <1>3, JoinStep, AcceptStep, InviteStep
<1>4. ASSUME NEW w \in Workers, NEW r \in Rooms, NEW p \in Participants,
             NEW I \in SUBSET Participants, NEW E \in SUBSET Endpoints,
             Start(w, p, r, I, E)
      PROVE  RoomsInv'
  BY <1>1, <1>4, StartStep
<1>5. ASSUME NEW w \in Workers, NEW r \in Rooms, NEW e \in Endpoints,
             AddEndpoint(w, e, r)
      PROVE  RoomsInv'
  BY <1>1, <1>5, AddEndpointStep
<1>6. ASSUME NEW x \in Parties,
             \/ Leave(x) \/ (x \in Endpoints /\ Disconnect(x))
             \/ HandleCallback(x) \/ UpdateConsultationRoom(x) \/ UpdateStatus(x)
      PROVE  RoomsInv'
  <2>1. /\ WaitingRoom \in Callbacks /\ WaitingRoom \notin Rooms
        /\ NoRoom \in Callbacks /\ NoRoom \notin Rooms
    BY ConsultationRoomsAssumption DEF Places, Callbacks
  <2>2. QED
    BY <1>1, <1>6, <2>1, LeavesStep, HandleCallbackStep, UpdateConsultationRoomStep,
       UpdateStatusStep DEF Leave, Disconnect
<1>7. CASE UNCHANGED vars
  <2>1. UNCHANGED <<place, pending, handling, cached, rooms, shown, told, req, sent, faults,
                    entry, overwritten>>
    BY <1>7 DEF vars, historyVars
  <2>2. TypeOK' /\ RequestsOK' /\ CacheRight'
    BY <1>1, <2>1 DEF RoomsInv, TypeOK, RequestsOK, CacheRight
  <2>3. Apart'
    BY <1>1, <2>1, StayApart
  <2>4. QED
    BY <2>2, <2>3 DEF RoomsInv
<1>8. QED
  BY <1>1, <1>2, <1>3, <1>4, <1>5, <1>6, <1>7 DEF Next, Parties

\* The invariant holds in every behaviour.
LEMMA RoomsAlways == Spec => []RoomsInv
BY RoomsInit, RoomsNext, PTL DEF Spec

\* The variables keep their types, whatever interleaves and is refused.
THEOREM RoomsTypeCorrect == Spec => []TypeOK
<1>1. RoomsInv => TypeOK
  BY DEF RoomsInv
<1>2. QED
  BY <1>1, RoomsAlways, PTL

\* Two screened parties who both came by a check are in one consultation only if
\* one was under way, or its cached room overwritten, when the other was checked.
THEOREM CheckedStayApart == Spec => []CheckedMeetOnlyUnseen
<1>1. RoomsInv => CheckedMeetOnlyUnseen
  BY DEF RoomsInv, Apart, EntriesApart, Excused, CheckedMeetOnlyUnseen,
         Together, Unseen
<1>2. QED
  BY <1>1, RoomsAlways, PTL

-----------------------------------------------------------------------------
(***************************************************************************)
(* Transfers that are told.  A request that has told its party of one is   *)
(* about to call; if the call is refused, it tells the party Failed.       *)
(***************************************************************************)

\* A request that has told its party of a transfer is about to call; a party
\* whose transfer is announced afterwards has been moved.
Announcing(w) ==
  /\ req[w].pc \in {"tell", "call"} => req[w].by \in {"Joined", "Added", "Answered"}
  /\ req[w].pc = "tell" => req[w].by # "Joined"
  /\ req[w].pc = "announce" => entry[req[w].who].by # "None"

IsMoving(w, x) == req[w].pc = "call" /\ req[w].who = x /\ req[w].by # "Joined"

ToldRight(x) ==
  told[x] = "Transferring" =>
    entry[x].by # "None" \/ \E w \in Workers : IsMoving(w, x)

ToldInv ==
  /\ RoomsInv
  /\ \A w \in Workers : Announcing(w)
  /\ \A x \in Parties : ToldRight(x)

-----------------------------------------------------------------------------
(***************************************************************************)
(* What a step does to what is told, to the entries and to the requests.   *)
(***************************************************************************)
OthersStay(w) == \A v \in Workers : v # w => req[v]' = req[v]

\* Only x is told something, and it is this.
OnlyTold(x, what) == \A y \in Parties : told'[y] = IF y = x THEN what ELSE told[y]
CameStay == \A y \in Parties : entry[y].by # "None" => entry'[y].by # "None"

Sends(w) ==
  /\ OthersStay(w) /\ req[w].pc = "idle"
  /\ \/ req[w]'.pc = "call" /\ req[w]'.by = "Joined"
     \/ req[w]'.pc = "tell" /\ req[w]'.by \in {"Added", "Answered"}
     \/ req[w]'.pc \in {"show", "create"}
  /\ UNCHANGED <<told, entry>>

Tells(w) ==
  /\ OthersStay(w) /\ req[w].pc = "tell" /\ req[w]'.pc = "call"
  /\ req[w]'.who = req[w].who /\ req[w]'.by = req[w].by
  /\ OnlyTold(req[w].who, "Transferring")
  /\ UNCHANGED entry

Moves(w) ==
  /\ OthersStay(w) /\ req[w].pc = "call"
  /\ req[w]'.pc = "idle" \/ (req[w]'.pc = "announce" /\ req[w]'.who = req[w].who)
  /\ \A y \in Parties : entry'[y].by = IF y = req[w].who THEN req[w].by ELSE entry[y].by
  /\ UNCHANGED told

IsRefused(w) ==
  /\ OthersStay(w) /\ req[w].pc = "call" /\ req[w]'.pc = "idle"
  /\ \/ req[w].by = "Joined" /\ UNCHANGED told
     \/ OnlyTold(req[w].who, "Failed")
  /\ UNCHANGED entry

Announces(w) ==
  /\ OthersStay(w) /\ req[w].pc = "announce" /\ req[w]'.pc = "idle"
  /\ OnlyTold(req[w].who, "Transferring")
  /\ UNCHANGED entry

Starts(w) ==
  /\ OthersStay(w) /\ req[w].pc \in {"create", "write", "show", "link"}
  /\ req[w]'.pc \in {"write", "show", "link", "idle"}
  /\ \A y \in Parties : told'[y] \in {told[y], "Failed"}
  /\ CameStay

RoomMove ==
  \/ UNCHANGED <<req, told, entry>>
  \/ \E w \in Workers :
       Sends(w) \/ Tells(w) \/ Moves(w) \/ IsRefused(w) \/ Announces(w) \/ Starts(w)

\* The request one step leaves behind.
LEMMA TheOthersStay ==
  ASSUME RoomsInv, NEW w \in Workers, NEW r, req' = [req EXCEPT ![w] = r]
  PROVE  req[w]' = r /\ OthersStay(w)
BY DEF RoomsInv, TypeOK, OthersStay

LEMMA ItIsTold ==
  ASSUME RoomsInv, NEW x \in Parties, NEW what, told' = [told EXCEPT ![x] = what]
  PROVE  OnlyTold(x, what)
BY DEF RoomsInv, TypeOK, OnlyTold

LEMMA ItCame ==
  ASSUME RoomsInv, NEW x \in Parties, NEW r, NEW by, NEW U, MoveTo(x, r, by, U)
  PROVE  \A y \in Parties : entry'[y].by = IF y = x THEN by ELSE entry[y].by
<1>1. PICK e : e = [by |-> by, unseen |-> U]
  OBVIOUS
<1>2. entry' = [entry EXCEPT ![x] = e] /\ e.by = by
  BY <1>1 DEF MoveTo
<1> QED
  BY <1>2 DEF RoomsInv, TypeOK

LEMMA JoinSends ==
  ASSUME RoomsInv, NEW w \in Workers, NEW p, NEW room, Join(w, p, room)
  PROVE  Sends(w)
<1>1. PICK r : r = [Idle EXCEPT !.pc = "call", !.by = "Joined",
                          !.who = p, !.room = room, !.unseen = OnTheWay]
  OBVIOUS
<1>2. r.pc = "call" /\ r.by = "Joined"
  BY <1>1 DEF Idle
<1>3. req' = [req EXCEPT ![w] = r] /\ req[w].pc = "idle" /\ UNCHANGED <<told,
                                                                        entry>>
  BY <1>1 DEF Join, At, historyVars
<1> QED
  BY <1>2, <1>3, TheOthersStay DEF Sends

LEMMA AddEndpointSends ==
  ASSUME RoomsInv, NEW w \in Workers, NEW e, NEW room, AddEndpoint(w, e, room)
  PROVE  Sends(w)
<1>1. PICK r : r = [Idle EXCEPT !.pc = "tell", !.by = "Added",
                          !.who = e, !.room = room, !.unseen = OnTheWay]
  OBVIOUS
<1>2. r.pc = "tell" /\ r.by = "Added"
  BY <1>1 DEF Idle
<1>3. req' = [req EXCEPT ![w] = r] /\ req[w].pc = "idle" /\ UNCHANGED <<told,
                                                                        entry>>
  BY <1>1 DEF AddEndpoint, At, historyVars
<1> QED
  BY <1>2, <1>3, TheOthersStay DEF Sends

LEMMA AcceptSends ==
  ASSUME RoomsInv, NEW w \in Workers, NEW p, NEW room, Accept(w, p, room)
  PROVE  Sends(w)
<1>1. PICK r : r = [Idle EXCEPT !.pc = "tell", !.by = "Answered",
                          !.who = p, !.room = room]
  OBVIOUS
<1>2. r.pc = "tell" /\ r.by = "Answered"
  BY <1>1 DEF Idle
<1>3. req' = [req EXCEPT ![w] = r] /\ req[w].pc = "idle" /\ UNCHANGED <<told,
                                                                        entry>>
  BY <1>1 DEF Accept, At, historyVars
<1> QED
  BY <1>2, <1>3, TheOthersStay DEF Sends

LEMMA InviteSends ==
  ASSUME RoomsInv, NEW w \in Workers, NEW p, NEW room, Invite(w, p, room)
  PROVE  Sends(w)
<1>1. PICK r : r = [Idle EXCEPT !.pc = "show", !.room = room, !.invitees = {p}]
  OBVIOUS
<1>2. r.pc = "show"
  BY <1>1 DEF Idle
<1>3. req' = [req EXCEPT ![w] = r] /\ req[w].pc = "idle" /\ UNCHANGED <<told,
                                                                        entry>>
  BY <1>1 DEF Invite, At, historyVars
<1> QED
  BY <1>2, <1>3, TheOthersStay DEF Sends

LEMMA StartSends ==
  ASSUME RoomsInv, NEW w \in Workers, NEW p, NEW room, NEW I, NEW E, Start(w, p, room, I, E)
  PROVE  Sends(w)
<1>1. PICK r : r = [Idle EXCEPT !.pc = "create", !.who = p, !.room = room,
                          !.invitees = I, !.endpoints = E \cap EndpointsOf[p],
                          !.copy = cached]
  OBVIOUS
<1>2. r.pc = "create"
  BY <1>1 DEF Idle
<1>3. req' = [req EXCEPT ![w] = r] /\ req[w].pc = "idle" /\ UNCHANGED <<told,
                                                                        entry>>
  BY <1>1 DEF Start, At, historyVars
<1> QED
  BY <1>2, <1>3, TheOthersStay DEF Sends

LEMMA TellTransferringTells ==
  ASSUME RoomsInv, NEW w \in Workers, TellTransferring(w)
  PROVE  Tells(w)
<1>1. req[w] \in Request /\ req[w].pc = "tell" /\ req[w].who \in Parties
  BY DEF TellTransferring, At, RoomsInv, TypeOK, RequestsOK, RequestOK
<1>2. PICK r : r = [req[w] EXCEPT !.pc = "call"]
  OBVIOUS
<1>3. r.pc = "call" /\ r.who = req[w].who /\ r.by = req[w].by
  BY <1>1, <1>2 DEF Request
<1>4. req' = [req EXCEPT ![w] = r] /\ told' = [told EXCEPT ![req[w].who] = "Transferring"]
      /\ UNCHANGED entry
  BY <1>2 DEF TellTransferring, historyVars, RoomsInv, TypeOK
<1>5. req[w]' = r /\ OthersStay(w)
  BY <1>4, TheOthersStay
<1>6. \A y \in Parties : told'[y] = IF y = req[w].who THEN "Transferring" ELSE told[y]
  BY <1>1, <1>4 DEF RoomsInv, TypeOK
<1> QED
  BY <1>1, <1>3, <1>4, <1>5, <1>6 DEF Tells, OnlyTold

LEMMA CallMoves ==
  ASSUME RoomsInv, NEW w \in Workers, Call(w)
  PROVE  Moves(w)
<1>1. req[w] \in Request /\ req[w].pc = "call" /\ req[w].who \in Parties
  BY DEF Call, At, RoomsInv, TypeOK, RequestsOK, RequestOK
<1>2. PICK r : r = IF req[w].by = "Joined" THEN [req[w] EXCEPT !.pc = "announce"] ELSE Idle
  OBVIOUS
<1>3. r.pc = "idle" \/ (r.pc = "announce" /\ r.who = req[w].who)
  BY <1>1, <1>2 DEF Request, Idle
<1>4. /\ req' = [req EXCEPT ![w] = r] /\ UNCHANGED told
      /\ MoveTo(req[w].who, req[w].room, req[w].by, req[w].unseen)
  BY <1>2 DEF Call
<1>5. req[w]' = r /\ OthersStay(w)
  BY <1>4, TheOthersStay
<1>6. \A y \in Parties : entry'[y].by = IF y = req[w].who THEN req[w].by ELSE entry[y].by
  <2>1. PICK x, by, room, U :
          /\ x = req[w].who /\ x \in Parties /\ by = req[w].by
          /\ room = req[w].room /\ U = req[w].unseen
    BY <1>1
  <2>2. MoveTo(x, room, by, U)
    BY <1>4, <2>1 DEF MoveTo
  <2> QED
    BY <2>1, <2>2, ItCame
<1> QED
  BY <1>1, <1>3, <1>4, <1>5, <1>6 DEF Moves

LEMMA CallRefusedIs ==
  ASSUME RoomsInv, NEW w \in Workers, CallRefused(w)
  PROVE  IsRefused(w)
<1>1. req[w].pc = "call" /\ req[w].who \in Parties /\ Idle.pc = "idle"
  BY DEF CallRefused, At, RoomsInv, RequestsOK, RequestOK, Idle
<1>2. /\ req' = [req EXCEPT ![w] = Idle] /\ UNCHANGED entry
      /\ \/ req[w].by = "Joined" /\ UNCHANGED told
         \/ told' = [told EXCEPT ![req[w].who] = "Failed"]
  BY DEF CallRefused, historyVars
<1>3. req[w]' = Idle /\ OthersStay(w)
  BY <1>2, TheOthersStay
<1>4. \/ req[w].by = "Joined" /\ UNCHANGED told
      \/ \A y \in Parties : told'[y] = IF y = req[w].who THEN "Failed" ELSE told[y]
  BY <1>1, <1>2 DEF RoomsInv, TypeOK
<1> QED
  BY <1>1, <1>2, <1>3, <1>4 DEF IsRefused, OnlyTold

LEMMA NotifyAnnounces ==
  ASSUME RoomsInv, NEW w \in Workers, NotifyParticipantTransferring(w)
  PROVE  Announces(w)
<1>1. req[w].pc = "announce" /\ req[w].who \in Parties /\ Idle.pc = "idle"
  BY DEF NotifyParticipantTransferring, At, RoomsInv, RequestsOK, RequestOK, Idle
<1>2. /\ req' = [req EXCEPT ![w] = Idle] /\ UNCHANGED entry
      /\ told' = [told EXCEPT ![req[w].who] = "Transferring"]
  BY DEF NotifyParticipantTransferring, historyVars
<1>3. req[w]' = Idle /\ OthersStay(w)
  BY <1>2, TheOthersStay
<1>4. \A y \in Parties : told'[y] = IF y = req[w].who THEN "Transferring" ELSE told[y]
  BY <1>1, <1>2 DEF RoomsInv, TypeOK
<1> QED
  BY <1>1, <1>2, <1>3, <1>4 DEF Announces, OnlyTold

LEMMA StartingIs ==
  ASSUME RoomsInv, NEW w \in Workers,
         \/ CreateRoom(w) \/ CreateRefused(w) \/ UpdateConference(w) \/ ShowInvitation(w)
         \/ LinkEndpoint(w)
  PROVE  Starts(w)
<1>1. /\ req[w] \in Request /\ req[w].pc \in {"create", "write", "show", "link"}
      /\ req[w].pc = "create" => req[w].who \in Parties
      /\ req[w].endpoints \in SUBSET Parties /\ Idle.pc = "idle"
  BY DEF CreateRoom, CreateRefused, UpdateConference, ShowInvitation, LinkEndpoint, At, RoomsInv,
    TypeOK, RequestsOK, RequestOK, Idle, Request, Parties
<1>2. \E r : req' = [req EXCEPT ![w] = r] /\ r.pc \in {"write", "show", "link", "idle"}
  <2>1. CASE CreateRefused(w)
    BY <1>1, <2>1 DEF CreateRefused
  <2>2. CASE CreateRoom(w)
    <3>1. PICK r : r = [req[w] EXCEPT !.pc = "write"]
      OBVIOUS
    <3>2. r.pc = "write"
      BY <1>1, <3>1 DEF Request
    <3>3. req' = [req EXCEPT ![w] = r]
      BY <2>2, <3>1 DEF CreateRoom, RoomsInv, TypeOK
    <3> QED
      BY <3>2, <3>3
  <2>3. CASE UpdateConference(w)
    <3>1. PICK r : r = [req[w] EXCEPT !.pc = "show"]
      OBVIOUS
    <3>2. r.pc = "show"
      BY <1>1, <3>1 DEF Request
    <3>3. req' = [req EXCEPT ![w] = r]
      BY <2>3, <3>1 DEF UpdateConference, RoomsInv, TypeOK
    <3> QED
      BY <3>2, <3>3
  <2>4. CASE ShowInvitation(w)
    <3>1. \/ req' = [req EXCEPT ![w].pc = "link"]
          \/ \E p \in req[w].invitees : req' = [req EXCEPT ![w].invitees = @ \ {p}]
      BY <2>4 DEF ShowInvitation
    <3>2. CASE req' = [req EXCEPT ![w].pc = "link"]
      <4>1. PICK r : r = [req[w] EXCEPT !.pc = "link"]
        OBVIOUS
      <4>2. r.pc = "link"
        BY <1>1, <4>1 DEF Request
      <4>3. req' = [req EXCEPT ![w] = r]
        BY <3>2, <4>1 DEF RoomsInv, TypeOK
      <4> QED
        BY <4>2, <4>3
    <3>3. ASSUME NEW p \in req[w].invitees, req' = [req EXCEPT ![w].invitees = @ \ {p}]
          PROVE  \E r : req' = [req EXCEPT ![w] = r] /\ r.pc = "show"
      <4>1. PICK r : r = [req[w] EXCEPT !.invitees = @ \ {p}]
        OBVIOUS
      <4>2. r.pc = "show"
        BY <1>1, <2>4, <4>1 DEF ShowInvitation, At, Request
      <4>3. req' = [req EXCEPT ![w] = r]
        BY <3>3, <4>1 DEF RoomsInv, TypeOK
      <4> QED
        BY <4>2, <4>3
    <3> QED
      BY <3>1, <3>2, <3>3
  <2>5. CASE LinkEndpoint(w)
    <3>1. \/ req' = [req EXCEPT ![w] = Idle]
          \/ \E e \in req[w].endpoints : req' = [req EXCEPT ![w].endpoints = @ \ {e}]
      BY <2>5 DEF LinkEndpoint
    <3>2. ASSUME NEW e \in req[w].endpoints, req' = [req EXCEPT ![w].endpoints = @ \ {e}]
          PROVE  \E r : req' = [req EXCEPT ![w] = r] /\ r.pc = "link"
      <4>1. PICK r : r = [req[w] EXCEPT !.endpoints = @ \ {e}]
        OBVIOUS
      <4>2. r.pc = "link"
        BY <1>1, <2>5, <4>1 DEF LinkEndpoint, At, Request
      <4>3. req' = [req EXCEPT ![w] = r]
        BY <3>2, <4>1 DEF RoomsInv, TypeOK
      <4> QED
        BY <4>2, <4>3
    <3> QED
      BY <1>1, <3>1, <3>2
  <2> QED
    BY <2>1, <2>2, <2>3, <2>4, <2>5
<1>3. req[w]'.pc \in {"write", "show", "link", "idle"} /\ OthersStay(w)
  BY <1>2, TheOthersStay
<1>4. \A y \in Parties : told'[y] \in {told[y], "Failed"}
  BY <1>1 DEF CreateRoom, CreateRefused, UpdateConference, ShowInvitation, LinkEndpoint, RoomsInv,
    TypeOK
<1>5. CameStay
  <2>1. CASE CreateRoom(w)
    <3>1. PICK x, room : x = req[w].who /\ room = req[w].room /\ x \in Parties
      BY <1>1, <2>1 DEF CreateRoom, At
    <3>2. MoveTo(x, room, "Started", {})
      BY <2>1, <3>1 DEF CreateRoom, MoveTo
    <3> QED
      BY <3>1, <3>2, ItCame DEF CameStay
  <2>2. CASE LinkEndpoint(w)
    <3>1. UNCHANGED entry \/ \E e \in req[w].endpoints : MoveTo(e, req[w].room, "Linked", {})
      BY <2>2 DEF LinkEndpoint
    <3>2. ASSUME NEW e \in req[w].endpoints, MoveTo(e, req[w].room, "Linked", {})
          PROVE  CameStay
      <4>1. PICK room : room = req[w].room
        OBVIOUS
      <4>2. MoveTo(e, room, "Linked", {}) /\ e \in Parties
        BY <1>1, <3>2, <4>1 DEF MoveTo
      <4> QED
        BY <4>2, ItCame DEF CameStay
    <3> QED
      BY <3>1, <3>2 DEF CameStay
  <2>3. CASE ~CreateRoom(w) /\ ~LinkEndpoint(w)
    BY <2>3 DEF CreateRefused, UpdateConference, ShowInvitation, historyVars, CameStay
  <2> QED
    BY <2>1, <2>2, <2>3
<1> QED
  BY <1>1, <1>3, <1>4, <1>5 DEF Starts

LEMMA RoomMoves ==
  ASSUME RoomsInv, Next
  PROVE  RoomMove
<1>1. ASSUME NEW w \in Workers, Handle(w) PROVE RoomMove
  BY <1>1, TellTransferringTells, CallMoves, CallRefusedIs, NotifyAnnounces, StartingIs
    DEF Handle, RoomMove
<1>2. ASSUME NEW w \in Workers, NEW r \in Rooms, NEW p \in Participants,
             \/ Join(w, p, r) \/ Accept(w, p, r) \/ Invite(w, p, r)
             \/ \E I \in SUBSET Participants, E \in SUBSET Endpoints : Start(w, p, r, I, E)
      PROVE  RoomMove
  BY <1>2, JoinSends, AcceptSends, InviteSends, StartSends DEF RoomMove
<1>3. ASSUME NEW w \in Workers, NEW r \in Rooms, NEW e \in Endpoints, AddEndpoint(w, e, r)
      PROVE  RoomMove
  BY <1>3, AddEndpointSends DEF RoomMove
<1>4. ASSUME NEW x,
             \/ Leave(x) \/ Disconnect(x)
             \/ HandleCallback(x) \/ UpdateConsultationRoom(x) \/ UpdateStatus(x)
      PROVE  RoomMove
  BY <1>4 DEF Leave, Disconnect, Leaves, HandleCallback, UpdateConsultationRoom,
              UpdateStatus, historyVars, RoomMove
<1> QED
  BY <1>1, <1>2, <1>3, <1>4 DEF Next

-----------------------------------------------------------------------------
\* Whoever has come has come.
LEMMA CameStays ==
  ASSUME ToldInv, RoomMove
  PROVE  CameStay
<1>1. ASSUME NEW w \in Workers, Moves(w) PROVE CameStay
  <2>1. req[w].by # "None"
    BY <1>1 DEF ToldInv, Announcing, Moves
  <2> QED
    BY <1>1, <2>1 DEF Moves, CameStay
<1> QED
  BY <1>1 DEF RoomMove, Sends, Tells, IsRefused, Announces, Starts, CameStay

LEMMA AnnouncingStep ==
  ASSUME ToldInv, RoomMove, NEW w \in Workers
  PROVE  Announcing(w)'
<1>0. CameStay /\ Announcing(w)
  BY CameStays DEF ToldInv
<1>1. req[w].pc = "announce" => req[w].who \in Parties
  BY DEF ToldInv, RoomsInv, RequestsOK, RequestOK
<1>2. CASE req[w]' = req[w]
  <2>1. entry'[req[w]'.who].by # "None" \/ req[w]'.pc # "announce"
    BY <1>0, <1>1, <1>2 DEF Announcing, CameStay
  <2> QED
    BY <1>0, <1>2, <2>1 DEF Announcing
<1>3. CASE Moves(w)
  <2>1. req[w].who \in Parties /\ req[w].by # "None"
    BY <1>0, <1>3 DEF Moves, Announcing, ToldInv, RoomsInv, RequestsOK, RequestOK
  <2> QED
    BY <1>3, <2>1 DEF Moves, Announcing
<1>4. CASE Sends(w) \/ Tells(w) \/ IsRefused(w) \/ Announces(w) \/ Starts(w)
  BY <1>0, <1>4 DEF Sends, Tells, IsRefused, Announces, Starts, Announcing
<1> QED
  BY <1>2, <1>3, <1>4 DEF RoomMove, Sends, Tells, Moves, IsRefused, Announces, Starts, OthersStay

LEMMA ToldRightStep ==
  ASSUME ToldInv, RoomMove, NEW x \in Parties
  PROVE  ToldRight(x)'
<1> SUFFICES ASSUME told'[x] = "Transferring", entry'[x].by = "None"
             PROVE  \E w \in Workers : IsMoving(w, x)'
  BY DEF ToldRight
<1>0. entry[x].by = "None"
  BY CameStays DEF CameStay
<1>1. told[x] = "Transferring" => \E v \in Workers : IsMoving(v, x)
  BY <1>0 DEF ToldInv, ToldRight
<1>2. CASE UNCHANGED <<req, told, entry>>
  BY <1>1, <1>2 DEF IsMoving
<1>3. CASE \E u \in Workers : Sends(u) \/ Starts(u)
  <2>1. PICK u \in Workers : Sends(u) \/ Starts(u)
    BY <1>3
  <2>2. PICK v \in Workers : IsMoving(v, x)
    BY <1>1, <2>1 DEF Sends, Starts
  <2>3. req[v]' = req[v]
    BY <2>1, <2>2 DEF Sends, Starts, OthersStay, IsMoving
  <2> QED
    BY <2>2, <2>3 DEF IsMoving
<1>4. CASE \E u \in Workers : Tells(u)
  <2>1. PICK u \in Workers : Tells(u)
    BY <1>4
  <2>2. CASE x = req[u].who
    BY <2>1, <2>2 DEF Tells, IsMoving, ToldInv, Announcing
  <2>3. CASE x # req[u].who
    <3>1. PICK v \in Workers : IsMoving(v, x)
      BY <1>1, <2>1, <2>3 DEF Tells, OnlyTold
    <3>2. req[v]' = req[v]
      BY <2>1, <3>1 DEF Tells, OthersStay, IsMoving
    <3> QED
      BY <3>1, <3>2 DEF IsMoving
  <2> QED
    BY <2>2, <2>3
<1>5. CASE \E u \in Workers : Moves(u)
  <2>1. PICK u \in Workers : Moves(u)
    BY <1>5
  <2>2. PICK v \in Workers : IsMoving(v, x)
    BY <1>1, <2>1 DEF Moves
  <2>3. u # v
    BY <2>1, <2>2 DEF Moves, IsMoving, ToldInv, Announcing
  <2> QED
    BY <2>1, <2>2, <2>3 DEF Moves, OthersStay, IsMoving
<1>6. CASE \E u \in Workers : IsRefused(u)
  <2>1. PICK u \in Workers : IsRefused(u)
    BY <1>6
  <2>2. PICK v \in Workers : IsMoving(v, x)
    BY <1>1, <2>1 DEF IsRefused, OnlyTold
  <2>3. u # v
    BY <2>1, <2>2 DEF IsRefused, OnlyTold, IsMoving
  <2> QED
    BY <2>1, <2>2, <2>3 DEF IsRefused, OthersStay, IsMoving
<1>7. CASE \E u \in Workers : Announces(u)
  <2>1. PICK u \in Workers : Announces(u)
    BY <1>7
  <2>2. x # req[u].who
    BY <1>0, <2>1 DEF Announces, ToldInv, Announcing
  <2>3. PICK v \in Workers : IsMoving(v, x)
    BY <1>1, <2>1, <2>2 DEF Announces, OnlyTold
  <2>4. req[v]' = req[v]
    BY <2>1, <2>3 DEF Announces, OthersStay, IsMoving
  <2> QED
    BY <2>3, <2>4 DEF IsMoving
<1> QED
  BY <1>2, <1>3, <1>4, <1>5, <1>6, <1>7 DEF RoomMove

LEMMA ToldInit == Init => ToldInv
<1> SUFFICES ASSUME Init PROVE ToldInv
  OBVIOUS
<1>1. \A w \in Workers : req[w].pc = "idle"
  BY DEF Init, Idle
<1>2. \A x \in Parties : told[x] # "Transferring"
  BY DEF Init
<1> QED
  BY <1>1, <1>2, RoomsInit DEF ToldInv, Announcing, ToldRight

LEMMA ToldNext == ToldInv /\ [Next]_vars => ToldInv'
<1> SUFFICES ASSUME ToldInv, [Next]_vars PROVE ToldInv'
  OBVIOUS
<1>1. RoomsInv'
  BY RoomsNext DEF ToldInv
<1>2. RoomMove
  <2>1. CASE UNCHANGED vars
    BY <2>1 DEF vars, historyVars, RoomMove
  <2>2. CASE Next
    BY <2>2, RoomMoves DEF ToldInv
  <2> QED
    BY <2>1, <2>2
<1> QED
  BY <1>1, <1>2, AnnouncingStep, ToldRightStep DEF ToldInv

\* When no request is in progress, a party whose clients were last told
\* Transferring has been moved at some time: whatever the Video API refuses,
\* AddEndpointToConsultationAsync and RespondToConsultationRequestAsync tell it as
\* Failed, and JoinPrivateConsultation tells nothing before the move.
THEOREM ToldAreMoved == Spec => []TransferringIsMoved
<1>1. ToldInv => TransferringIsMoved
  BY DEF ToldInv, ToldRight, IsMoving, At, TransferringIsMoved
<1> QED
  BY <1>1, ToldInit, ToldNext, PTL DEF Spec
=============================================================================
