------------------------ MODULE ConferenceMembership ------------------------
(***************************************************************************)
(* Who takes part in a hearing, in the Video API and in the cache: internal*)
(* events that tell of changes in the bookings                             *)
(* (InternalEventParticipantController.cs, InternalEventController.cs),    *)
(* people who join by a link or as staff, people whom an officer removes   *)
(* (ParticipantService.cs, ParticipantsController.cs), and the handlers of *)
(* all other events, which read the conference and write it back.          *)
(*                                                                         *)
(* Every request goes from await to await beside the others.  That is the  *)
(* whole of it: the statuses and rooms are in ConferenceEvents, and a call *)
(* that fails for another reason than a removed conference or participant  *)
(* is left out.                                                            *)
(***************************************************************************)
EXTENDS Naturals, Sequences

CONSTANTS
  Persons,
  Visitors,       \* those of them who join by a link or as staff; the others
                  \* are booked
  FirstMembers,   \* who takes part at first
  Handlers,       \* the requests that can be in progress at once
  Uncached,       \* the cache has no such conference
  MaxBookings     \* bound on the changes of a behaviour

ASSUME ConferenceMembershipAssumption ==
  /\ FirstMembers \subseteq Persons /\ Visitors \subseteq Persons
  /\ \A some \in SUBSET Persons : Uncached # some
  /\ MaxBookings \in Nat

VARIABLES
  members,        \* the participants the Video API has
  joined,         \* the visitors who have joined: one who comes back is another
                  \* participant, with an id of their own
  cancelled,      \* it has no such conference any more
  cached,         \* the participants of the cached conference, or Uncached
  posted,         \* internal events on their way, in no order
  tasks,          \* tasks[w]: the request w is at, and its copy
  shownLists,     \* the participants everyone was last told
  bookings,       \* bounded by MaxBookings
  behind,         \* history: an overtaken copy was written, and the Video API
                  \* has not been asked again
  overlapped,     \* history: an overtaken list was told
  missedOut       \* history: who was dropped from the cached conference by a
                  \* request that does not know of their removal

bookingVars == <<members, joined, cancelled, posted, bookings>>
memberHistory == <<behind, overlapped, missedOut>>
memberVars == <<bookingVars, cached, tasks, shownLists, memberHistory>>

Idling == [kind |-> "none", at |-> 0, filling |-> FALSE, copy |-> {},
           about |-> {}, overtaken |-> FALSE]

\* Mutant: whom to tell of the removal is looked up when they are gone.
CourseLate ==
  [participantsUpdated |-> <<"query", "store", "look", "tell">>,
   refresh |-> <<"query", "store", "read">>,
   add     |-> <<"read", "write", "tell">>,
   remove  |-> <<"read", "ask", "write", "tell">>,
   event   |-> <<"read", "write">>,
   cancel  |-> <<"read", "forget">>]

\* The awaits of each kind of request.
Course ==
  [participantsUpdated |-> <<"look", "query", "store", "read", "tell">>,
   refresh |-> <<"query", "store", "read">>,
   add     |-> <<"read", "write", "tell">>,
   remove  |-> <<"read", "ask", "write", "tell">>,
   event   |-> <<"read", "write">>,
   cancel  |-> <<"read", "forget">>]

StepOf(t) == IF t.kind = "none" THEN "idle"
             ELSE IF t.filling THEN "fill" ELSE Course[t.kind][t.at]

Doing(w, step) == StepOf(tasks[w]) = step

Onward(t) == IF t.at = Len(Course[t.kind]) THEN Idling
             ELSE [t EXCEPT !.at = @ + 1]

Continue(w, t) == tasks' = [tasks EXCEPT ![w] = t]

\* What a request holds at these steps is not the newest any more.
Overtaken(t, steps) ==
  [t EXCEPT !.overtaken = @ \/ StepOf(t) \in steps]

\* The same for the others, while w goes on.
Overtaking(w, t, steps) ==
  tasks' = [v \in Handlers |->
              IF v = w THEN t ELSE Overtaken(tasks[v], steps)]

\* What came from the Video API is overtaken by a change there, and what came
\* from the cache by a write, or its end.
FromApi == {"fill", "store"}
FromCache == {"ask", "write", "tell"}

-----------------------------------------------------------------------------
(***************************************************************************)
(* ConferenceService.                                                      *)
(***************************************************************************)
\* Who is disconnected has joined before.
MayBeDisconnected(some, conference) ==
  /\ some \subseteq conference
  /\ \A v \in Handlers : tasks[v].kind = "add" => tasks[v].about # some

\* A request has the conference it asked for.  An update of the participants
\* keeps of the removed those who are in it; a removal of somebody who is not,
\* or is not disconnected, ends.
WithConference(t, conference) ==
  LET got == [t EXCEPT !.copy = conference, !.filling = FALSE]
  IN  IF t.kind = "participantsUpdated" /\ Course[t.kind][t.at] = "look"
        THEN Onward([got EXCEPT !.about = @ \cap conference])
      ELSE IF t.kind = "remove" /\ ~MayBeDisconnected(t.about, conference)
        THEN Idling
      ELSE Onward(got)

\* Who believes to be in the hearing, and is not in this conference.
Dropped(conference) ==
  {p \in Persons \ conference : p \in shownLists[p]}

\* GetConference: the cache has it, or the Video API answers, or has no such
\* conference.
GetConference(w, t) ==
  Continue(w,
    IF cached # Uncached
      THEN WithConference([t EXCEPT !.overtaken = FALSE], cached)
    ELSE IF cancelled THEN Idling
    ELSE [t EXCEPT !.filling = TRUE, !.copy = members, !.overtaken = FALSE])

ReadConference(w) ==
  /\ Doing(w, "look") \/ Doing(w, "read")
  /\ GetConference(w, tasks[w])
  /\ UNCHANGED <<bookingVars, cached, shownLists, memberHistory>>

Fill(w) ==
  /\ Doing(w, "fill")
  /\ cached' = tasks[w].copy
  /\ behind' = (behind \/ tasks[w].overtaken)
  /\ missedOut' = missedOut \cup Dropped(tasks[w].copy)
  /\ Overtaking(w, WithConference(tasks[w], tasks[w].copy), FromCache)
  /\ UNCHANGED <<bookingVars, shownLists, overlapped>>

\* ForceGetConference: asked, stored, and read again.
ForceQuery(w) ==
  /\ Doing(w, "query")
  /\ Continue(w, IF cancelled THEN Idling
                 ELSE Onward([tasks[w] EXCEPT !.copy = members,
                                              !.overtaken = FALSE]))
  /\ UNCHANGED <<bookingVars, cached, shownLists, memberHistory>>

ForceStore(w) ==
  /\ Doing(w, "store")
  /\ cached' = tasks[w].copy
  /\ behind' = tasks[w].overtaken
  /\ missedOut' =
       missedOut \cup (Dropped(tasks[w].copy) \ tasks[w].about)
  /\ Overtaking(w, Onward(tasks[w]), FromCache)
  /\ UNCHANGED <<bookingVars, shownLists, overlapped>>

\* Mutant: the removed participant stays in the conference.
ChangedCopy(t) == IF t.kind = "add" THEN t.copy \cup t.about ELSE t.copy

\* AddParticipant, RemoveParticipantById; other events leave them as they are.
Changed(t) ==
  IF t.kind = "add" THEN t.copy \cup t.about
  ELSE IF t.kind = "remove" THEN t.copy \ t.about
  ELSE t.copy

\* UpdateConferenceAsync
UpdateConference(w) ==
  /\ Doing(w, "write")
  /\ cached' = Changed(tasks[w])
  /\ behind' = (behind \/ tasks[w].overtaken)
  /\ Overtaking(w, Onward([tasks[w] EXCEPT !.copy = Changed(tasks[w])]),
                FromCache)
  /\ UNCHANGED <<bookingVars, shownLists, overlapped, missedOut>>

\* RemoveConference; the people in the copy are told that it is cancelled.
RemoveConference(w) ==
  /\ Doing(w, "forget")
  /\ cached' = Uncached
  /\ Overtaking(w, Onward(tasks[w]), FromCache)
  /\ UNCHANGED <<bookingVars, shownLists, memberHistory>>

\* PushParticipantsUpdatedEvent: those in the conference, and the removed.
PushParticipantsUpdated(w) ==
  /\ Doing(w, "tell")
  /\ LET t == tasks[w]
         toNotify == t.copy \cup t.about
     IN  /\ shownLists' = [p \in Persons |->
                             IF p \in toNotify THEN t.copy ELSE shownLists[p]]
         /\ overlapped' = (overlapped \/ t.overtaken \/ behind)
         /\ missedOut' = missedOut \ toNotify
         /\ Continue(w, Onward(t))
  /\ UNCHANGED <<bookingVars, cached, behind>>

-----------------------------------------------------------------------------
(***************************************************************************)
(* The requests.                                                           *)
(***************************************************************************)
Begins(kind, about) == [Idling EXCEPT !.kind = kind, !.at = 1, !.about = about]

\* A change in the bookings is in the Video API before it is posted.
Book(kind, about, changed, gone) ==
  /\ bookings < MaxBookings /\ ~cancelled
  /\ bookings' = bookings + 1
  /\ members' = changed
  /\ cancelled' = gone
  /\ posted' = posted \cup {[kind |-> kind, about |-> about, id |-> bookings]}
  /\ tasks' = [v \in Handlers |->
                 Overtaken(tasks[v], IF changed # members \/ gone
                                       THEN FromApi ELSE {})]
  /\ UNCHANGED <<joined, cached, shownLists, memberHistory>>

BookIn(p) ==
  /\ p \notin members \cup Visitors
  /\ Book("participantsUpdated", {}, members \cup {p}, FALSE)

BookOut(p) ==
  /\ p \in members \ Visitors
  /\ Book("participantsUpdated", {p}, members \ {p}, FALSE)

\* The hearing's details, or its endpoints.
AmendBooking == Book("refresh", {}, members, FALSE)

CancelBooking == Book("cancel", {}, members, TRUE)

TakeInternalEvent(w, e) ==
  /\ Doing(w, "idle")
  /\ posted' = posted \ {e}
  /\ Continue(w, Begins(e.kind, e.about))
  /\ UNCHANGED <<members, joined, cancelled, bookings, cached, shownLists,
                 memberHistory>>

\* Somebody joins: the Video API adds them, then the request reads and writes
\* the conference.
JoinConference(w, p) ==
  /\ Doing(w, "idle")
  /\ bookings < MaxBookings /\ ~cancelled
  /\ p \in Visitors \ joined
  /\ bookings' = bookings + 1
  /\ members' = members \cup {p}
  /\ joined' = joined \cup {p}
  /\ Overtaking(w, Begins("add", {p}), FromApi)
  /\ UNCHANGED <<cancelled, posted, cached, shownLists, memberHistory>>

\* An officer removes somebody.  Like HandleEvent, it begins with reading the
\* conference.
RemoveParticipantFromConference(w, p) ==
  /\ Doing(w, "idle")
  /\ bookings < MaxBookings
  /\ bookings' = bookings + 1
  /\ GetConference(w, Begins("remove", {p}))
  /\ UNCHANGED <<members, joined, cancelled, posted, cached, shownLists,
                 memberHistory>>

\* The Video API removes them, unless they are gone already.
RemoveFromVideoApi(w) ==
  /\ Doing(w, "ask")
  /\ IF cancelled \/ ~(tasks[w].about \subseteq members)
       THEN Continue(w, Idling) /\ UNCHANGED members
       ELSE /\ members' = members \ tasks[w].about
            /\ Overtaking(w, Onward(tasks[w]), FromApi)
  /\ UNCHANGED <<joined, cancelled, posted, bookings, cached, shownLists,
                 memberHistory>>

HandleEvent(w) ==
  /\ Doing(w, "idle")
  /\ GetConference(w, Begins("event", {}))
  /\ UNCHANGED <<bookingVars, cached, shownLists, memberHistory>>

ConferenceExpires ==
  /\ cached # Uncached
  /\ cached' = Uncached
  /\ tasks' = [v \in Handlers |-> Overtaken(tasks[v], FromCache)]
  /\ UNCHANGED <<bookingVars, shownLists, memberHistory>>

MembershipInit ==
  /\ members = FirstMembers /\ cancelled = FALSE
  /\ joined = FirstMembers \cap Visitors
  /\ cached = FirstMembers
  /\ posted = {} /\ bookings = 0
  /\ tasks = [w \in Handlers |-> Idling]
  /\ shownLists = [p \in Persons |->
                     IF p \in FirstMembers THEN FirstMembers ELSE {}]
  /\ behind = FALSE /\ overlapped = FALSE /\ missedOut = {}

MembershipNext ==
  \/ \E p \in Persons : BookIn(p) \/ BookOut(p)
  \/ AmendBooking \/ CancelBooking \/ ConferenceExpires
  \/ \E w \in Handlers :
       \/ \E e \in posted : TakeInternalEvent(w, e)
       \/ \E p \in Persons :
            JoinConference(w, p) \/ RemoveParticipantFromConference(w, p)
       \/ HandleEvent(w)
       \/ ReadConference(w) \/ Fill(w)
       \/ ForceQuery(w) \/ ForceStore(w)
       \/ UpdateConference(w) \/ RemoveConference(w)
       \/ RemoveFromVideoApi(w) \/ PushParticipantsUpdated(w)

MembershipSpec == MembershipInit /\ [][MembershipNext]_memberVars

-----------------------------------------------------------------------------
(***************************************************************************)
(* Properties.                                                             *)
(***************************************************************************)
MembershipTypeOK ==
  /\ members \subseteq Persons /\ joined \subseteq Visitors
  /\ cached = Uncached \/ cached \subseteq Persons
  /\ {cancelled, behind, overlapped} \subseteq BOOLEAN
  /\ bookings \in 0..MaxBookings
  /\ shownLists \in [Persons -> SUBSET Persons]
  /\ missedOut \subseteq Persons
  /\ \A w \in Handlers :
       /\ tasks[w].kind \in DOMAIN Course \cup {"none"}
       /\ tasks[w].copy \subseteq Persons
       /\ tasks[w].about \subseteq Persons

NoTask == posted = {} /\ \A w \in Handlers : Doing(w, "idle")

\* When every change has been handled, the cached conference has the people the
\* Video API has, and a cancelled hearing is not in the cache, whoever was
\* added, removed or forgotten beside whom - unless a request wrote a copy that
\* others had overtaken, and nobody has asked the Video API since.
CachedAreTheMembers ==
  NoTask /\ ~behind =>
    cached = Uncached \/ (~cancelled /\ cached = members)

\* Then everyone in the hearing has been told exactly who is in it, and whoever
\* was removed has been told so - unless a list was told that others had
\* overtaken or, for the removed, the conference was loaded anew by a request
\* that does not know of the removal before the one that does.
MembersAreTold ==
  NoTask /\ ~cancelled /\ ~overlapped =>
    \A p \in Persons :
      /\ p \in members => shownLists[p] = members
      /\ p \notin members \cup missedOut => p \notin shownLists[p]
=============================================================================
