--------------------- MODULE ConferenceMembershipProofs ---------------------
(***************************************************************************)
(* Who takes part, in the Video API, in the cached conference and in what  *)
(* people were told, for any number of requests in progress.               *)
(*                                                                         *)
(* Between two awaits of a request any other may go on, so nothing equates *)
(* the cached conference with the Video API's.  The inductive invariant    *)
(* says instead who is to put each difference right: an event that is      *)
(* posted, or a request that has yet to ask, to store, to write or to tell.*)
(* Such a request holds what nobody changed since, or is overtaken, and the*)
(* histories count what it then does.                                      *)
(***************************************************************************)
EXTENDS ConferenceMembership, TLAPS

-----------------------------------------------------------------------------
(*****************************************************************************)
(* The requests: where each is in its course, and what it holds.             *)
(*****************************************************************************)
Kinds == {"participantsUpdated", "refresh", "add", "remove", "event", "cancel"}

\* How many awaits a request of this kind has.
Awaits(k) ==
  IF k = "participantsUpdated" THEN 5
  ELSE IF k \in {"refresh", "add"} THEN 3
  ELSE IF k = "remove" THEN 4 ELSE 2

\* A record, said as an equation, so that a field of it can be replaced.
IsTask(t) ==
  t = [kind |-> t.kind, at |-> t.at, filling |-> t.filling, copy |-> t.copy,
       about |-> t.about, overtaken |-> t.overtaken]

\* A request at one of its awaits; it loads the conference only where it reads.
TaskShape(t) ==
  /\ IsTask(t)
  /\ t.copy \subseteq Persons /\ t.about \subseteq Persons
  /\ \/ t.kind = "none" /\ ~t.filling
     \/ t.kind \in Kinds /\ t.at \in 1..Awaits(t.kind)
  /\ t.filling =>
       \/ t.kind = "participantsUpdated" /\ t.at \in {1, 4}
       \/ t.kind = "refresh" /\ t.at = 3
       \/ t.kind \in {"add", "remove", "event", "cancel"} /\ t.at = 1

TaskOK(t) == TaskShape(t) /\ t.overtaken \in BOOLEAN

LEMMA Courses ==
  /\ Course["participantsUpdated"] = <<"look", "query", "store", "read", "tell">>
  /\ Course["refresh"] = <<"query", "store", "read">>
  /\ Course["add"] = <<"read", "write", "tell">>
  /\ Course["remove"] = <<"read", "ask", "write", "tell">>
  /\ Course["event"] = <<"read", "write">>
  /\ Course["cancel"] = <<"read", "forget">>
<1>1. Course["participantsUpdated"] = <<"look", "query", "store", "read", "tell">>
  BY DEF Course
<1>2. Course["refresh"] = <<"query", "store", "read">>
  BY DEF Course
<1>3. Course["add"] = <<"read", "write", "tell">>
  BY DEF Course
<1>4. Course["remove"] = <<"read", "ask", "write", "tell">>
  BY DEF Course
<1>5. Course["event"] = <<"read", "write">>
  BY DEF Course
<1>6. Course["cancel"] = <<"read", "forget">>
  BY DEF Course
<1> QED
  BY <1>1, <1>2, <1>3, <1>4, <1>5, <1>6

LEMMA CourseLengths ==
  ASSUME NEW k \in Kinds
  PROVE  Len(Course[k]) = Awaits(k)
<1>1. CASE k = "participantsUpdated"
  BY <1>1, Courses DEF Awaits
<1>2. CASE k = "refresh"
  BY <1>2, Courses DEF Awaits
<1>3. CASE k = "add"
  BY <1>3, Courses DEF Awaits
<1>4. CASE k = "remove"
  BY <1>4, Courses DEF Awaits
<1>5. CASE k = "event"
  BY <1>5, Courses DEF Awaits
<1>6. CASE k = "cancel"
  BY <1>6, Courses DEF Awaits
<1> QED
  BY <1>1, <1>2, <1>3, <1>4, <1>5, <1>6 DEF Kinds

\* Which request is at a step of this name.
LEMMA TheSteps ==
  ASSUME NEW t, TaskOK(t)
  PROVE  /\ StepOf(t) = "idle" <=> t.kind = "none"
         /\ StepOf(t) = "fill" <=> t.filling
         /\ StepOf(t) = "look" <=> ~t.filling /\ t.kind = "participantsUpdated" /\ t.at = 1
         /\ StepOf(t) = "query" <=>
              ~t.filling /\ \/ t.kind = "participantsUpdated" /\ t.at = 2
                            \/ t.kind = "refresh" /\ t.at = 1
         /\ StepOf(t) = "store" <=>
              ~t.filling /\ \/ t.kind = "participantsUpdated" /\ t.at = 3
                            \/ t.kind = "refresh" /\ t.at = 2
         /\ StepOf(t) = "read" <=>
              ~t.filling /\ \/ t.kind = "participantsUpdated" /\ t.at = 4
                            \/ t.kind = "refresh" /\ t.at = 3
                            \/ t.kind \in {"add", "remove", "event", "cancel"} /\ t.at = 1
         /\ StepOf(t) = "ask" <=> t.kind = "remove" /\ t.at = 2
         /\ StepOf(t) = "write" <=>
              \/ t.kind \in {"add", "event"} /\ t.at = 2
              \/ t.kind = "remove" /\ t.at = 3
         /\ StepOf(t) = "forget" <=> t.kind = "cancel" /\ t.at = 2
         /\ StepOf(t) = "tell" <=>
              \/ t.kind = "participantsUpdated" /\ t.at = 5
              \/ t.kind = "add" /\ t.at = 3
              \/ t.kind = "remove" /\ t.at = 4
  <1>1. CASE t.kind = "none"
    BY <1>1 DEF StepOf, TaskOK, TaskShape, Kinds
  <1>2. CASE t.kind # "none" /\ t.filling
    BY <1>2 DEF StepOf, TaskOK, TaskShape, Kinds
  <1>3. ASSUME t.kind = "participantsUpdated", ~t.filling
        PROVE /\ t.at \in 1..5
              /\ StepOf(t) = IF t.at = 1 THEN "look" ELSE IF t.at = 2 THEN "query"
                           ELSE IF t.at = 3 THEN "store" ELSE IF t.at = 4 THEN "read" ELSE "tell"
    BY <1>3, Courses DEF StepOf, TaskOK, TaskShape, Kinds, Awaits
  <1>4. ASSUME t.kind = "refresh", ~t.filling
        PROVE /\ t.at \in 1..3
              /\ StepOf(t) = IF t.at = 1 THEN "query" ELSE IF t.at = 2 THEN "store" ELSE "read"
    BY <1>4, Courses DEF StepOf, TaskOK, TaskShape, Kinds, Awaits
  <1>5. ASSUME t.kind = "add", ~t.filling
        PROVE /\ t.at \in 1..3
              /\ StepOf(t) = IF t.at = 1 THEN "read" ELSE IF t.at = 2 THEN "write" ELSE "tell"
    BY <1>5, Courses DEF StepOf, TaskOK, TaskShape, Kinds, Awaits
  <1>6. ASSUME t.kind = "remove", ~t.filling
        PROVE /\ t.at \in 1..4
              /\ StepOf(t) = IF t.at = 1 THEN "read" ELSE IF t.at = 2 THEN "ask"
                           ELSE IF t.at = 3 THEN "write" ELSE "tell"
    BY <1>6, Courses DEF StepOf, TaskOK, TaskShape, Kinds, Awaits
  <1>7. ASSUME t.kind = "event", ~t.filling
        PROVE /\ t.at \in 1..2
              /\ StepOf(t) = IF t.at = 1 THEN "read" ELSE "write"
    BY <1>7, Courses DEF StepOf, TaskOK, TaskShape, Kinds, Awaits
  <1>8. ASSUME t.kind = "cancel", ~t.filling
        PROVE /\ t.at \in 1..2
              /\ StepOf(t) = IF t.at = 1 THEN "read" ELSE "forget"
    BY <1>8, Courses DEF StepOf, TaskOK, TaskShape, Kinds, Awaits
  <1>9. CASE t.kind = "participantsUpdated" /\ ~t.filling
    BY <1>9, <1>3
  <1>10. CASE t.kind = "refresh" /\ ~t.filling
    BY <1>10, <1>4
  <1>11. CASE t.kind = "add" /\ ~t.filling
    BY <1>11, <1>5
  <1>12. CASE t.kind = "remove" /\ ~t.filling
    BY <1>12, <1>6
  <1>13. CASE t.kind = "event" /\ ~t.filling
    BY <1>13, <1>7
  <1>14. CASE t.kind = "cancel" /\ ~t.filling
    BY <1>14, <1>8
  <1> QED
    BY <1>1, <1>2, <1>9, <1>10, <1>11, <1>12, <1>13, <1>14 DEF TaskOK, TaskShape, Kinds

LEMMA Idle == TaskOK(Idling) /\ Idling.kind = "none" /\ Idling.about = {} /\ Idling.copy = {}
              /\ ~Idling.overtaken
  BY DEF TaskOK, TaskShape, IsTask, Idling

LEMMA OnwardIs ==
  ASSUME NEW t, TaskOK(t), t.kind # "none", ~t.filling
  PROVE  /\ TaskOK(Onward(t))
         /\ \/ t.at = Awaits(t.kind) /\ Onward(t) = Idling
            \/ /\ t.at < Awaits(t.kind)
               /\ Onward(t).kind = t.kind /\ Onward(t).at = t.at + 1
               /\ ~Onward(t).filling
               /\ Onward(t).copy = t.copy /\ Onward(t).about = t.about
               /\ Onward(t).overtaken = t.overtaken
  <1>1. t.kind \in Kinds /\ t.at \in 1..Awaits(t.kind) /\ Awaits(t.kind) \in Nat
    BY DEF TaskOK, TaskShape, Awaits
  <1>2. CASE t.at = Awaits(t.kind)
    BY <1>1, <1>2, CourseLengths, Idle DEF Onward
  <1>3. CASE t.at # Awaits(t.kind)
    <2>1. Onward(t) = [t EXCEPT !.at = t.at + 1]
      BY <1>1, <1>3, CourseLengths DEF Onward
    <2>2. Onward(t) = [kind |-> t.kind, at |-> t.at + 1, filling |-> t.filling, copy |-> t.copy,
       about |-> t.about, overtaken |-> t.overtaken]
      BY <2>1 DEF TaskOK, TaskShape, IsTask
    <2>3. t.at + 1 \in 1..Awaits(t.kind) /\ t.at < Awaits(t.kind)
      BY <1>1, <1>3
    <2> QED
      BY <1>1, <2>2, <2>3 DEF TaskOK, TaskShape, IsTask
  <1> QED
    BY <1>2, <1>3

LEMMA OvertakenIs ==
  ASSUME NEW t, TaskOK(t), NEW steps
  PROVE  /\ TaskOK(Overtaken(t, steps))
         /\ Overtaken(t, steps).kind = t.kind /\ Overtaken(t, steps).at = t.at
         /\ Overtaken(t, steps).filling = t.filling
         /\ Overtaken(t, steps).copy = t.copy /\ Overtaken(t, steps).about = t.about
         /\ Overtaken(t, steps).overtaken <=> t.overtaken \/ StepOf(t) \in steps
         /\ StepOf(Overtaken(t, steps)) = StepOf(t)
<1> DEFINE o == t.overtaken \/ StepOf(t) \in steps
<1>1. Overtaken(t, steps) =
        [kind |-> t.kind, at |-> t.at, filling |-> t.filling, copy |-> t.copy,
         about |-> t.about, overtaken |-> o]
  BY DEF Overtaken, TaskOK, TaskShape, IsTask
<1> HIDE DEF o
<1>2. Overtaken(t, steps).overtaken <=> o
  <2>1. Overtaken(t, steps).overtaken = o
    BY <1>1
  <2> QED
    BY <2>1, Zenon
<1>3. /\ Overtaken(t, steps).kind = t.kind /\ Overtaken(t, steps).at = t.at
      /\ Overtaken(t, steps).filling = t.filling
      /\ Overtaken(t, steps).copy = t.copy /\ Overtaken(t, steps).about = t.about
      /\ IsTask(Overtaken(t, steps))
  BY <1>1 DEF IsTask
<1>4. StepOf(Overtaken(t, steps)) = StepOf(t)
  BY <1>3, Zenon DEF StepOf
<1>5. TaskShape(Overtaken(t, steps))
  BY <1>3 DEF TaskOK, TaskShape
<1>6. o \in BOOLEAN
  BY Zenon DEF o
<1>7. Overtaken(t, steps).overtaken = o
  BY <1>1
<1> QED
  <2>1. TaskOK(Overtaken(t, steps))
    BY <1>5, <1>6, <1>7, Zenon DEF TaskOK
  <2> QED
    BY <1>2, <1>3, <1>4, <2>1 DEF o

\* The task n after the request t has the conference it asked for.
Got(t, n, conference) ==
  \/ n = Idling /\ t.kind \in {"refresh", "remove"}
  \/ /\ n.kind = t.kind /\ n.at = t.at + 1 /\ ~n.filling /\ n.copy = conference
     /\ n.about \subseteq t.about
     /\ n.about = t.about \/ (t.kind = "participantsUpdated" /\ t.at = 1)
     /\ t.kind # "refresh"
     /\ t.kind = "remove" => MayBeDisconnected(t.about, conference)

\* An EXCEPT of a request, as a record.
LEMMA CopyExcept ==
  ASSUME NEW t, IsTask(t), NEW c
  PROVE  [t EXCEPT !.copy = c] =
           [kind |-> t.kind, at |-> t.at, filling |-> t.filling, copy |-> c,
            about |-> t.about, overtaken |-> t.overtaken]
  BY DEF IsTask

LEMMA CopyFillingExcept ==
  ASSUME NEW t, IsTask(t), NEW c, NEW f
  PROVE  [t EXCEPT !.copy = c, !.filling = f] =
           [kind |-> t.kind, at |-> t.at, filling |-> f, copy |-> c,
            about |-> t.about, overtaken |-> t.overtaken]
<1>1. [t EXCEPT !.copy = c, !.filling = f] = [[t EXCEPT !.copy = c] EXCEPT !.filling = f]
  OBVIOUS
<1>2. PICK u : u = [t EXCEPT !.copy = c]
  OBVIOUS
<1>3. u = [kind |-> t.kind, at |-> t.at, filling |-> t.filling, copy |-> c,
           about |-> t.about, overtaken |-> t.overtaken]
  BY <1>2, CopyExcept
<1>4. [u EXCEPT !.filling = f] =
           [kind |-> t.kind, at |-> t.at, filling |-> f, copy |-> c,
            about |-> t.about, overtaken |-> t.overtaken]
  BY <1>3
<1> QED
  BY <1>1, <1>2, <1>4

LEMMA AboutExcept ==
  ASSUME NEW t, IsTask(t), NEW c
  PROVE  [t EXCEPT !.about = @ \cap c] =
           [kind |-> t.kind, at |-> t.at, filling |-> t.filling, copy |-> t.copy,
            about |-> t.about \cap c, overtaken |-> t.overtaken]
  BY DEF IsTask

LEMMA WithConferenceIs ==
  ASSUME NEW t, TaskOK(t), NEW conference, conference \subseteq Persons,
         StepOf(t) \in {"look", "read", "fill"}
  PROVE  /\ TaskOK(WithConference(t, conference))
         /\ Got(t, WithConference(t, conference), conference)
         /\ WithConference(t, conference) = Idling \/
            WithConference(t, conference).overtaken = t.overtaken
<1>0. PICK f : f = FALSE
  OBVIOUS
<1> DEFINE got == [kind |-> t.kind, at |-> t.at, filling |-> f, copy |-> conference,
                   about |-> t.about, overtaken |-> t.overtaken]
           kept == [kind |-> t.kind, at |-> t.at, filling |-> f, copy |-> conference,
                    about |-> t.about \cap conference, overtaken |-> t.overtaken]
<1>1. \/ t.kind = "participantsUpdated" /\ t.at \in {1, 4}
      \/ t.kind = "refresh" /\ t.at = 3
      \/ t.kind \in {"add", "remove", "event", "cancel"} /\ t.at = 1
  BY TheSteps DEF TaskOK, TaskShape
<1>2. TaskOK(got) /\ TaskOK(kept)
  BY <1>0, <1>1 DEF TaskOK, TaskShape, IsTask, Kinds, Awaits
<1>3. [t EXCEPT !.copy = conference, !.filling = FALSE] = got
  BY <1>0, CopyFillingExcept DEF TaskOK, TaskShape
<1>4. [got EXCEPT !.about = @ \cap conference] = kept
  <2>1. PICK g : g = got
    OBVIOUS
  <2>2. [g EXCEPT !.about = @ \cap conference] = kept
    <3>1. IsTask(g) /\ g.kind = t.kind /\ g.at = t.at /\ g.filling = f /\ g.copy = conference
          /\ g.about = t.about /\ g.overtaken = t.overtaken
      BY <2>1 DEF IsTask
    <3> QED
      BY <3>1, AboutExcept
  <2> QED
    BY <2>1, <2>2
<1>5. t.kind = "participantsUpdated" => (Course[t.kind][t.at] = "look" <=> t.at = 1)
  BY <1>1, Courses
<1>6. WithConference(t, conference) =
        IF t.kind = "participantsUpdated" /\ t.at = 1 THEN Onward(kept)
        ELSE IF t.kind = "remove" /\ ~MayBeDisconnected(t.about, conference) THEN Idling
        ELSE Onward(got)
  BY <1>3, <1>4, <1>5 DEF WithConference
<1>7. /\ got.kind = t.kind /\ got.at = t.at /\ ~got.filling /\ got.copy = conference
      /\ got.about = t.about /\ got.overtaken = t.overtaken
      /\ kept.kind = t.kind /\ kept.at = t.at /\ ~kept.filling /\ kept.copy = conference
      /\ kept.about = t.about \cap conference /\ kept.overtaken = t.overtaken
  BY <1>0
<1> HIDE DEF got, kept
<1>8. CASE t.kind = "participantsUpdated" /\ t.at = 1
  BY <1>2, <1>6, <1>7, <1>8, OnwardIs DEF Got, Awaits
<1>9. CASE t.kind = "remove" /\ ~MayBeDisconnected(t.about, conference)
  BY <1>6, <1>9, Idle DEF Got
<1>10. CASE /\ ~(t.kind = "participantsUpdated" /\ t.at = 1)
            /\ ~(t.kind = "remove" /\ ~MayBeDisconnected(t.about, conference))
  <2>1. WithConference(t, conference) = Onward(got)
    BY <1>6, <1>10
  <2>2. t.kind # "none"
    BY <1>1
  <2> QED
    BY <1>1, <1>2, <1>7, <1>10, <2>1, <2>2, OnwardIs DEF Got, Awaits
<1> QED
  BY <1>8, <1>9, <1>10

-----------------------------------------------------------------------------
(*****************************************************************************)
(* What a step leaves of the other requests: where they are, and whether     *)
(* what they hold is overtaken.                                              *)
(*****************************************************************************)
TasksOK ==
  /\ tasks = [w \in Handlers |-> tasks[w]]
  /\ \A w \in Handlers : TaskOK(tasks[w])

\* The other requests stay where they are; those at one of these steps are
\* overtaken.
Others(w, steps) ==
  \A v \in Handlers : v # w =>
    /\ tasks[v]'.kind = tasks[v].kind /\ tasks[v]'.at = tasks[v].at
    /\ tasks[v]'.filling = tasks[v].filling
    /\ tasks[v]'.copy = tasks[v].copy /\ tasks[v]'.about = tasks[v].about
    /\ tasks[v]'.overtaken <=> tasks[v].overtaken \/ StepOf(tasks[v]) \in steps

LEMMA OvertakingIs ==
  ASSUME TasksOK, NEW w \in Handlers, NEW n, TaskOK(n), NEW steps, Overtaking(w, n, steps)
  PROVE  TasksOK' /\ tasks[w]' = n /\ Others(w, steps)
<1>1. tasks' = [v \in Handlers |-> IF v = w THEN n ELSE Overtaken(tasks[v], steps)]
  BY DEF Overtaking
<1>2. tasks[w]' = n /\ \A v \in Handlers : v # w => tasks[v]' = Overtaken(tasks[v], steps)
  BY <1>1
<1>3. tasks' = [v \in Handlers |-> tasks[v]']
  BY <1>1
<1>4. \A v \in Handlers : v # w => TaskOK(tasks[v]')
  BY <1>2, OvertakenIs DEF TasksOK
<1>5. Others(w, steps)
  BY <1>2, OvertakenIs DEF TasksOK, Others
<1> QED
  BY <1>2, <1>3, <1>4, <1>5 DEF TasksOK

LEMMA ContinueIs ==
  ASSUME TasksOK, NEW w \in Handlers, NEW n, TaskOK(n), Continue(w, n)
  PROVE  TasksOK' /\ tasks[w]' = n /\ Others(w, {})
<1>1. tasks' = [tasks EXCEPT ![w] = n]
  BY DEF Continue
<1>2. tasks[w]' = n /\ \A v \in Handlers : v # w => tasks[v]' = tasks[v]
  BY <1>1 DEF TasksOK
<1>3. tasks' = [v \in Handlers |-> tasks[v]']
  BY <1>1 DEF TasksOK
<1>5. Others(w, {})
  BY <1>2 DEF Others
<1> QED
  BY <1>2, <1>3, <1>5 DEF TasksOK

LEMMA AllOvertakenIs ==
  ASSUME TasksOK, NEW steps, tasks' = [v \in Handlers |-> Overtaken(tasks[v], steps)]
  PROVE  /\ TasksOK'
         /\ \A v \in Handlers :
              /\ tasks[v]'.kind = tasks[v].kind /\ tasks[v]'.at = tasks[v].at
              /\ tasks[v]'.filling = tasks[v].filling
              /\ tasks[v]'.copy = tasks[v].copy /\ tasks[v]'.about = tasks[v].about
              /\ tasks[v]'.overtaken <=> tasks[v].overtaken \/ StepOf(tasks[v]) \in steps
<1>2. \A v \in Handlers : tasks[v]' = Overtaken(tasks[v], steps)
  OBVIOUS
<1>3. tasks' = [v \in Handlers |-> tasks[v]']
  OBVIOUS
<1>4. \A v \in Handlers : TaskOK(tasks[v]')
  BY <1>2, OvertakenIs DEF TasksOK
<1> QED
  BY <1>2, <1>3, <1>4, OvertakenIs DEF TasksOK

\* It holds what the cache had.
OfCache(t) ==
  \/ t.kind = "participantsUpdated" /\ t.at = 5
  \/ t.kind = "add" /\ t.at \in {2, 3}
  \/ t.kind = "remove" /\ t.at \in {2, 3, 4}
  \/ t.kind = "event" /\ t.at = 2

\* It is to store what the Video API had.
Storing(t) ==
  ~t.filling /\ \/ t.kind = "participantsUpdated" /\ t.at = 3
                \/ t.kind = "refresh" /\ t.at = 2

\* It holds what the Video API had.
OfApi(t) == t.filling \/ Storing(t)

LEMMA HeldCopies ==
  ASSUME NEW t, TaskOK(t)
  PROVE  /\ StepOf(t) \in FromCache <=> OfCache(t)
         /\ StepOf(t) \in FromApi <=> OfApi(t)
  BY TheSteps DEF FromCache, FromApi, OfCache, OfApi, Storing

SameTask(v) ==
  /\ tasks[v]'.kind = tasks[v].kind /\ tasks[v]'.at = tasks[v].at
  /\ tasks[v]'.filling = tasks[v].filling
  /\ tasks[v]'.copy = tasks[v].copy /\ tasks[v]'.about = tasks[v].about

\* Nothing overtakes the others; a write to the cache does; a change at the
\* Video API does.
OthersGoOn(w) ==
  \A v \in Handlers : v # w =>
    SameTask(v) /\ (tasks[v]'.overtaken <=> tasks[v].overtaken)

OthersBehindCache(w) ==
  \A v \in Handlers : v # w =>
    SameTask(v) /\ (tasks[v]'.overtaken <=> tasks[v].overtaken \/ OfCache(tasks[v]))

OthersBehindApi(w) ==
  \A v \in Handlers : v # w =>
    SameTask(v) /\ (tasks[v]'.overtaken <=> tasks[v].overtaken \/ OfApi(tasks[v]))

LEMMA OthersAre ==
  ASSUME TasksOK, NEW w
  PROVE  /\ Others(w, {}) => OthersGoOn(w)
         /\ Others(w, FromCache) => OthersBehindCache(w)
         /\ Others(w, FromApi) => OthersBehindApi(w)
<1>1. Others(w, {}) => OthersGoOn(w)
  BY DEF Others, OthersGoOn, SameTask
<1>2. Others(w, FromCache) => OthersBehindCache(w)
  BY HeldCopies DEF Others, OthersBehindCache, SameTask, TasksOK
<1>3. Others(w, FromApi) => OthersBehindApi(w)
  BY HeldCopies DEF Others, OthersBehindApi, SameTask, TasksOK
<1> QED
  BY <1>1, <1>2, <1>3

-----------------------------------------------------------------------------
(*****************************************************************************)
(* Each action, as what it does to every variable and every request.  Its    *)
(* guard is stated of the fields of the request, so that the proofs below    *)
(* need neither Course nor Onward.                                           *)
(*****************************************************************************)
\* The types, without the flags, which the provers decide separately.
MembershipSorts ==
  /\ members \subseteq Persons /\ joined \subseteq Visitors
  /\ cached = Uncached \/ cached \subseteq Persons
  /\ bookings \in 0..MaxBookings
  /\ shownLists \in [Persons -> SUBSET Persons]
  /\ missedOut \subseteq Persons
  /\ \A e \in posted :
       e.kind \in {"participantsUpdated", "refresh", "cancel"} /\ e.about \subseteq Persons

LEMMA BeginsIs ==
  ASSUME NEW kind \in Kinds, NEW about \in SUBSET Persons
  PROVE  /\ TaskOK(Begins(kind, about))
         /\ Begins(kind, about).kind = kind /\ Begins(kind, about).about = about
         /\ Begins(kind, about).at = 1 /\ ~Begins(kind, about).filling
         /\ ~Begins(kind, about).overtaken /\ Begins(kind, about).copy = {}
<1>1. PICK f : f = FALSE
  OBVIOUS
<1>2. PICK i : i = [kind |-> "none", at |-> 0, filling |-> f, copy |-> {}, about |-> {}, overtaken |-> f]
  OBVIOUS
<1>3. i = Idling
  BY <1>1, <1>2 DEF Idling
<1>4. Begins(kind, about) = [[[i EXCEPT !.kind = kind] EXCEPT !.at = 1] EXCEPT !.about = about]
  BY <1>3 DEF Begins
<1>5. PICK a : a = [i EXCEPT !.kind = kind]
  OBVIOUS
<1>6. a = [kind |-> kind, at |-> 0, filling |-> f, copy |-> {}, about |-> {}, overtaken |-> f]
  BY <1>2, <1>5
<1>7. PICK b : b = [a EXCEPT !.at = 1]
  OBVIOUS
<1>8. b = [kind |-> kind, at |-> 1, filling |-> f, copy |-> {}, about |-> {}, overtaken |-> f]
  BY <1>6, <1>7
<1>9. [b EXCEPT !.about = about] =
         [kind |-> kind, at |-> 1, filling |-> f, copy |-> {}, about |-> about, overtaken |-> f]
  BY <1>8
<1>10. Begins(kind, about) =
         [kind |-> kind, at |-> 1, filling |-> f, copy |-> {}, about |-> about, overtaken |-> f]
  BY <1>4, <1>5, <1>7, <1>9
<1>11. /\ TaskShape(Begins(kind, about))
       /\ Begins(kind, about).kind = kind /\ Begins(kind, about).about = about
       /\ Begins(kind, about).at = 1 /\ Begins(kind, about).filling = f
       /\ Begins(kind, about).overtaken = f /\ Begins(kind, about).copy = {}
  BY <1>1, <1>10 DEF TaskShape, IsTask, Kinds, Awaits
<1> QED
  BY <1>1, <1>11, Zenon DEF TaskOK

\* It is to read the conference.
Reading(t) ==
  ~t.filling /\ \/ t.kind = "participantsUpdated" /\ t.at \in {1, 4}
                \/ t.kind = "refresh" /\ t.at = 3
                \/ t.kind \in {"add", "remove", "event", "cancel"} /\ t.at = 1

\* The task n after t has asked for the conference.
ReadBy(t, n) ==
  \/ cached # Uncached /\ Got(t, n, cached) /\ ~n.overtaken
  \/ cached = Uncached /\ cancelled /\ n = Idling
  \/ /\ cached = Uncached /\ ~cancelled
     /\ n.kind = t.kind /\ n.at = t.at /\ n.filling
     /\ n.copy = members /\ n.about = t.about /\ ~n.overtaken

LEMMA GetConferenceIs ==
  ASSUME TasksOK, MembershipSorts, NEW w \in Handlers, NEW t, TaskOK(t), Reading(t),
         GetConference(w, t)
  PROVE  TasksOK' /\ ReadBy(t, tasks[w]') /\ OthersGoOn(w)
<1>1. PICK f, g : f = FALSE /\ g = TRUE
  OBVIOUS
<1>2. PICK u : u = [t EXCEPT !.overtaken = f]
  OBVIOUS
<1>3. u = [kind |-> t.kind, at |-> t.at, filling |-> t.filling, copy |-> t.copy,
            about |-> t.about, overtaken |-> f]
  BY <1>2 DEF TaskOK, TaskShape, IsTask
<1>4. TaskOK(u) /\ u.kind = t.kind /\ u.at = t.at /\ u.filling = t.filling
      /\ u.about = t.about /\ u.overtaken = f
  <2>1. TaskShape(u) /\ u.kind = t.kind /\ u.at = t.at /\ u.filling = t.filling
        /\ u.about = t.about /\ u.overtaken = f
    BY <1>3 DEF TaskOK, TaskShape, IsTask
  <2> QED
    BY <1>1, <2>1, Zenon DEF TaskOK
<1>5. PICK x : x = [t EXCEPT !.filling = g]
  OBVIOUS
<1>6. x = [kind |-> t.kind, at |-> t.at, filling |-> g, copy |-> t.copy,
            about |-> t.about, overtaken |-> t.overtaken]
  BY <1>5 DEF TaskOK, TaskShape, IsTask
<1>7. PICK y : y = [x EXCEPT !.copy = members]
  OBVIOUS
<1>8. y = [kind |-> t.kind, at |-> t.at, filling |-> g, copy |-> members,
            about |-> t.about, overtaken |-> t.overtaken]
  BY <1>6, <1>7
<1>9. PICK z : z = [y EXCEPT !.overtaken = f]
  OBVIOUS
<1>10. z = [kind |-> t.kind, at |-> t.at, filling |-> g, copy |-> members,
            about |-> t.about, overtaken |-> f]
  BY <1>8, <1>9
<1>11. [t EXCEPT !.filling = TRUE, !.copy = members, !.overtaken = FALSE] = z
  BY <1>1, <1>5, <1>7, <1>9
<1>12. TaskOK(z) /\ z.kind = t.kind /\ z.at = t.at /\ z.filling /\ z.copy = members
       /\ z.about = t.about /\ ~z.overtaken
  BY <1>1, <1>10 DEF TaskOK, TaskShape, IsTask, MembershipSorts, Reading
<1>13. Continue(w, IF cached # Uncached THEN WithConference(u, cached)
                   ELSE IF cancelled THEN Idling ELSE z)
  BY <1>1, <1>2, <1>11 DEF GetConference
<1>14. CASE cached # Uncached
  <2>1. StepOf(u) \in {"look", "read", "fill"}
    BY <1>4, TheSteps DEF Reading
  <2>2. PICK n : n = WithConference(u, cached)
    OBVIOUS
  <2>3. /\ TaskOK(n) /\ Got(u, n, cached) /\ (n = Idling \/ n.overtaken = u.overtaken)
    BY <1>4, <1>14, <2>1, <2>2, WithConferenceIs DEF MembershipSorts
  <2>4. ReadBy(t, n)
    BY <1>1, <1>4, <1>14, <2>3, Idle DEF ReadBy, Got
  <2> QED
    BY <1>13, <1>14, <2>2, <2>3, <2>4, ContinueIs, OthersAre
<1>15. CASE cached = Uncached /\ cancelled
  BY <1>13, <1>15, Idle, ContinueIs, OthersAre DEF ReadBy
<1>16. CASE cached = Uncached /\ ~cancelled
  BY <1>12, <1>13, <1>16, ContinueIs, OthersAre DEF ReadBy
<1> QED
  BY <1>14, <1>15, <1>16

\* Nothing is in progress.
Unused(t) == t.kind = "none" /\ ~t.filling

\* A request asks for the conference, or a new one does.
Reads(w) ==
  /\ TasksOK' /\ OthersGoOn(w)
  /\ \E t :
       /\ Reading(t) /\ ReadBy(t, tasks[w]')
       /\ \/ t = tasks[w]
          \/ /\ Unused(tasks[w]) /\ t.kind \in {"remove", "event"}
             /\ t.kind = "remove" => \E p \in Persons : t.about = {p}
  /\ bookings' = bookings \/ (bookings < MaxBookings /\ bookings' = bookings + 1)
  /\ UNCHANGED <<members, joined, cancelled, posted, cached, shownLists, memberHistory>>

LEMMA ReadsAre ==
  ASSUME TasksOK, MembershipSorts, NEW w \in Handlers,
         \/ ReadConference(w) \/ HandleEvent(w)
         \/ \E p \in Persons : RemoveParticipantFromConference(w, p)
  PROVE  Reads(w)
<1>0. TaskOK(tasks[w])
  BY DEF TasksOK
<1>1. CASE ReadConference(w)
  <2>1. Reading(tasks[w])
    BY <1>0, <1>1, TheSteps DEF ReadConference, Doing, Reading
  <2> QED
    BY <1>0, <1>1, <2>1, GetConferenceIs DEF ReadConference, Reads, bookingVars
<1>2. CASE HandleEvent(w)
  <2>1. PICK t : t = Begins("event", {})
    OBVIOUS
  <2>2. TaskOK(t) /\ Reading(t) /\ t.kind = "event"
    BY <2>1, BeginsIs DEF Reading, Kinds
  <2>3. GetConference(w, t)
    BY <1>2, <2>1 DEF HandleEvent
  <2>4. Unused(tasks[w])
    BY <1>0, <1>2, TheSteps DEF HandleEvent, Doing, Unused
  <2> QED
    BY <1>2, <2>2, <2>3, <2>4, GetConferenceIs DEF HandleEvent, Reads, bookingVars
<1>3. ASSUME NEW p \in Persons, RemoveParticipantFromConference(w, p)
      PROVE  Reads(w)
  <2>1. PICK t : t = Begins("remove", {p})
    OBVIOUS
  <2>2. TaskOK(t) /\ Reading(t) /\ t.kind = "remove" /\ t.about = {p}
    BY <2>1, BeginsIs DEF Reading, Kinds
  <2>3. GetConference(w, t)
    BY <1>3, <2>1 DEF RemoveParticipantFromConference
  <2>4. Unused(tasks[w])
    BY <1>0, <1>3, TheSteps DEF RemoveParticipantFromConference, Doing, Unused
  <2> QED
    BY <1>3, <2>2, <2>3, <2>4, GetConferenceIs DEF RemoveParticipantFromConference, Reads
<1> QED
  BY <1>1, <1>2, <1>3

\* A request that loads the conference writes it to the cache.
Fills(w) ==
  /\ TasksOK' /\ OthersBehindCache(w)
  /\ tasks[w].filling
  /\ Got(tasks[w], tasks[w]', tasks[w].copy)
  /\ tasks[w]' = Idling \/ tasks[w]'.overtaken = tasks[w].overtaken
  /\ cached' = tasks[w].copy
  /\ behind' <=> behind \/ tasks[w].overtaken
  /\ missedOut' = missedOut \cup Dropped(tasks[w].copy)
  /\ UNCHANGED <<bookingVars, shownLists, overlapped>>

LEMMA FillsAre ==
  ASSUME TasksOK, NEW w \in Handlers, Fill(w)
  PROVE  Fills(w)
<1>0. TaskOK(tasks[w])
  BY DEF TasksOK
<1>1. PICK n : n = WithConference(tasks[w], tasks[w].copy)
  OBVIOUS
<1>2. tasks[w].filling
  BY <1>0, TheSteps DEF Fill, Doing
<1>3. TaskOK(n) /\ Got(tasks[w], n, tasks[w].copy)
      /\ (n = Idling \/ n.overtaken = tasks[w].overtaken)
  BY <1>0, <1>1, WithConferenceIs DEF Fill, Doing, TaskOK, TaskShape
<1>4. TasksOK' /\ tasks[w]' = n /\ OthersBehindCache(w)
  BY <1>1, <1>3, OvertakingIs, OthersAre DEF Fill
<1>5. behind' <=> behind \/ tasks[w].overtaken
  BY DEF Fill
<1> QED
  BY <1>2, <1>3, <1>4, <1>5 DEF Fill, Fills

\* It is to ask the Video API, whatever the cache has.
Querying(t) ==
  ~t.filling /\ \/ t.kind = "participantsUpdated" /\ t.at = 2
                \/ t.kind = "refresh" /\ t.at = 1

\* The Video API answers such a request, or has no such conference.
Queries(w) ==
  /\ TasksOK' /\ OthersGoOn(w)
  /\ Querying(tasks[w])
  /\ \/ cancelled /\ tasks[w]' = Idling
     \/ /\ ~cancelled
        /\ tasks[w]'.kind = tasks[w].kind /\ tasks[w]'.at = tasks[w].at + 1
        /\ ~tasks[w]'.filling /\ ~tasks[w]'.overtaken
        /\ tasks[w]'.copy = members /\ tasks[w]'.about = tasks[w].about
  /\ UNCHANGED <<bookingVars, cached, shownLists, memberHistory>>

LEMMA QueriesAre ==
  ASSUME TasksOK, MembershipSorts, NEW w \in Handlers, ForceQuery(w)
  PROVE  Queries(w)
<1>0. TaskOK(tasks[w])
  BY DEF TasksOK
<1>1. Querying(tasks[w])
  BY <1>0, TheSteps DEF ForceQuery, Doing, Querying
<1>2. PICK f : f = FALSE
  OBVIOUS
<1>3. PICK u : u = [tasks[w] EXCEPT !.copy = members]
  OBVIOUS
<1>4. u = [kind |-> tasks[w].kind, at |-> tasks[w].at, filling |-> tasks[w].filling,
           copy |-> members, about |-> tasks[w].about, overtaken |-> tasks[w].overtaken]
  BY <1>0, <1>3, CopyExcept DEF TaskOK, TaskShape
<1>5. PICK x : x = [u EXCEPT !.overtaken = f]
  OBVIOUS
<1>6. x = [kind |-> tasks[w].kind, at |-> tasks[w].at, filling |-> tasks[w].filling,
           copy |-> members, about |-> tasks[w].about, overtaken |-> f]
  BY <1>4, <1>5
<1>7. TaskOK(x) /\ x.kind = tasks[w].kind /\ x.at = tasks[w].at /\ x.filling = tasks[w].filling
      /\ x.copy = members /\ x.about = tasks[w].about /\ x.overtaken = f
  <2>1. TaskShape(x) /\ x.kind = tasks[w].kind /\ x.at = tasks[w].at
        /\ x.filling = tasks[w].filling
        /\ x.copy = members /\ x.about = tasks[w].about /\ x.overtaken = f
    BY <1>0, <1>6 DEF TaskOK, TaskShape, IsTask, MembershipSorts
  <2> QED
    BY <1>2, <2>1, Zenon DEF TaskOK
<1>8. Continue(w, IF cancelled THEN Idling ELSE Onward(x))
  BY <1>2, <1>3, <1>5 DEF ForceQuery
<1>9. CASE cancelled
  BY <1>1, <1>8, <1>9, Idle, ContinueIs, OthersAre DEF ForceQuery, Queries
<1>10. CASE ~cancelled
  <2>1. PICK n : n = Onward(x)
    OBVIOUS
  <2>2. /\ TaskOK(n) /\ n.kind = x.kind /\ n.at = x.at + 1 /\ ~n.filling
        /\ n.copy = x.copy /\ n.about = x.about /\ n.overtaken = x.overtaken
    BY <1>1, <1>7, <2>1, OnwardIs DEF Querying, Awaits
  <2>3. TasksOK' /\ tasks[w]' = n /\ OthersGoOn(w)
    BY <1>8, <1>10, <2>1, <2>2, ContinueIs, OthersAre
  <2> QED
    BY <1>1, <1>2, <1>7, <1>10, <2>2, <2>3 DEF ForceQuery, Queries
<1> QED
  BY <1>9, <1>10

\* The request writes the answer to the cache.
Stores(w) ==
  /\ TasksOK' /\ OthersBehindCache(w)
  /\ Storing(tasks[w])
  /\ tasks[w]'.kind = tasks[w].kind /\ tasks[w]'.at = tasks[w].at + 1
  /\ ~tasks[w]'.filling
  /\ tasks[w]'.copy = tasks[w].copy /\ tasks[w]'.about = tasks[w].about
  /\ cached' = tasks[w].copy
  /\ behind' = tasks[w].overtaken
  /\ missedOut' = missedOut \cup (Dropped(tasks[w].copy) \ tasks[w].about)
  /\ UNCHANGED <<bookingVars, shownLists, overlapped>>

LEMMA StoresAre ==
  ASSUME TasksOK, NEW w \in Handlers, ForceStore(w)
  PROVE  Stores(w)
<1>0. TaskOK(tasks[w])
  BY DEF TasksOK
<1>1. Storing(tasks[w])
  BY <1>0, TheSteps DEF ForceStore, Doing, Storing
<1>2. PICK n : n = Onward(tasks[w])
  OBVIOUS
<1>3. /\ TaskOK(n) /\ n.kind = tasks[w].kind /\ n.at = tasks[w].at + 1 /\ ~n.filling
      /\ n.copy = tasks[w].copy /\ n.about = tasks[w].about
  BY <1>0, <1>1, <1>2, OnwardIs DEF Storing, Awaits
<1>4. TasksOK' /\ tasks[w]' = n /\ OthersBehindCache(w)
  BY <1>2, <1>3, OvertakingIs, OthersAre DEF ForceStore
<1> QED
  BY <1>1, <1>3, <1>4 DEF ForceStore, Stores

\* It is to write its changed copy to the cache.
Writing(t) ==
  \/ t.kind \in {"add", "event"} /\ t.at = 2
  \/ t.kind = "remove" /\ t.at = 3

\* A request writes its changed copy to the cache.
Writes(w) ==
  /\ TasksOK' /\ OthersBehindCache(w)
  /\ Writing(tasks[w])
  /\ \/ tasks[w].kind = "event" /\ tasks[w]' = Idling
     \/ /\ tasks[w].kind # "event"
        /\ tasks[w]'.kind = tasks[w].kind /\ tasks[w]'.at = tasks[w].at + 1
        /\ ~tasks[w]'.filling /\ tasks[w]'.overtaken = tasks[w].overtaken
        /\ tasks[w]'.copy = Changed(tasks[w]) /\ tasks[w]'.about = tasks[w].about
  /\ cached' = Changed(tasks[w])
  /\ behind' <=> behind \/ tasks[w].overtaken
  /\ UNCHANGED <<bookingVars, shownLists, overlapped, missedOut>>

LEMMA WritesAre ==
  ASSUME TasksOK, NEW w \in Handlers, UpdateConference(w)
  PROVE  Writes(w)
<1>0. TaskOK(tasks[w])
  BY DEF TasksOK
<1>1. Writing(tasks[w]) /\ ~tasks[w].filling
  BY <1>0, TheSteps DEF UpdateConference, Doing, Writing
<1>2. PICK c : c = Changed(tasks[w])
  OBVIOUS
<1>3. c \subseteq Persons
  BY <1>0, <1>2 DEF Changed, TaskOK, TaskShape
<1>4. PICK u : u = [tasks[w] EXCEPT !.copy = c]
  OBVIOUS
<1>5. u = [kind |-> tasks[w].kind, at |-> tasks[w].at, filling |-> tasks[w].filling,
           copy |-> c, about |-> tasks[w].about, overtaken |-> tasks[w].overtaken]
  BY <1>0, <1>4, CopyExcept DEF TaskOK, TaskShape
<1>6. TaskOK(u) /\ u.kind = tasks[w].kind /\ u.at = tasks[w].at /\ u.filling = tasks[w].filling
      /\ u.copy = c /\ u.about = tasks[w].about /\ u.overtaken = tasks[w].overtaken
  BY <1>0, <1>3, <1>5 DEF TaskOK, TaskShape, IsTask
<1>7. PICK n : n = Onward(u)
  OBVIOUS
<1>8. /\ TaskOK(n)
      /\ \/ tasks[w].kind = "event" /\ n = Idling
         \/ /\ tasks[w].kind # "event"
            /\ n.kind = u.kind /\ n.at = u.at + 1 /\ ~n.filling
            /\ n.copy = u.copy /\ n.about = u.about /\ n.overtaken = u.overtaken
  BY <1>1, <1>6, <1>7, OnwardIs DEF Writing, Awaits
<1>9. TasksOK' /\ tasks[w]' = n /\ OthersBehindCache(w)
  BY <1>2, <1>4, <1>7, <1>8, OvertakingIs, OthersAre DEF UpdateConference
<1>10. behind' <=> behind \/ tasks[w].overtaken
  BY DEF UpdateConference
<1> QED
  BY <1>1, <1>2, <1>6, <1>8, <1>9, <1>10 DEF UpdateConference, Writes

\* The request of a cancelled hearing takes it from the cache.
Forgets(w) ==
  /\ TasksOK' /\ OthersBehindCache(w)
  /\ tasks[w].kind = "cancel" /\ tasks[w].at = 2 /\ tasks[w]' = Idling
  /\ cached' = Uncached
  /\ UNCHANGED <<bookingVars, shownLists, memberHistory>>

LEMMA ForgetsAre ==
  ASSUME TasksOK, NEW w \in Handlers, RemoveConference(w)
  PROVE  Forgets(w)
<1>0. TaskOK(tasks[w])
  BY DEF TasksOK
<1>1. tasks[w].kind = "cancel" /\ tasks[w].at = 2
  BY <1>0, TheSteps DEF RemoveConference, Doing
<1>2. Onward(tasks[w]) = Idling
  BY <1>0, <1>1, OnwardIs DEF Awaits, TaskOK, TaskShape
<1>3. TasksOK' /\ tasks[w]' = Idling /\ OthersBehindCache(w)
  BY <1>2, Idle, OvertakingIs, OthersAre DEF RemoveConference
<1> QED
  BY <1>1, <1>3 DEF RemoveConference, Forgets

\* It is to tell the people of its copy who they are.
IsToTell(t) ==
  \/ t.kind = "participantsUpdated" /\ t.at = 5
  \/ t.kind = "add" /\ t.at = 3
  \/ t.kind = "remove" /\ t.at = 4

\* A request tells the people of its copy, and whom it is about, who is in it.
Tells(w) ==
  /\ TasksOK' /\ OthersGoOn(w)
  /\ IsToTell(tasks[w]) /\ ~tasks[w].filling /\ tasks[w]' = Idling
  /\ \A p \in Persons :
       shownLists[p]' = IF p \in tasks[w].copy \cup tasks[w].about THEN tasks[w].copy
                        ELSE shownLists[p]
  /\ shownLists' \in [Persons -> SUBSET Persons]
  /\ overlapped' <=> overlapped \/ tasks[w].overtaken \/ behind
  /\ missedOut' = missedOut \ (tasks[w].copy \cup tasks[w].about)
  /\ UNCHANGED <<bookingVars, cached, behind>>

LEMMA TellsAre ==
  ASSUME TasksOK, MembershipSorts, NEW w \in Handlers, PushParticipantsUpdated(w)
  PROVE  Tells(w)
<1>0. TaskOK(tasks[w])
  BY DEF TasksOK
<1>1. IsToTell(tasks[w]) /\ ~tasks[w].filling
  BY <1>0, TheSteps DEF PushParticipantsUpdated, Doing, IsToTell
<1>2. Onward(tasks[w]) = Idling
  BY <1>0, <1>1, OnwardIs DEF Awaits, IsToTell
<1>3. TasksOK' /\ tasks[w]' = Idling /\ OthersGoOn(w)
  BY <1>2, Idle, ContinueIs, OthersAre DEF PushParticipantsUpdated
<1>4. shownLists' = [p \in Persons |-> IF p \in tasks[w].copy \cup tasks[w].about
                                        THEN tasks[w].copy ELSE shownLists[p]]
  BY DEF PushParticipantsUpdated
<1>5. overlapped' <=> overlapped \/ tasks[w].overtaken \/ behind
  BY DEF PushParticipantsUpdated
<1>6. /\ \A p \in Persons :
           shownLists[p]' = IF p \in tasks[w].copy \cup tasks[w].about THEN tasks[w].copy
                            ELSE shownLists[p]
      /\ shownLists' \in [Persons -> SUBSET Persons]
  BY <1>0, <1>4 DEF MembershipSorts, TaskOK, TaskShape
<1> QED
  BY <1>1, <1>3, <1>5, <1>6 DEF PushParticipantsUpdated, Tells

\* A request takes an internal event.
Takes(w) ==
  /\ TasksOK' /\ OthersGoOn(w)
  /\ Unused(tasks[w])
  /\ \E e \in posted :
       /\ posted' = posted \ {e}
       /\ tasks[w]'.kind = e.kind /\ tasks[w]'.at = 1 /\ ~tasks[w]'.filling
       /\ tasks[w]'.copy = {} /\ tasks[w]'.about = e.about /\ ~tasks[w]'.overtaken
  /\ UNCHANGED <<members, joined, cancelled, bookings, cached, shownLists, memberHistory>>

LEMMA TakesAre ==
  ASSUME TasksOK, MembershipSorts, NEW w \in Handlers, NEW e \in posted,
         TakeInternalEvent(w, e)
  PROVE  Takes(w)
<1>0. TaskOK(tasks[w])
  BY DEF TasksOK
<1>1. Unused(tasks[w])
  BY <1>0, TheSteps DEF TakeInternalEvent, Doing, Unused
<1>2. PICK n : n = Begins(e.kind, e.about)
  OBVIOUS
<1>3. TaskOK(n) /\ n.kind = e.kind /\ n.at = 1 /\ ~n.filling /\ n.copy = {}
      /\ n.about = e.about /\ ~n.overtaken
  BY <1>2, BeginsIs DEF MembershipSorts, Kinds
<1>4. TasksOK' /\ tasks[w]' = n /\ OthersGoOn(w)
  BY <1>2, <1>3, ContinueIs, OthersAre DEF TakeInternalEvent
<1> QED
  BY <1>1, <1>3, <1>4 DEF TakeInternalEvent, Takes

\* Somebody joins, who has not before.
Joins(w, p) ==
  /\ TasksOK' /\ OthersBehindApi(w)
  /\ Unused(tasks[w])
  /\ ~cancelled /\ p \in Visitors /\ p \notin joined
  /\ members' = members \cup {p} /\ joined' = joined \cup {p}
  /\ bookings < MaxBookings /\ bookings' = bookings + 1
  /\ tasks[w]'.kind = "add" /\ tasks[w]'.at = 1 /\ ~tasks[w]'.filling
  /\ tasks[w]'.copy = {} /\ tasks[w]'.about = {p} /\ ~tasks[w]'.overtaken
  /\ UNCHANGED <<cancelled, posted, cached, shownLists, memberHistory>>

LEMMA JoinsAre ==
  ASSUME TasksOK, MembershipSorts, NEW w \in Handlers, NEW p \in Persons,
         JoinConference(w, p)
  PROVE  Joins(w, p)
<1>0. TaskOK(tasks[w])
  BY DEF TasksOK
<1>1. Unused(tasks[w])
  BY <1>0, TheSteps DEF JoinConference, Doing, Unused
<1>2. PICK n : n = Begins("add", {p})
  OBVIOUS
<1>3. TaskOK(n) /\ n.kind = "add" /\ n.at = 1 /\ ~n.filling /\ n.copy = {}
      /\ n.about = {p} /\ ~n.overtaken
  BY <1>2, BeginsIs DEF Kinds
<1>4. TasksOK' /\ tasks[w]' = n /\ OthersBehindApi(w)
  BY <1>2, <1>3, OvertakingIs, OthersAre DEF JoinConference
<1> QED
  BY <1>1, <1>3, <1>4 DEF JoinConference, Joins

\* A removal is refused by the Video API, or done there.
Asks(w) ==
  /\ TasksOK'
  /\ tasks[w].kind = "remove" /\ tasks[w].at = 2 /\ ~tasks[w].filling
  /\ \/ tasks[w]' = Idling /\ members' = members /\ OthersGoOn(w)
     \/ /\ members' = members \ tasks[w].about
        /\ OthersBehindApi(w)
        /\ tasks[w]'.kind = "remove" /\ tasks[w]'.at = 3 /\ ~tasks[w]'.filling
        /\ tasks[w]'.copy = tasks[w].copy /\ tasks[w]'.about = tasks[w].about
        /\ tasks[w]'.overtaken = tasks[w].overtaken
  /\ UNCHANGED <<joined, cancelled, posted, bookings, cached, shownLists, memberHistory>>

LEMMA AsksAre ==
  ASSUME TasksOK, NEW w \in Handlers, RemoveFromVideoApi(w)
  PROVE  Asks(w)
<1>0. TaskOK(tasks[w])
  BY DEF TasksOK
<1>1. tasks[w].kind = "remove" /\ tasks[w].at = 2 /\ ~tasks[w].filling
  BY <1>0, TheSteps DEF RemoveFromVideoApi, Doing
<1>2. CASE Continue(w, Idling) /\ UNCHANGED members
  BY <1>1, <1>2, Idle, ContinueIs, OthersAre DEF RemoveFromVideoApi, Asks
<1>3. CASE /\ members' = members \ tasks[w].about
           /\ Overtaking(w, Onward(tasks[w]), FromApi)
  <2>1. PICK n : n = Onward(tasks[w])
    OBVIOUS
  <2>2. /\ TaskOK(n) /\ n.kind = "remove" /\ n.at = 3 /\ ~n.filling
        /\ n.copy = tasks[w].copy /\ n.about = tasks[w].about
        /\ n.overtaken = tasks[w].overtaken
    BY <1>0, <1>1, <2>1, OnwardIs DEF Awaits
  <2>3. TasksOK' /\ tasks[w]' = n /\ OthersBehindApi(w)
    BY <1>3, <2>1, <2>2, OvertakingIs, OthersAre
  <2> QED
    BY <1>1, <1>3, <2>2, <2>3 DEF RemoveFromVideoApi, Asks
<1> QED
  BY <1>2, <1>3 DEF RemoveFromVideoApi

\* The bookings change, and post what they changed.
Books ==
  /\ TasksOK' /\ ~cancelled
  /\ bookings < MaxBookings /\ bookings' = bookings + 1
  /\ members' \subseteq Persons
  /\ members' \cap Visitors = members \cap Visitors
  /\ \E e :
       /\ posted' = posted \cup {e} /\ e.about \subseteq Persons
       /\ e.kind \in {"participantsUpdated", "refresh", "cancel"}
       /\ members' # members => e.kind = "participantsUpdated"
       /\ cancelled' <=> e.kind = "cancel"
  /\ \A v \in Handlers :
       /\ SameTask(v)
       /\ tasks[v]'.overtaken <=>
            tasks[v].overtaken \/ ((members' # members \/ cancelled') /\ OfApi(tasks[v]))
  /\ UNCHANGED <<joined, cached, shownLists, memberHistory>>

LEMMA BooksAre ==
  ASSUME TasksOK, MembershipSorts, NEW kind, NEW about, NEW changed, NEW gone,
         Book(kind, about, changed, gone),
         kind \in {"participantsUpdated", "refresh", "cancel"},
         about \subseteq Persons, changed \subseteq Persons,
         changed \cap Visitors = members \cap Visitors,
         changed # members => kind = "participantsUpdated",
         gone <=> kind = "cancel"
  PROVE  Books
<1>1. PICK e : e = [kind |-> kind, about |-> about, id |-> bookings]
  OBVIOUS
<1>2. posted' = posted \cup {e} /\ e.kind = kind /\ e.about = about
  BY <1>1 DEF Book
<1>3. PICK steps : steps = (IF changed # members \/ gone THEN FromApi ELSE {})
  OBVIOUS
<1>4. tasks' = [v \in Handlers |-> Overtaken(tasks[v], steps)]
  BY <1>3 DEF Book
<1>5. /\ TasksOK'
      /\ \A v \in Handlers :
           /\ SameTask(v)
           /\ tasks[v]'.overtaken <=> tasks[v].overtaken \/ StepOf(tasks[v]) \in steps
  BY <1>4, AllOvertakenIs DEF SameTask
<1>6. members' = changed /\ (cancelled' <=> gone)
  BY DEF Book
<1>7. ASSUME NEW v \in Handlers
      PROVE  tasks[v]'.overtaken <=>
               tasks[v].overtaken \/ ((members' # members \/ cancelled') /\ OfApi(tasks[v]))
  <2>1. TaskOK(tasks[v])
    BY DEF TasksOK
  <2>2. CASE changed # members \/ gone
    BY <1>3, <1>5, <1>6, <2>1, <2>2, HeldCopies
  <2>3. CASE ~(changed # members \/ gone)
    BY <1>3, <1>5, <1>6, <2>3
  <2> QED
    BY <2>2, <2>3
<1> QED
  BY <1>2, <1>5, <1>6, <1>7 DEF Book, Books

LEMMA BookingsAre ==
  ASSUME TasksOK, MembershipSorts,
         \/ \E p \in Persons : BookIn(p) \/ BookOut(p)
         \/ AmendBooking \/ CancelBooking
  PROVE  Books
<1>1. ASSUME NEW p \in Persons, BookIn(p) PROVE Books
  <2>1. PICK c, g, a : c = members \cup {p} /\ g = FALSE /\ a = {}
    OBVIOUS
  <2>2. Book("participantsUpdated", a, c, g)
    BY <1>1, <2>1 DEF BookIn
  <2>3. /\ a \subseteq Persons /\ c \subseteq Persons /\ c \cap Visitors = members \cap Visitors
        /\ c # members => "participantsUpdated" = "participantsUpdated"
        /\ g <=> "participantsUpdated" = "cancel"
    BY <1>1, <2>1 DEF BookIn, MembershipSorts
  <2> QED
    BY <2>2, <2>3, BooksAre
<1>2. ASSUME NEW p \in Persons, BookOut(p) PROVE Books
  <2>1. PICK c, g, a : c = members \ {p} /\ g = FALSE /\ a = {p}
    OBVIOUS
  <2>2. Book("participantsUpdated", a, c, g)
    BY <1>2, <2>1 DEF BookOut
  <2>3. /\ a \subseteq Persons /\ c \subseteq Persons /\ c \cap Visitors = members \cap Visitors
        /\ c # members => "participantsUpdated" = "participantsUpdated"
        /\ g <=> "participantsUpdated" = "cancel"
    BY <1>2, <2>1 DEF BookOut, MembershipSorts
  <2> QED
    BY <2>2, <2>3, BooksAre
<1>3. CASE AmendBooking
  <2>1. PICK c, g, a : c = members /\ g = FALSE /\ a = {}
    OBVIOUS
  <2>2. Book("refresh", a, c, g)
    BY <1>3, <2>1 DEF AmendBooking
  <2>3. /\ a \subseteq Persons /\ c \subseteq Persons /\ c \cap Visitors = members \cap Visitors
        /\ c # members => "refresh" = "participantsUpdated"
        /\ g <=> "refresh" = "cancel"
    BY <1>3, <2>1 DEF AmendBooking, MembershipSorts
  <2> QED
    BY <2>2, <2>3, BooksAre
<1>4. CASE CancelBooking
  <2>1. PICK c, g, a : c = members /\ g = TRUE /\ a = {}
    OBVIOUS
  <2>2. Book("cancel", a, c, g)
    BY <1>4, <2>1 DEF CancelBooking
  <2>3. /\ a \subseteq Persons /\ c \subseteq Persons /\ c \cap Visitors = members \cap Visitors
        /\ c # members => "cancel" = "participantsUpdated"
        /\ g <=> "cancel" = "cancel"
    BY <1>4, <2>1 DEF CancelBooking, MembershipSorts
  <2> QED
    BY <2>2, <2>3, BooksAre
<1> QED
  BY <1>1, <1>2, <1>3, <1>4

\* The cached conference expires.
Expires ==
  /\ TasksOK'
  /\ cached' = Uncached
  /\ \A v \in Handlers :
       SameTask(v) /\ (tasks[v]'.overtaken <=> tasks[v].overtaken \/ OfCache(tasks[v]))
  /\ UNCHANGED <<bookingVars, shownLists, memberHistory>>

LEMMA ExpiresIs ==
  ASSUME TasksOK, ConferenceExpires
  PROVE  Expires
<1>1. PICK steps : steps = FromCache
  OBVIOUS
<1>4. tasks' = [v \in Handlers |-> Overtaken(tasks[v], steps)]
  BY <1>1 DEF ConferenceExpires
<1>5. /\ TasksOK'
      /\ \A v \in Handlers :
           /\ SameTask(v)
           /\ tasks[v]'.overtaken <=> tasks[v].overtaken \/ StepOf(tasks[v]) \in steps
  BY <1>4, AllOvertakenIs DEF SameTask
<1>6. \A v \in Handlers : tasks[v]'.overtaken <=> tasks[v].overtaken \/ OfCache(tasks[v])
  BY <1>1, <1>5, HeldCopies DEF TasksOK
<1> QED
  BY <1>5, <1>6 DEF ConferenceExpires, Expires

\* What a step does.
MembershipMove ==
  \/ Books \/ Expires
  \/ \E w \in Handlers :
       \/ Takes(w) \/ (\E p \in Persons : Joins(w, p)) \/ Reads(w) \/ Fills(w)
       \/ Queries(w) \/ Stores(w) \/ Writes(w) \/ Forgets(w) \/ Asks(w) \/ Tells(w)

LEMMA MembershipMoves ==
  ASSUME TasksOK, MembershipSorts, MembershipNext
  PROVE  MembershipMove
<1>1. ASSUME \/ \E p \in Persons : BookIn(p) \/ BookOut(p)
             \/ AmendBooking \/ CancelBooking
      PROVE  MembershipMove
  BY <1>1, BookingsAre DEF MembershipMove
<1>4. ASSUME ConferenceExpires PROVE MembershipMove
  BY <1>4, ExpiresIs DEF MembershipMove
<1>5. ASSUME NEW w \in Handlers, NEW e \in posted, TakeInternalEvent(w, e)
      PROVE  MembershipMove
  BY <1>5, TakesAre DEF MembershipMove
<1>6. ASSUME NEW w \in Handlers, NEW p \in Persons, JoinConference(w, p)
      PROVE  MembershipMove
  BY <1>6, JoinsAre DEF MembershipMove
<1>7. ASSUME NEW w \in Handlers,
             \/ ReadConference(w) \/ HandleEvent(w)
             \/ \E p \in Persons : RemoveParticipantFromConference(w, p)
      PROVE  MembershipMove
  BY <1>7, ReadsAre DEF MembershipMove
<1>8. ASSUME NEW w \in Handlers, Fill(w) PROVE MembershipMove
  BY <1>8, FillsAre DEF MembershipMove
<1>9. ASSUME NEW w \in Handlers, ForceQuery(w) PROVE MembershipMove
  BY <1>9, QueriesAre DEF MembershipMove
<1>10. ASSUME NEW w \in Handlers, ForceStore(w) PROVE MembershipMove
  BY <1>10, StoresAre DEF MembershipMove
<1>11. ASSUME NEW w \in Handlers, UpdateConference(w) PROVE MembershipMove
  BY <1>11, WritesAre DEF MembershipMove
<1>12. ASSUME NEW w \in Handlers, RemoveConference(w) PROVE MembershipMove
  BY <1>12, ForgetsAre DEF MembershipMove
<1>13. ASSUME NEW w \in Handlers, RemoveFromVideoApi(w) PROVE MembershipMove
  BY <1>13, AsksAre DEF MembershipMove
<1>14. ASSUME NEW w \in Handlers, PushParticipantsUpdated(w) PROVE MembershipMove
  BY <1>14, TellsAre DEF MembershipMove
<1> QED
  BY <1>1, <1>4, <1>5, <1>6, <1>7, <1>8, <1>9, <1>10, <1>11, <1>12, <1>13, <1>14
  DEF MembershipNext

-----------------------------------------------------------------------------
(*****************************************************************************)
(* The invariant: types first.                                               *)
(*****************************************************************************)
MembershipFlags ==
  cancelled \in BOOLEAN /\ behind \in BOOLEAN /\ overlapped \in BOOLEAN

LEMMA MembershipFlagsStep ==
  ASSUME MembershipFlags, TasksOK, [MembershipNext]_memberVars PROVE MembershipFlags'
<1> USE DEF MembershipFlags
<1>1. ASSUME NEW w \in Handlers, ForceStore(w) PROVE MembershipFlags'
  <2>1. tasks[w].overtaken \in BOOLEAN
    BY Zenon DEF TasksOK, TaskOK
  <2> QED
    BY <1>1, <2>1 DEF ForceStore, bookingVars
<1>2. ASSUME NEW p \in Persons, BookIn(p) \/ BookOut(p) \/ AmendBooking \/ CancelBooking
      PROVE MembershipFlags'
  BY <1>2 DEF BookIn, BookOut, AmendBooking, CancelBooking, Book, memberHistory
<1>2a. ASSUME AmendBooking \/ CancelBooking PROVE MembershipFlags'
  BY <1>2a DEF AmendBooking, CancelBooking, Book, memberHistory
<1>3. ASSUME NEW w \in Handlers, NEW e \in posted, TakeInternalEvent(w, e) PROVE MembershipFlags'
  BY <1>3 DEF TakeInternalEvent, memberHistory
<1>4. ASSUME NEW w \in Handlers, NEW p \in Persons,
             JoinConference(w, p) \/ RemoveParticipantFromConference(w, p)
      PROVE MembershipFlags'
  BY <1>4 DEF JoinConference, RemoveParticipantFromConference, memberHistory
<1>5. ASSUME NEW w \in Handlers,
             \/ HandleEvent(w) \/ ReadConference(w) \/ ForceQuery(w) \/ RemoveConference(w)
             \/ RemoveFromVideoApi(w)
      PROVE MembershipFlags'
  BY <1>5 DEF HandleEvent, ReadConference, ForceQuery, RemoveConference, RemoveFromVideoApi,
     bookingVars, memberHistory
<1>6. ASSUME NEW w \in Handlers, Fill(w) \/ UpdateConference(w) \/ PushParticipantsUpdated(w)
      PROVE MembershipFlags'
  BY <1>6 DEF Fill, UpdateConference, PushParticipantsUpdated, bookingVars
<1>7. ASSUME ConferenceExpires \/ UNCHANGED memberVars PROVE MembershipFlags'
  BY <1>7 DEF ConferenceExpires, bookingVars, memberHistory, memberVars
<1> QED
  BY <1>1, <1>2, <1>2a, <1>3, <1>4, <1>5, <1>6, <1>7 DEF MembershipNext

LEMMA MembershipSortsStep ==
  ASSUME MembershipSorts, TasksOK, MembershipMove PROVE MembershipSorts'
<1> USE ConferenceMembershipAssumption DEF MembershipSorts
<1>1. CASE Books
  BY <1>1 DEF Books, memberHistory
<1>2. CASE Expires
  BY <1>2 DEF Expires, bookingVars, memberHistory
<1>3. ASSUME NEW w \in Handlers, Takes(w) \/ Reads(w) \/ Queries(w) \/ Forgets(w) \/ Asks(w)
      PROVE  MembershipSorts'
  BY <1>3 DEF Takes, Reads, Queries, Forgets, Asks, bookingVars, memberHistory
<1>4. ASSUME NEW w \in Handlers, NEW p \in Persons, Joins(w, p) PROVE MembershipSorts'
  BY <1>4 DEF Joins, memberHistory
<1>5. ASSUME NEW w \in Handlers, Fills(w) \/ Stores(w) PROVE MembershipSorts'
  BY <1>5 DEF Fills, Stores, bookingVars, TasksOK, TaskOK, TaskShape, Dropped
<1>6. ASSUME NEW w \in Handlers, Writes(w) PROVE MembershipSorts'
  BY <1>6 DEF Writes, bookingVars, TasksOK, TaskOK, TaskShape, Changed
<1>7. ASSUME NEW w \in Handlers, Tells(w) PROVE MembershipSorts'
  BY <1>7 DEF Tells, bookingVars
<1> QED
  BY <1>1, <1>2, <1>3, <1>4, <1>5, <1>6, <1>7 DEF MembershipMove

\* What a request was last given, the Video API or the cache has still.
Fresh(w) ==
  ~tasks[w].overtaken =>
    /\ OfApi(tasks[w]) => ~cancelled /\ tasks[w].copy = members
    /\ OfCache(tasks[w]) => cached # Uncached /\ tasks[w].copy = cached

CopiesAreFresh == \A w \in Handlers : Fresh(w)

LEMMA CopiesAreFreshStep ==
  ASSUME MembershipSorts, TasksOK, CopiesAreFresh, MembershipMove PROVE CopiesAreFresh'
<1> SUFFICES ASSUME NEW v \in Handlers PROVE Fresh(v)'
  BY DEF CopiesAreFresh
<1>0. Fresh(v) /\ TaskShape(tasks[v])
  BY DEF CopiesAreFresh, TasksOK, TaskOK
<1>a. ~Idling.filling /\ Idling.kind = "none"
  BY DEF Idling
<1> USE <1>0 DEF Fresh, OfApi, OfCache, Storing, SameTask, OthersGoOn, OthersBehindCache,
        OthersBehindApi
<1>1. CASE Books
  BY <1>1 DEF Books, memberHistory
<1>2. CASE Expires
  BY <1>2 DEF Expires, bookingVars
<1>3. ASSUME NEW w \in Handlers, Takes(w) PROVE Fresh(v)'
  BY <1>3 DEF Takes
<1>4. ASSUME NEW w \in Handlers, NEW p \in Persons, Joins(w, p) PROVE Fresh(v)'
  BY <1>4 DEF Joins
<1>5. ASSUME NEW w \in Handlers, Reads(w) PROVE Fresh(v)'
  BY <1>5, <1>a DEF Reads, ReadBy, Reading, Got
<1>6. ASSUME NEW w \in Handlers, Fills(w) PROVE Fresh(v)'
  BY <1>6, <1>a, ConferenceMembershipAssumption DEF Fills, Got, TaskShape, bookingVars
<1>7. ASSUME NEW w \in Handlers, Queries(w) PROVE Fresh(v)'
  BY <1>7, <1>a DEF Queries, Querying, bookingVars
<1>8. ASSUME NEW w \in Handlers, Stores(w) PROVE Fresh(v)'
  BY <1>8, <1>a, ConferenceMembershipAssumption DEF Stores, TaskShape, bookingVars
<1>9. ASSUME NEW w \in Handlers, Writes(w) PROVE Fresh(v)'
  BY <1>9, <1>a, ConferenceMembershipAssumption DEF Writes, Writing, Changed, TaskShape, bookingVars
<1>10. ASSUME NEW w \in Handlers, Forgets(w) PROVE Fresh(v)'
  BY <1>10, <1>a DEF Forgets, bookingVars
<1>11. ASSUME NEW w \in Handlers, Asks(w) PROVE Fresh(v)'
  BY <1>11, <1>a DEF Asks
<1>12. ASSUME NEW w \in Handlers, Tells(w) PROVE Fresh(v)'
  BY <1>12, <1>a DEF Tells, bookingVars
<1> QED
  BY <1>1, <1>2, <1>3, <1>4, <1>5, <1>6, <1>7, <1>8, <1>9, <1>10, <1>11, <1>12
  DEF MembershipMove

\* Who has been in the hearing, or may be booked.
Known == joined \cup (Persons \ Visitors)

\* A request holds and adds nobody else; one that adds somebody adds one of
\* the hearing.
KnownTask(w) ==
  /\ tasks[w].copy \subseteq Known
  /\ tasks[w].kind \in {"add", "remove"} => \E x \in Persons : tasks[w].about = {x}
  /\ tasks[w].kind = "remove" /\ tasks[w].at # 1 => tasks[w].about \subseteq Known
  /\ tasks[w].kind = "add" => tasks[w].about \subseteq members \cap joined

\* Nobody is removed while the request that adds them is in progress.
Apart(w, v) ==
  tasks[w].kind = "add" /\ tasks[v].kind = "remove" /\ tasks[v].at # 1 =>
    tasks[w].about \cap tasks[v].about = {}

\* A visitor who has not joined is nowhere, so none joins who is being removed.
MembersAreKnown ==
  /\ members \subseteq Known
  /\ cached # Uncached => cached \subseteq Known
  /\ \A w \in Handlers : KnownTask(w)
  /\ \A w, v \in Handlers : Apart(w, v)

LEMMA MembersAreKnownStep ==
  ASSUME MembershipSorts, TasksOK, MembersAreKnown, MembershipMove PROVE MembersAreKnown'
<1>a. ~Idling.filling /\ Idling.kind = "none" /\ Idling.copy = {}
  BY DEF Idling
<1>b. /\ members \subseteq Known
      /\ cached # Uncached => cached \subseteq Known
      /\ \A w \in Handlers : KnownTask(w) /\ TaskShape(tasks[w])
      /\ \A w, v \in Handlers : Apart(w, v)
  BY DEF MembersAreKnown, TasksOK, TaskOK
<1>c. Known' = joined' \cup (Persons \ Visitors)
  BY DEF Known
<1> DEFINE Goal1 == members' \subseteq Known' /\ (cached' # Uncached => cached' \subseteq Known')
           Goal2 == \A w \in Handlers : KnownTask(w)'
           Goal3 == \A w, v \in Handlers : Apart(w, v)'
<1> SUFFICES Goal1 /\ Goal2 /\ Goal3
  BY DEF MembersAreKnown
<1> USE DEF SameTask, OthersGoOn, OthersBehindCache, OthersBehindApi
<1>1. CASE Books
  <2>0. Known' = Known
    BY <1>1, <1>c DEF Books, Known
  <2>1. Goal1
    BY <1>1, <1>b, <2>0 DEF Books, Known, MembershipSorts
  <2>2. Goal2
    BY <1>1, <1>b, <2>0 DEF Books, KnownTask, MembershipSorts
  <2>3. Goal3
    BY <1>1, <1>b DEF Books, Apart
  <2> QED
    BY <2>1, <2>2, <2>3
<1>2. CASE Expires
  <2>0. Known' = Known
    BY <1>2, <1>c DEF Expires, Known, bookingVars
  <2>1. Goal1
    BY <1>2, <1>b, <2>0 DEF Expires, bookingVars
  <2>2. Goal2
    BY <1>2, <1>b, <2>0 DEF Expires, KnownTask, bookingVars
  <2>3. Goal3
    BY <1>2, <1>b DEF Expires, Apart
  <2> QED
    BY <2>1, <2>2, <2>3
<1>4. ASSUME NEW w \in Handlers, NEW p \in Persons, Joins(w, p) PROVE Goal1 /\ Goal2 /\ Goal3
  <2>0. Known' = Known \cup {p} /\ p \notin Known
    BY <1>4, <1>c DEF Joins, Known
  <2>1. Goal1
    BY <1>4, <1>b, <2>0 DEF Joins
  <2>2. Goal2
    BY <1>4, <1>b, <2>0 DEF Joins, KnownTask
  <2>3. Goal3
    <3> SUFFICES ASSUME NEW u \in Handlers, NEW v \in Handlers PROVE Apart(u, v)'
      OBVIOUS
    <3>1. Apart(u, v) /\ KnownTask(v)
      BY <1>b
    <3>2. CASE u = w
      BY <1>4, <2>0, <3>1, <3>2 DEF Joins, Apart, KnownTask
    <3>3. CASE u # w
      BY <1>4, <3>1, <3>3 DEF Joins, Apart
    <3> QED
      BY <3>2, <3>3
  <2> QED
    BY <2>1, <2>2, <2>3
<1>3. ASSUME NEW w \in Handlers, Takes(w) PROVE Goal1 /\ Goal2 /\ Goal3
  <2>0. Known' = Known
    BY <1>3, <1>c DEF Takes, Known, bookingVars
  <2>1. Goal1
    BY <1>3, <1>a, <1>b, <2>0, ConferenceMembershipAssumption DEF Takes, KnownTask, bookingVars, MembershipSorts
  <2>2. Goal2
    <3> SUFFICES ASSUME NEW u \in Handlers PROVE KnownTask(u)'
      OBVIOUS
    <3>1. CASE u = w
      BY <1>3, <1>a, <1>b, <2>0, <3>1 DEF Takes, KnownTask, bookingVars, MembershipSorts
    <3>2. CASE u # w
      BY <1>3, <1>b, <2>0, <3>2 DEF Takes, KnownTask, bookingVars
    <3> QED
      BY <3>1, <3>2
  <2>3. Goal3
    <3> SUFFICES ASSUME NEW u \in Handlers, NEW v \in Handlers PROVE Apart(u, v)'
      OBVIOUS
    <3>1. Apart(u, v)
      BY <1>b
    <3>2. CASE u = w
      BY <1>3, <1>a, <1>b, <3>1, <3>2 DEF Takes, Apart, MembershipSorts
    <3>3. CASE u # w /\ v = w
      BY <1>3, <1>a, <1>b, <3>1, <3>3 DEF Takes, Apart, MembershipSorts
    <3>4. CASE u # w /\ v # w
      BY <1>3, <3>1, <3>4 DEF Takes, Apart
    <3> QED
      BY <3>2, <3>3, <3>4
  <2> QED
    BY <2>1, <2>2, <2>3
<1>5. ASSUME NEW w \in Handlers, Reads(w) PROVE Goal1 /\ Goal2 /\ Goal3
  <2>0. Known' = Known
    BY <1>5, <1>c DEF Reads, Known, bookingVars
  <2>1. Goal1
    BY <1>5, <1>a, <1>b, <2>0, ConferenceMembershipAssumption DEF Reads, KnownTask, bookingVars, ReadBy, Reading, Got
  <2>2. Goal2
    <3> SUFFICES ASSUME NEW u \in Handlers PROVE KnownTask(u)'
      OBVIOUS
    <3>1. CASE u = w
      BY <1>5, <1>a, <1>b, <2>0, <3>1 DEF Reads, KnownTask, bookingVars, ReadBy, Reading, Got, MayBeDisconnected
    <3>2. CASE u # w
      BY <1>5, <1>b, <2>0, <3>2 DEF Reads, KnownTask, bookingVars
    <3> QED
      BY <3>1, <3>2
  <2>3. Goal3
    <3> SUFFICES ASSUME NEW u \in Handlers, NEW v \in Handlers PROVE Apart(u, v)'
      OBVIOUS
    <3>1. Apart(u, v)
      BY <1>b
    <3>2. CASE u = w
      BY <1>5, <1>a, <1>b, <3>1, <3>2 DEF Reads, Apart, ReadBy, Reading, Got
    <3>3. CASE u # w /\ v = w
      <4>1. PICK t : /\ Reading(t) /\ ReadBy(t, tasks[w]')
                     /\ \/ t = tasks[w]
                        \/ /\ Unused(tasks[w]) /\ t.kind \in {"remove", "event"}
                           /\ t.kind = "remove" => \E p \in Persons : t.about = {p}
        BY <1>5 DEF Reads
      <4>2. t.kind = "remove" => \E p \in Persons : t.about = {p}
        BY <1>b, <4>1 DEF KnownTask
      <4>3. tasks[u].kind = "add" => \E p \in Persons : tasks[u].about = {p}
        BY <1>b DEF KnownTask
      <4>4. /\ tasks[w]'.kind = "remove" /\ tasks[w]'.at # 1
              => /\ t.kind = "remove" /\ tasks[w]'.about = t.about
                 /\ tasks[u].kind = "add" => tasks[u].about # t.about
        BY <1>a, <4>1 DEF ReadBy, Reading, Got, MayBeDisconnected
      <4>5. tasks[u]'.kind = tasks[u].kind /\ tasks[u]'.about = tasks[u].about
        BY <1>5, <3>3 DEF Reads
      <4> QED
        BY <3>3, <4>2, <4>3, <4>4, <4>5 DEF Apart
    <3>4. CASE u # w /\ v # w
      BY <1>5, <3>1, <3>4 DEF Reads, Apart
    <3> QED
      BY <3>2, <3>3, <3>4
  <2> QED
    BY <2>1, <2>2, <2>3
<1>6. ASSUME NEW w \in Handlers, Fills(w) PROVE Goal1 /\ Goal2 /\ Goal3
  <2>0. Known' = Known
    BY <1>6, <1>c DEF Fills, Known, bookingVars
  <2>1. Goal1
    BY <1>6, <1>a, <1>b, <2>0, ConferenceMembershipAssumption DEF Fills, KnownTask, bookingVars, Got, TaskShape
  <2>2. Goal2
    <3> SUFFICES ASSUME NEW u \in Handlers PROVE KnownTask(u)'
      OBVIOUS
    <3>1. CASE u = w
      BY <1>6, <1>a, <1>b, <2>0, <3>1 DEF Fills, KnownTask, bookingVars, Got, TaskShape, MayBeDisconnected
    <3>2. CASE u # w
      BY <1>6, <1>b, <2>0, <3>2 DEF Fills, KnownTask, bookingVars
    <3> QED
      BY <3>1, <3>2
  <2>3. Goal3
    <3> SUFFICES ASSUME NEW u \in Handlers, NEW v \in Handlers PROVE Apart(u, v)'
      OBVIOUS
    <3>1. Apart(u, v)
      BY <1>b
    <3>2. CASE u = w
      BY <1>6, <1>a, <1>b, <3>1, <3>2 DEF Fills, Apart, Got, TaskShape
    <3>3. CASE u # w /\ v = w
      <4>2. /\ tasks[w].kind = "remove" => \E p \in Persons : tasks[w].about = {p}
            /\ tasks[u].kind = "add" => \E p \in Persons : tasks[u].about = {p}
        BY <1>b DEF KnownTask
      <4>4. tasks[w]'.kind = "remove" /\ tasks[w]'.at # 1
              => /\ tasks[w].kind = "remove" /\ tasks[w]'.about = tasks[w].about
                 /\ tasks[u].kind = "add" => tasks[u].about # tasks[w].about
        BY <1>6, <1>a DEF Fills, Got, MayBeDisconnected
      <4>5. tasks[u]'.kind = tasks[u].kind /\ tasks[u]'.about = tasks[u].about
        BY <1>6, <3>3 DEF Fills
      <4> QED
        BY <3>3, <4>2, <4>4, <4>5 DEF Apart
    <3>4. CASE u # w /\ v # w
      BY <1>6, <3>1, <3>4 DEF Fills, Apart
    <3> QED
      BY <3>2, <3>3, <3>4
  <2> QED
    BY <2>1, <2>2, <2>3
<1>7. ASSUME NEW w \in Handlers, Queries(w) PROVE Goal1 /\ Goal2 /\ Goal3
  <2>0. Known' = Known
    BY <1>7, <1>c DEF Queries, Known, bookingVars
  <2>1. Goal1
    BY <1>7, <1>a, <1>b, <2>0, ConferenceMembershipAssumption DEF Queries, KnownTask, bookingVars, Querying
  <2>2. Goal2
    <3> SUFFICES ASSUME NEW u \in Handlers PROVE KnownTask(u)'
      OBVIOUS
    <3>1. CASE u = w
      BY <1>7, <1>a, <1>b, <2>0, <3>1 DEF Queries, KnownTask, bookingVars, Querying
    <3>2. CASE u # w
      BY <1>7, <1>b, <2>0, <3>2 DEF Queries, KnownTask, bookingVars
    <3> QED
      BY <3>1, <3>2
  <2>3. Goal3
    <3> SUFFICES ASSUME NEW u \in Handlers, NEW v \in Handlers PROVE Apart(u, v)'
      OBVIOUS
    <3>1. Apart(u, v)
      BY <1>b
    <3>2. CASE u = w
      BY <1>7, <1>a, <1>b, <3>1, <3>2 DEF Queries, Apart, Querying
    <3>3. CASE u # w /\ v = w
      BY <1>7, <1>a, <1>b, <3>1, <3>3 DEF Queries, Apart, Querying
    <3>4. CASE u # w /\ v # w
      BY <1>7, <3>1, <3>4 DEF Queries, Apart
    <3> QED
      BY <3>2, <3>3, <3>4
  <2> QED
    BY <2>1, <2>2, <2>3
<1>8. ASSUME NEW w \in Handlers, Stores(w) PROVE Goal1 /\ Goal2 /\ Goal3
  <2>0. Known' = Known
    BY <1>8, <1>c DEF Stores, Known, bookingVars
  <2>1. Goal1
    BY <1>8, <1>a, <1>b, <2>0, ConferenceMembershipAssumption DEF Stores, KnownTask, bookingVars, Storing
  <2>2. Goal2
    <3> SUFFICES ASSUME NEW u \in Handlers PROVE KnownTask(u)'
      OBVIOUS
    <3>1. CASE u = w
      BY <1>8, <1>a, <1>b, <2>0, <3>1 DEF Stores, KnownTask, bookingVars, Storing
    <3>2. CASE u # w
      BY <1>8, <1>b, <2>0, <3>2 DEF Stores, KnownTask, bookingVars
    <3> QED
      BY <3>1, <3>2
  <2>3. Goal3
    <3> SUFFICES ASSUME NEW u \in Handlers, NEW v \in Handlers PROVE Apart(u, v)'
      OBVIOUS
    <3>1. Apart(u, v)
      BY <1>b
    <3>2. CASE u = w
      BY <1>8, <1>a, <1>b, <3>1, <3>2 DEF Stores, Apart, Storing
    <3>3. CASE u # w /\ v = w
      BY <1>8, <1>a, <1>b, <3>1, <3>3 DEF Stores, Apart, Storing
    <3>4. CASE u # w /\ v # w
      BY <1>8, <3>1, <3>4 DEF Stores, Apart
    <3> QED
      BY <3>2, <3>3, <3>4
  <2> QED
    BY <2>1, <2>2, <2>3
<1>9. ASSUME NEW w \in Handlers, Writes(w) PROVE Goal1 /\ Goal2 /\ Goal3
  <2>0. Known' = Known
    BY <1>9, <1>c DEF Writes, Known, bookingVars
  <2>1. Goal1
    BY <1>9, <1>a, <1>b, <2>0, ConferenceMembershipAssumption DEF Writes, KnownTask, bookingVars, Writing, Changed
  <2>2. Goal2
    <3> SUFFICES ASSUME NEW u \in Handlers PROVE KnownTask(u)'
      OBVIOUS
    <3>1. CASE u = w
      BY <1>9, <1>a, <1>b, <2>0, <3>1 DEF Writes, KnownTask, bookingVars, Writing, Changed
    <3>2. CASE u # w
      BY <1>9, <1>b, <2>0, <3>2 DEF Writes, KnownTask, bookingVars
    <3> QED
      BY <3>1, <3>2
  <2>3. Goal3
    <3> SUFFICES ASSUME NEW u \in Handlers, NEW v \in Handlers PROVE Apart(u, v)'
      OBVIOUS
    <3>1. Apart(u, v)
      BY <1>b
    <3>2. CASE u = w
      BY <1>9, <1>a, <1>b, <3>1, <3>2 DEF Writes, Apart, Writing, Changed
    <3>3. CASE u # w /\ v = w
      BY <1>9, <1>a, <1>b, <3>1, <3>3 DEF Writes, Apart, Writing, Changed
    <3>4. CASE u # w /\ v # w
      BY <1>9, <3>1, <3>4 DEF Writes, Apart
    <3> QED
      BY <3>2, <3>3, <3>4
  <2> QED
    BY <2>1, <2>2, <2>3
<1>10. ASSUME NEW w \in Handlers, Forgets(w) PROVE Goal1 /\ Goal2 /\ Goal3
  <2>0. Known' = Known
    BY <1>10, <1>c DEF Forgets, Known, bookingVars
  <2>1. Goal1
    BY <1>10, <1>a, <1>b, <2>0, ConferenceMembershipAssumption DEF Forgets, KnownTask, bookingVars
  <2>2. Goal2
    <3> SUFFICES ASSUME NEW u \in Handlers PROVE KnownTask(u)'
      OBVIOUS
    <3>1. CASE u = w
      BY <1>10, <1>a, <1>b, <2>0, <3>1 DEF Forgets, KnownTask, bookingVars
    <3>2. CASE u # w
      BY <1>10, <1>b, <2>0, <3>2 DEF Forgets, KnownTask, bookingVars
    <3> QED
      BY <3>1, <3>2
  <2>3. Goal3
    <3> SUFFICES ASSUME NEW u \in Handlers, NEW v \in Handlers PROVE Apart(u, v)'
      OBVIOUS
    <3>1. Apart(u, v)
      BY <1>b
    <3>2. CASE u = w
      BY <1>10, <1>a, <1>b, <3>1, <3>2 DEF Forgets, Apart
    <3>3. CASE u # w /\ v = w
      BY <1>10, <1>a, <1>b, <3>1, <3>3 DEF Forgets, Apart
    <3>4. CASE u # w /\ v # w
      BY <1>10, <3>1, <3>4 DEF Forgets, Apart
    <3> QED
      BY <3>2, <3>3, <3>4
  <2> QED
    BY <2>1, <2>2, <2>3
<1>11. ASSUME NEW w \in Handlers, Asks(w) PROVE Goal1 /\ Goal2 /\ Goal3
  <2>0. Known' = Known
    BY <1>11, <1>c DEF Asks, Known
  <2>1. Goal1
    BY <1>11, <1>b, <2>0 DEF Asks
  <2>2. Goal2
    <3> SUFFICES ASSUME NEW u \in Handlers PROVE KnownTask(u)'
      OBVIOUS
    <3>0. KnownTask(u) /\ KnownTask(w) /\ Apart(u, w)
      BY <1>b
    <3>1. CASE u = w
      BY <1>11, <1>a, <3>0, <2>0, <3>1 DEF Asks, KnownTask
    <3>2. CASE u # w
      BY <1>11, <3>0, <2>0, <3>2 DEF Asks, KnownTask, Apart
    <3> QED
      BY <3>1, <3>2
  <2>3. Goal3
    <3> SUFFICES ASSUME NEW u \in Handlers, NEW v \in Handlers PROVE Apart(u, v)'
      OBVIOUS
    <3>1. Apart(u, v)
      BY <1>b
    <3> QED
      BY <1>11, <1>a, <3>1 DEF Asks, Apart
  <2> QED
    BY <2>1, <2>2, <2>3
<1>12. ASSUME NEW w \in Handlers, Tells(w) PROVE Goal1 /\ Goal2 /\ Goal3
  <2>0. Known' = Known
    BY <1>12, <1>c DEF Tells, Known, bookingVars
  <2>1. Goal1
    BY <1>12, <1>a, <1>b, <2>0, ConferenceMembershipAssumption DEF Tells, KnownTask, bookingVars
  <2>2. Goal2
    <3> SUFFICES ASSUME NEW u \in Handlers PROVE KnownTask(u)'
      OBVIOUS
    <3>1. CASE u = w
      BY <1>12, <1>a, <1>b, <2>0, <3>1 DEF Tells, KnownTask, bookingVars
    <3>2. CASE u # w
      BY <1>12, <1>b, <2>0, <3>2 DEF Tells, KnownTask, bookingVars
    <3> QED
      BY <3>1, <3>2
  <2>3. Goal3
    <3> SUFFICES ASSUME NEW u \in Handlers, NEW v \in Handlers PROVE Apart(u, v)'
      OBVIOUS
    <3>1. Apart(u, v)
      BY <1>b
    <3>2. CASE u = w
      BY <1>12, <1>a, <1>b, <3>1, <3>2 DEF Tells, Apart
    <3>3. CASE u # w /\ v = w
      BY <1>12, <1>a, <1>b, <3>1, <3>3 DEF Tells, Apart
    <3>4. CASE u # w /\ v # w
      BY <1>12, <3>1, <3>4 DEF Tells, Apart
    <3> QED
      BY <3>2, <3>3, <3>4
  <2> QED
    BY <2>1, <2>2, <2>3
<1> QED
  BY <1>1, <1>2, <1>3, <1>4, <1>5, <1>6, <1>7, <1>8, <1>9, <1>10, <1>11, <1>12
  DEF MembershipMove

-----------------------------------------------------------------------------
(*****************************************************************************)
(* What is to be done yet about the cached conference.                       *)
(*****************************************************************************)
\* An update has yet to ask for x, or has of x what the Video API has.
Updates(w, x) ==
  /\ tasks[w].kind = "participantsUpdated"
  /\ \/ tasks[w].at \in {1, 2}
     \/ tasks[w].at = 3 /\ (x \in tasks[w].copy <=> x \in members)

UpdateIsPosted == \E e \in posted : e.kind = "participantsUpdated"

\* A request is to store what the Video API has of x.
RefreshIsDue(x) == UpdateIsPosted \/ \E w \in Handlers : Updates(w, x)

Adding(w) == tasks[w].kind = "add" /\ tasks[w].at \in {1, 2}
Removing(w) == tasks[w].kind = "remove" /\ tasks[w].at = 3

\* A request is to add x to the cached conference, or to remove x from it.
ChangeIsDue(x) ==
  \E w \in Handlers : x \in tasks[w].about /\ (Adding(w) \/ Removing(w))

\* A request is to take the conference from the cache.
CancelIsDue ==
  \/ \E e \in posted : e.kind = "cancel"
  \/ \E w \in Handlers : tasks[w].kind = "cancel"

\* What is to be stored stays so until it is stored.
LEMMA RefreshStays ==
  ASSUME TasksOK, NEW x, MembershipMove, ~cancelled, RefreshIsDue(x),
         x \in members' <=> x \in members
  PROVE  RefreshIsDue(x)' \/ \E w \in Handlers : Stores(w) /\ (x \in tasks[w].copy <=> x \in members)
<1> USE DEF SameTask, OthersGoOn, OthersBehindCache, OthersBehindApi
<1>a. Idling.kind = "none" /\ ~Idling.filling
  BY DEF Idling
<1>1. CASE UpdateIsPosted
  <2>1. CASE \E w \in Handlers : Takes(w)
    <3>1. PICK w \in Handlers : Takes(w)
      BY <2>1
    <3>2. UpdateIsPosted' \/ Updates(w, x)'
      BY <1>1, <3>1 DEF Takes, UpdateIsPosted, Updates
    <3> QED
      BY <3>2 DEF RefreshIsDue
  <2>2. CASE ~\E w \in Handlers : Takes(w)
    <3>1. UpdateIsPosted'
      BY <1>1, <2>2 DEF MembershipMove, UpdateIsPosted, Books, Expires, Joins, Reads, Fills, Queries, Stores,
        Writes, Forgets, Asks, Tells, bookingVars
    <3> QED
      BY <3>1 DEF RefreshIsDue
  <2> QED
    BY <2>1, <2>2
<1>2. ASSUME NEW v \in Handlers, Updates(v, x)
      PROVE Updates(v, x)' \/ \E w \in Handlers : Stores(w) /\ (x \in tasks[w].copy <=> x \in members)
  <2> USE <1>2 DEF Updates
  <2>0. TaskShape(tasks[v])
    BY DEF TasksOK, TaskOK
  <2>1. CASE Books \/ Expires
    BY <2>1 DEF Books, Expires, bookingVars
  <2>2. ASSUME NEW w \in Handlers, Takes(w) PROVE Updates(v, x)'
    BY <2>2 DEF Takes, Unused
  <2>3. ASSUME NEW w \in Handlers, NEW p \in Persons, Joins(w, p) PROVE Updates(v, x)'
    BY <2>3 DEF Joins, Unused
  <2>4. ASSUME NEW w \in Handlers, Reads(w) PROVE Updates(v, x)'
    BY <2>4 DEF Reads, Unused, ReadBy, Got, Reading
  <2>5. ASSUME NEW w \in Handlers, Fills(w) PROVE Updates(v, x)'
    BY <2>0, <2>5 DEF Fills, Got, TaskShape, bookingVars
  <2>6. ASSUME NEW w \in Handlers, Queries(w) PROVE Updates(v, x)'
    BY <2>6 DEF Queries, Querying, bookingVars
  <2>7. ASSUME NEW w \in Handlers, Stores(w)
        PROVE  Updates(v, x)' \/ (x \in tasks[w].copy <=> x \in members)
    BY <2>7 DEF Stores, Storing, bookingVars
  <2>8. ASSUME NEW w \in Handlers, Writes(w) PROVE Updates(v, x)'
    BY <2>8 DEF Writes, Writing, bookingVars
  <2>9. ASSUME NEW w \in Handlers, Forgets(w) PROVE Updates(v, x)'
    BY <2>9 DEF Forgets, bookingVars
  <2>10. ASSUME NEW w \in Handlers, Asks(w) PROVE Updates(v, x)'
    BY <2>10 DEF Asks
  <2>11. ASSUME NEW w \in Handlers, Tells(w) PROVE Updates(v, x)'
    BY <2>11 DEF Tells, IsToTell, bookingVars
  <2> QED
    BY <2>1, <2>2, <2>3, <2>4, <2>5, <2>6, <2>7, <2>8, <2>9, <2>10, <2>11 DEF MembershipMove
<1> QED
  BY <1>1, <1>2 DEF RefreshIsDue

\* What is to be changed stays so until it is written.
LEMMA ChangeStays ==
  ASSUME TasksOK, NEW x, MembershipMove, ~cancelled, ChangeIsDue(x)
  PROVE  ChangeIsDue(x)' \/ \E w \in Handlers : Writes(w) /\ tasks[w].kind # "event" /\ x \in tasks[w].about
<1> USE DEF SameTask, OthersGoOn, OthersBehindCache, OthersBehindApi
<1>1. PICK v \in Handlers : x \in tasks[v].about /\ (Adding(v) \/ Removing(v))
  BY DEF ChangeIsDue
<1> DEFINE Still == x \in tasks[v]'.about /\ (Adding(v)' \/ Removing(v)')
<1> USE <1>1 DEF Adding, Removing
<1>0. TaskShape(tasks[v])
  BY DEF TasksOK, TaskOK
<1>2. CASE Books \/ Expires
  BY <1>2 DEF Books, Expires, ChangeIsDue
<1>3. ASSUME NEW w \in Handlers, Takes(w) PROVE Still
  BY <1>3 DEF Takes, Unused
<1>4. ASSUME NEW w \in Handlers, NEW p \in Persons, Joins(w, p) PROVE Still
  BY <1>4 DEF Joins, Unused
<1>5. ASSUME NEW w \in Handlers, Reads(w) PROVE Still
  BY <1>5 DEF Reads, Unused, ReadBy, Got, Reading
<1>6. ASSUME NEW w \in Handlers, Fills(w) PROVE Still
  BY <1>0, <1>6 DEF Fills, Got, TaskShape
<1>7. ASSUME NEW w \in Handlers, Queries(w) \/ Stores(w) PROVE Still
  BY <1>7 DEF Queries, Querying, Stores, Storing
<1>8. ASSUME NEW w \in Handlers, Writes(w), w # v PROVE Still
  BY <1>8 DEF Writes
<1>9. ASSUME NEW w \in Handlers, Forgets(w) \/ Asks(w) \/ Tells(w) PROVE Still
  BY <1>9 DEF Forgets, Asks, Tells, IsToTell
<1>10. CASE Still
  BY <1>10 DEF ChangeIsDue
<1>11. CASE Writes(v)
  BY <1>11
<1> QED
  BY <1>2, <1>3, <1>4, <1>5, <1>6, <1>7, <1>8, <1>9, <1>10, <1>11 DEF MembershipMove

\* Only of a cancelled hearing is a cancellation posted.
CancelIsCancelled ==
  /\ \A e \in posted : e.kind = "cancel" => cancelled
  /\ \A w \in Handlers : tasks[w].kind = "cancel" => cancelled

LEMMA CancelIsCancelledStep ==
  ASSUME TasksOK, CancelIsCancelled, MembershipMove PROVE CancelIsCancelled'
<1>a. Idling.kind = "none"
  BY DEF Idling
<1> USE <1>a DEF CancelIsCancelled, SameTask, OthersGoOn, OthersBehindCache, OthersBehindApi
<1>1. CASE Books
  BY <1>1 DEF Books
<1>2. CASE Expires
  BY <1>2 DEF Expires, bookingVars
<1>3. ASSUME NEW w \in Handlers, Takes(w) PROVE CancelIsCancelled'
  BY <1>3 DEF Takes
<1>4. ASSUME NEW w \in Handlers, NEW p \in Persons, Joins(w, p) PROVE CancelIsCancelled'
  BY <1>4 DEF Joins
<1>5. ASSUME NEW w \in Handlers, Reads(w) PROVE CancelIsCancelled'
  BY <1>5 DEF Reads, ReadBy, Got
<1>6. ASSUME NEW w \in Handlers, Fills(w) PROVE CancelIsCancelled'
  BY <1>6 DEF Fills, Got, bookingVars
<1>7. ASSUME NEW w \in Handlers, Queries(w) \/ Stores(w) \/ Writes(w) PROVE CancelIsCancelled'
  BY <1>7 DEF Queries, Stores, Writes, bookingVars
<1>8. ASSUME NEW w \in Handlers, Forgets(w) \/ Asks(w) \/ Tells(w) PROVE CancelIsCancelled'
  BY <1>8 DEF Forgets, Asks, Tells, bookingVars
<1> QED
  BY <1>1, <1>2, <1>3, <1>4, <1>5, <1>6, <1>7, <1>8 DEF MembershipMove

LEMMA CancelledStays ==
  ASSUME MembershipMove, cancelled PROVE cancelled' /\ ~Books
  BY DEF MembershipMove, Books, Expires, Takes, Joins, Reads, Fills, Queries, Stores,
    Writes, Forgets, Asks, Tells, bookingVars

\* Whom a request is about to remove from the cached conference is not in the
\* Video API's, or comes back with an update.
Gone(w) ==
  Removing(w) /\ ~tasks[w].overtaken /\ ~cancelled =>
    \A x \in tasks[w].about : x \notin members \/ RefreshIsDue(x)

RemovedAreGone == \A w \in Handlers : Gone(w)

LEMMA RemovedAreGoneStep ==
  ASSUME TasksOK, MembershipSorts, MembersAreKnown, RemovedAreGone, MembershipMove
  PROVE  RemovedAreGone'
<1> SUFFICES ASSUME NEW v \in Handlers, Removing(v)', ~tasks[v]'.overtaken, ~cancelled',
                    NEW x \in tasks[v]'.about, x \in members'
             PROVE  RefreshIsDue(x)'
  BY DEF RemovedAreGone, Gone
<1>0. ~cancelled
  BY CancelledStays
<1>a. Idling.kind = "none" /\ Idling.about = {}
  BY DEF Idling
<1> USE <1>a DEF SameTask, OthersGoOn, OthersBehindCache, OthersBehindApi, Removing
<1>1. ASSUME NEW w \in Handlers, Stores(w) PROVE FALSE
  BY <1>1 DEF Stores, Storing, OfCache
<1>2. ASSUME NEW w \in Handlers, Asks(w) PROVE RefreshIsDue(x)'
  <2>1. w # v
    BY <1>2 DEF Asks
  <2>2. Removing(v) /\ ~tasks[v].overtaken /\ x \in tasks[v].about /\ x \in members
    BY <1>2, <2>1 DEF Asks
  <2>3. RefreshIsDue(x)
    BY <1>0, <2>2 DEF RemovedAreGone, Gone
  <2> QED
    BY <1>0, <1>1, <2>2, <2>3, RefreshStays
<1>3. ASSUME ~\E w \in Handlers : Asks(w) PROVE RefreshIsDue(x)'
  <2>1. Removing(v) /\ ~tasks[v].overtaken /\ x \in tasks[v].about
    <3>1. CASE Books \/ Expires
      BY <3>1 DEF Books, Expires
    <3>2. ASSUME NEW w \in Handlers, Takes(w) \/ Queries(w) \/ Stores(w) \/ Forgets(w) \/ Tells(w)
          PROVE Removing(v) /\ ~tasks[v].overtaken /\ x \in tasks[v].about
      BY <3>2 DEF Takes, Queries, Querying, Stores, Storing, Forgets, Tells, OfCache
    <3>3. ASSUME NEW w \in Handlers, NEW p \in Persons, Joins(w, p)
          PROVE Removing(v) /\ ~tasks[v].overtaken /\ x \in tasks[v].about
      BY <3>3 DEF Joins
    <3>4. ASSUME NEW w \in Handlers, Reads(w)
          PROVE Removing(v) /\ ~tasks[v].overtaken /\ x \in tasks[v].about
      BY <3>4 DEF Reads, ReadBy, Reading, Got
    <3>5. ASSUME NEW w \in Handlers, Fills(w)
          PROVE Removing(v) /\ ~tasks[v].overtaken /\ x \in tasks[v].about
      <4>1. TaskShape(tasks[w])
        BY DEF TasksOK, TaskOK
      <4> QED
        BY <3>5, <4>1 DEF Fills, Got, TaskShape
    <3>6. ASSUME NEW w \in Handlers, Writes(w)
          PROVE Removing(v) /\ ~tasks[v].overtaken /\ x \in tasks[v].about
      BY <3>6 DEF Writes, Writing
    <3> QED
      BY <1>3, <3>1, <3>2, <3>3, <3>4, <3>5, <3>6 DEF MembershipMove
  <2>2. CASE x \in members
    <3>1. RefreshIsDue(x)
      BY <1>0, <2>1, <2>2 DEF RemovedAreGone, Gone
    <3> QED
      BY <1>0, <1>1, <2>2, <3>1, RefreshStays
  <2>3. CASE x \notin members
    <3>1. CASE Books
      <4>1. UpdateIsPosted'
        BY <2>3, <3>1 DEF Books, UpdateIsPosted
      <4> QED
        BY <4>1 DEF RefreshIsDue
    <3>2. ASSUME NEW w \in Handlers, NEW p \in Persons, Joins(w, p) PROVE FALSE
      <4>1. x \in Known
        BY <2>1 DEF MembersAreKnown, KnownTask
      <4> QED
        BY <2>3, <3>2, <4>1 DEF Joins, Known
    <3> QED
      BY <1>3, <2>3, <3>1, <3>2 DEF MembershipMove, Expires, Takes, Reads, Fills, Queries,
        Stores, Writes, Forgets, Tells, bookingVars
  <2> QED
    BY <2>2, <2>3
<1> QED
  BY <1>2, <1>3

-----------------------------------------------------------------------------
(*****************************************************************************)
(* The cached conference.                                                    *)
(*****************************************************************************)
\* Of x the cache has what the Video API has, or will have.
Explained(x) ==
  (x \in cached <=> x \in members) \/ RefreshIsDue(x) \/ ChangeIsDue(x)

\* Whatever the cached conference has otherwise than the Video API, a request
\* that is under way or posted is to change.
DifferencesAreDue ==
  ~behind /\ cached # Uncached =>
    /\ cancelled => CancelIsDue
    /\ ~cancelled => \A x \in Persons : Explained(x)

\* What CachedAreTheMembers needs.
MembershipInv ==
  /\ MembershipFlags /\ MembershipSorts /\ TasksOK /\ CopiesAreFresh /\ MembersAreKnown
  /\ CancelIsCancelled /\ RemovedAreGone /\ DifferencesAreDue

LEMMA CancelStaysDue ==
  ASSUME MembershipInv, MembershipMove, ~behind', cached' # Uncached, cancelled'
  PROVE  CancelIsDue'
<1>a. Idling.kind = "none" /\ ~Idling.filling
  BY DEF Idling
<1> USE DEF SameTask, OthersGoOn, OthersBehindCache, OthersBehindApi, CancelIsDue
<1>1. CASE Books
  BY <1>1 DEF Books
<1>2. CASE ~Books
  <2>1. cancelled
    BY <1>2 DEF MembershipMove, Expires, Takes, Joins, Reads, Fills, Queries, Stores,
      Writes, Forgets, Asks, Tells, bookingVars
  <2>2. ASSUME NEW w \in Handlers, Fills(w) \/ Stores(w) PROVE FALSE
    <3>1. Fresh(w)
      BY DEF MembershipInv, CopiesAreFresh
    <3>2. OfApi(tasks[w]) /\ ~tasks[w].overtaken
      BY <2>2 DEF Fills, Stores, OfApi
    <3> QED
      BY <2>1, <3>1, <3>2 DEF Fresh
  <2>3. ASSUME NEW w \in Handlers, Writes(w) PROVE cached # Uncached
    <3>1. Fresh(w)
      BY DEF MembershipInv, CopiesAreFresh
    <3>2. OfCache(tasks[w]) /\ ~tasks[w].overtaken
      BY <2>3 DEF Writes, Writing, OfCache
    <3> QED
      BY <3>1, <3>2 DEF Fresh
  <2>4. ~behind /\ cached # Uncached /\ ~Expires
        /\ ~\E w \in Handlers : Fills(w) \/ Stores(w) \/ Forgets(w)
    BY <1>2, <2>2, <2>3 DEF MembershipMove, Expires, Takes, Joins, Reads, Queries,
      Writes, Forgets, Asks, Tells, memberHistory, MembershipInv, MembershipFlags
  <2>5. CancelIsDue
    BY <2>1, <2>4 DEF MembershipInv, DifferencesAreDue
  <2>6. ASSUME NEW w \in Handlers, Takes(w) PROVE CancelIsDue'
    BY <2>5, <2>6 DEF Takes, Unused
  <2>7. ASSUME NEW w \in Handlers, NEW p \in Persons, Joins(w, p) PROVE CancelIsDue'
    BY <2>5, <2>7 DEF Joins, Unused
  <2>8. ASSUME NEW w \in Handlers, Reads(w) PROVE CancelIsDue'
    BY <2>4, <2>5, <2>8 DEF Reads, Unused, ReadBy, Reading, Got
  <2>9. ASSUME NEW w \in Handlers, Queries(w) \/ Writes(w) \/ Asks(w) \/ Tells(w) PROVE CancelIsDue'
    BY <2>5, <2>9 DEF Queries, Querying, Writes, Writing, Asks, Tells, IsToTell, bookingVars
  <2> QED
    BY <1>2, <2>4, <2>6, <2>7, <2>8, <2>9 DEF MembershipMove
<1> QED
  BY <1>1, <1>2

\* One request moves at a time.
LEMMA WritersMove ==
  ASSUME TasksOK, NEW w \in Handlers, NEW v \in Handlers, Writes(w),
         Writes(v) \/ Stores(v)
  PROVE  v = w
<1> SUFFICES ASSUME v # w PROVE FALSE
  OBVIOUS
<1>1. SameTask(v)
  BY DEF Writes, OthersBehindCache
<1>2. Idling.kind = "none"
  BY DEF Idling
<1> QED
  BY <1>1, <1>2 DEF Writes, Stores, Writing, Storing, SameTask

\* A copy that nothing overtook differs from the cached conference by what its
\* request was to change, so what is written needs explaining no more.
LEMMA WhatIsWrittenIsExplained ==
  ASSUME MembershipInv, MembershipMove, NEW w \in Handlers, Writes(w), ~behind', ~cancelled',
         NEW x \in Persons
  PROVE  Explained(x)'
<1>1. ~behind /\ ~tasks[w].overtaken /\ ~cancelled
  BY DEF Writes, bookingVars
<1>2. Fresh(w) /\ Gone(w) /\ KnownTask(w)
  BY DEF MembershipInv, CopiesAreFresh, RemovedAreGone, MembersAreKnown
<1>3. cached # Uncached /\ tasks[w].copy = cached
  BY <1>1, <1>2 DEF Fresh, Writes, Writing, OfCache
<1>4. Explained(x)
  BY <1>1, <1>3 DEF MembershipInv, DifferencesAreDue
<1>5. members' = members /\ cached' = Changed(tasks[w])
  BY DEF Writes, bookingVars
<1>6. RefreshIsDue(x) => RefreshIsDue(x)'
  <2>1. ASSUME NEW v \in Handlers, Stores(v) PROVE FALSE
    <3>1. v = w
      BY <2>1, WritersMove DEF MembershipInv
    <3> QED
      BY <2>1, <3>1 DEF Stores, Storing, Writes, Writing
  <2> QED
    BY <1>1, <1>5, <2>1, RefreshStays DEF MembershipInv
<1>7. CASE tasks[w].kind = "event" \/ x \notin tasks[w].about
  <2>1. x \in cached' <=> x \in cached
    BY <1>3, <1>5, <1>7 DEF Changed
  <2>2. ChangeIsDue(x) => ChangeIsDue(x)'
    BY <1>1, <1>7, ChangeStays, WritersMove DEF MembershipInv
  <2> QED
    BY <1>4, <1>5, <1>6, <2>1, <2>2 DEF Explained
<1>8. CASE tasks[w].kind = "add" /\ x \in tasks[w].about
  <2>1. x \in cached' /\ x \in members
    BY <1>2, <1>3, <1>5, <1>8 DEF Changed, KnownTask
  <2> QED
    BY <1>5, <2>1 DEF Explained
<1>9. CASE tasks[w].kind = "remove" /\ x \in tasks[w].about
  <2>1. x \notin cached'
    BY <1>5, <1>9 DEF Changed
  <2>2. x \notin members \/ RefreshIsDue(x)
    BY <1>1, <1>2, <1>9 DEF Gone, Removing, Writes, Writing
  <2> QED
    BY <1>5, <1>6, <2>1, <2>2 DEF Explained
<1> QED
  BY <1>7, <1>8, <1>9 DEF Writes, Writing

LEMMA DifferencesAreDueStep ==
  ASSUME MembershipInv, MembershipMove PROVE DifferencesAreDue'
<1> SUFFICES ASSUME ~behind', cached' # Uncached, ~cancelled', NEW x \in Persons
             PROVE  Explained(x)'
  BY CancelStaysDue DEF DifferencesAreDue
<1>0. ~cancelled
  BY CancelledStays
<1>1. ASSUME NEW w \in Handlers, Fills(w) \/ Stores(w) PROVE Explained(x)'
  <2>1. Fresh(w)
    BY DEF MembershipInv, CopiesAreFresh
  <2>2. OfApi(tasks[w]) /\ ~tasks[w].overtaken
    BY <1>1 DEF Fills, Stores, OfApi
  <2>3. cached' = members'
    BY <1>1, <2>1, <2>2 DEF Fresh, Fills, Stores, bookingVars
  <2> QED
    BY <2>3 DEF Explained
<1>2. CASE ~\E w \in Handlers : Fills(w) \/ Stores(w) \/ Writes(w)
  <2>1. ~behind /\ cached' = cached /\ cached # Uncached
    BY <1>2 DEF MembershipMove, Books, Expires, Takes, Joins, Reads, Queries, Forgets, Asks,
      Tells, memberHistory, MembershipInv, MembershipFlags
  <2>2. Explained(x)
    BY <1>0, <2>1 DEF MembershipInv, DifferencesAreDue
  <2>3. CASE x \in members' <=> x \in members
    <3>1. RefreshIsDue(x) => RefreshIsDue(x)'
      BY <1>0, <1>2, <2>3, RefreshStays DEF MembershipInv
    <3>2. ChangeIsDue(x) => ChangeIsDue(x)'
      BY <1>0, <1>2, ChangeStays DEF MembershipInv
    <3> QED
      BY <2>1, <2>2, <2>3, <3>1, <3>2 DEF Explained
  <2>4. CASE ~(x \in members' <=> x \in members)
    <3>1. CASE Books
      <4>1. UpdateIsPosted'
        BY <2>4, <3>1 DEF Books, UpdateIsPosted
      <4> QED
        BY <4>1 DEF RefreshIsDue, Explained
    <3>2. ASSUME NEW w \in Handlers, NEW p \in Persons, Joins(w, p) PROVE ChangeIsDue(x)'
      BY <2>4, <3>2 DEF Joins, ChangeIsDue, Adding
    <3>3. ASSUME NEW w \in Handlers, Asks(w) PROVE ChangeIsDue(x)'
      BY <2>4, <3>3 DEF Asks, ChangeIsDue, Removing
    <3> QED
      BY <1>2, <2>4, <3>1, <3>2, <3>3 DEF MembershipMove, Expires, Takes, Reads, Queries,
        Forgets, Tells, bookingVars, Explained
  <2> QED
    BY <2>3, <2>4
<1> QED
  BY <1>1, <1>2, WhatIsWrittenIsExplained

-----------------------------------------------------------------------------
(*****************************************************************************)
(* The lists that people were told.                                          *)
(*****************************************************************************)
\* The request is to tell the people of the conference.
WillTell(w) ==
  \/ tasks[w].kind \in {"participantsUpdated", "add"}
  \/ tasks[w].kind = "remove" /\ tasks[w].at \in {3, 4}

\* The people of the conference are to be told who is in it.
TellIsDue == UpdateIsPosted \/ \E w \in Handlers : WillTell(w)

\* Unless they are to be told, everyone in the hearing has been told who is.
ListsAreDue ==
  ~overlapped /\ ~cancelled /\ ~TellIsDue =>
    \A p \in members : shownLists[p] = members

\* The request is to tell p, or will know that p is removed when it stores what
\* the Video API has.
Farewell(w, p) ==
  \/ /\ tasks[w].kind = "participantsUpdated"
     /\ \/ p \in tasks[w].about \/ tasks[w].at \in {1, 2}
        \/ tasks[w].at = 3 /\ p \notin tasks[w].copy
  \/ tasks[w].kind = "remove" /\ tasks[w].at \in {3, 4} /\ p \in tasks[w].about

\* p, who is not in the conference, is to be told so, or counted as missed out.
FarewellIsDue(p) == UpdateIsPosted \/ \E w \in Handlers : Farewell(w, p)

\* Whoever believes to be in the hearing, and is not, is to be told so.
FarewellsAreDue ==
  ~overlapped /\ ~cancelled =>
    \A p \in Persons :
      p \notin members /\ p \notin missedOut /\ p \in shownLists[p] => FarewellIsDue(p)

LEMMA PostedStays ==
  ASSUME MembershipMove, UpdateIsPosted
  PROVE  UpdateIsPosted' \/ \E w \in Handlers :
           Takes(w) /\ tasks[w]'.kind = "participantsUpdated" /\ tasks[w]'.at = 1
<1>1. CASE \E w \in Handlers : Takes(w)
  BY <1>1 DEF Takes, UpdateIsPosted
<1>2. CASE ~\E w \in Handlers : Takes(w)
  BY <1>2 DEF MembershipMove, UpdateIsPosted, Books, Expires, Joins, Reads, Fills, Queries,
    Stores, Writes, Forgets, Asks, Tells, bookingVars
<1> QED
  BY <1>1, <1>2

LEMMA TellStays ==
  ASSUME TasksOK, MembershipMove, ~cancelled, TellIsDue
  PROVE  TellIsDue' \/ \E w \in Handlers : Tells(w)
<1> USE DEF SameTask, OthersGoOn, OthersBehindCache, OthersBehindApi
<1>1. CASE UpdateIsPosted
  BY <1>1, PostedStays DEF TellIsDue, WillTell
<1>2. ASSUME NEW v \in Handlers, WillTell(v)
      PROVE  WillTell(v)' \/ \E w \in Handlers : Tells(w)
  <2> USE <1>2 DEF WillTell
  <2>0. TaskShape(tasks[v])
    BY DEF TasksOK, TaskOK
  <2>1. CASE Books \/ Expires
    BY <2>1 DEF Books, Expires
  <2>2. ASSUME NEW w \in Handlers, Takes(w) PROVE WillTell(v)'
    BY <2>2 DEF Takes, Unused
  <2>3. ASSUME NEW w \in Handlers, NEW p \in Persons, Joins(w, p) PROVE WillTell(v)'
    BY <2>3 DEF Joins, Unused
  <2>4. ASSUME NEW w \in Handlers, Reads(w) PROVE WillTell(v)'
    BY <2>4 DEF Reads, Unused, ReadBy, Got, Reading
  <2>5. ASSUME NEW w \in Handlers, Fills(w) PROVE WillTell(v)'
    BY <2>0, <2>5 DEF Fills, Got, TaskShape
  <2>6. ASSUME NEW w \in Handlers, Queries(w) \/ Stores(w) PROVE WillTell(v)'
    BY <2>6 DEF Queries, Querying, Stores, Storing
  <2>7. ASSUME NEW w \in Handlers, Writes(w) PROVE WillTell(v)'
    BY <2>7 DEF Writes, Writing
  <2>8. ASSUME NEW w \in Handlers, Forgets(w) \/ Asks(w) PROVE WillTell(v)'
    BY <2>8 DEF Forgets, Asks
  <2> QED
    BY <2>1, <2>2, <2>3, <2>4, <2>5, <2>6, <2>7, <2>8 DEF MembershipMove
<1> QED
  BY <1>1, <1>2 DEF TellIsDue

\* What is told, and not counted as overlapped, is what is cached.
LEMMA ToldIsCached ==
  ASSUME MembershipInv, NEW w \in Handlers, Tells(w), ~overlapped', ~cancelled
  PROVE  /\ ~overlapped /\ tasks[w].copy = cached /\ cached # Uncached
         /\ \A x \in Persons : Explained(x)
<1>1. ~behind /\ ~tasks[w].overtaken /\ ~overlapped
  BY DEF Tells
<1>2. Fresh(w)
  BY DEF MembershipInv, CopiesAreFresh
<1>3. cached # Uncached /\ tasks[w].copy = cached
  BY <1>1, <1>2 DEF Fresh, Tells, IsToTell, OfCache
<1> QED
  BY <1>1, <1>3 DEF MembershipInv, DifferencesAreDue

LEMMA ListsAreDueStep ==
  ASSUME MembershipInv, ListsAreDue, MembershipMove PROVE ListsAreDue'
<1> SUFFICES ASSUME ~overlapped', ~cancelled', ~TellIsDue', NEW p \in members'
             PROVE  shownLists[p]' = members'
  BY DEF ListsAreDue
<1>0. ~cancelled
  BY CancelledStays
<1>1. members' = members
  <2>1. CASE Books
    BY <2>1 DEF Books, TellIsDue, UpdateIsPosted
  <2>2. ASSUME NEW w \in Handlers, NEW q \in Persons, Joins(w, q) PROVE FALSE
    BY <2>2 DEF Joins, TellIsDue, WillTell
  <2>3. ASSUME NEW w \in Handlers, Asks(w) PROVE members' = members
    BY <2>3 DEF Asks, TellIsDue, WillTell
  <2> QED
    BY <2>1, <2>2, <2>3 DEF MembershipMove, Expires, Takes, Reads, Fills, Queries,
        Stores, Writes, Forgets, Tells, bookingVars
<1>2. ASSUME NEW w \in Handlers, Tells(w) PROVE shownLists[p]' = members'
  <2>1. /\ tasks[w].copy = cached /\ cached # Uncached
        /\ \A x \in Persons : Explained(x)
    BY <1>0, <1>2, ToldIsCached
  <2>2. ~UpdateIsPosted
    BY <1>2 DEF Tells, bookingVars, TellIsDue, UpdateIsPosted
  <2>3. ASSUME NEW v \in Handlers, v # w PROVE ~WillTell(v)
    BY <1>2, <2>3 DEF Tells, OthersGoOn, SameTask, TellIsDue, WillTell
  <2>4. ASSUME NEW x PROVE ~RefreshIsDue(x)
    BY <1>2, <2>2, <2>3 DEF RefreshIsDue, Updates, WillTell, Tells, IsToTell
  <2>5. ASSUME NEW x PROVE ~ChangeIsDue(x)
    BY <1>2, <2>3 DEF ChangeIsDue, Adding, Removing, WillTell, Tells, IsToTell
  <2>6. cached = members
    BY <2>1, <2>4, <2>5 DEF Explained, MembershipInv, MembershipSorts
  <2> QED
    BY <1>1, <1>2, <2>1, <2>6 DEF Tells, MembershipInv, MembershipSorts
<1>3. CASE ~\E w \in Handlers : Tells(w)
  <2>1. shownLists' = shownLists /\ ~overlapped
    BY <1>3 DEF MembershipMove, Books, Expires, Takes, Joins, Reads, Fills, Queries,
        Stores, Writes, Forgets, Asks, memberHistory
  <2>2. ~TellIsDue
    BY <1>0, <1>3, TellStays DEF MembershipInv
  <2> QED
    BY <1>0, <1>1, <2>1, <2>2 DEF ListsAreDue
<1> QED
  BY <1>2, <1>3

\* What p is to be told stays so until it is told, or p is dropped.
LEMMA FarewellStays ==
  ASSUME TasksOK, MembershipMove, ~cancelled, NEW p, p \notin members, FarewellIsDue(p)
  PROVE  \/ FarewellIsDue(p)'
         \/ \E w \in Handlers : Tells(w) /\ p \in tasks[w].about
         \/ \E w \in Handlers : Stores(w) /\ p \notin tasks[w].copy /\ p \notin tasks[w].about
<1> USE DEF SameTask, OthersGoOn, OthersBehindCache, OthersBehindApi
<1>1. CASE UpdateIsPosted
  BY <1>1, PostedStays DEF FarewellIsDue, Farewell
<1>2. ASSUME NEW v \in Handlers, Farewell(v, p)
      PROVE  \/ Farewell(v, p)'
             \/ \E w \in Handlers : Tells(w) /\ p \in tasks[w].about
             \/ \E w \in Handlers : Stores(w) /\ p \notin tasks[w].copy /\ p \notin tasks[w].about
  <2> USE <1>2 DEF Farewell
  <2>0. TaskShape(tasks[v])
    BY DEF TasksOK, TaskOK
  <2>1. CASE Books \/ Expires
    BY <2>1 DEF Books, Expires
  <2>2. ASSUME NEW w \in Handlers, Takes(w) PROVE Farewell(v, p)'
    BY <2>2 DEF Takes, Unused
  <2>3. ASSUME NEW w \in Handlers, NEW q \in Persons, Joins(w, q) PROVE Farewell(v, p)'
    BY <2>3 DEF Joins, Unused
  <2>4. ASSUME NEW w \in Handlers, Reads(w) PROVE Farewell(v, p)'
    BY <2>4 DEF Reads, Unused, ReadBy, Got, Reading
  <2>5. ASSUME NEW w \in Handlers, Fills(w) PROVE Farewell(v, p)'
    BY <2>0, <2>5 DEF Fills, Got, TaskShape
  <2>6. ASSUME NEW w \in Handlers, Queries(w) PROVE Farewell(v, p)'
    BY <2>6 DEF Queries, Querying
  <2>7. ASSUME NEW w \in Handlers, Stores(w)
        PROVE  Farewell(v, p)' \/ (p \notin tasks[w].copy /\ p \notin tasks[w].about)
    BY <2>7 DEF Stores, Storing
  <2>8. ASSUME NEW w \in Handlers, Writes(w) PROVE Farewell(v, p)'
    BY <2>8 DEF Writes, Writing
  <2>9. ASSUME NEW w \in Handlers, Forgets(w) \/ Asks(w) PROVE Farewell(v, p)'
    BY <2>9 DEF Forgets, Asks
  <2>10. ASSUME NEW w \in Handlers, Tells(w) PROVE Farewell(v, p)' \/ p \in tasks[w].about
    BY <2>10 DEF Tells, IsToTell
  <2> QED
    BY <2>1, <2>2, <2>3, <2>4, <2>5, <2>6, <2>7, <2>8, <2>9, <2>10 DEF MembershipMove
<1> QED
  BY <1>1, <1>2 DEF FarewellIsDue

LEMMA OneTells ==
  ASSUME NEW w \in Handlers, NEW v \in Handlers, Tells(w),
         Tells(v) \/ (TasksOK /\ Stores(v))
  PROVE  v = w
<1> SUFFICES ASSUME v # w PROVE FALSE
  OBVIOUS
<1>1. SameTask(v)
  BY DEF Tells, OthersGoOn
<1>2. Idling.kind = "none"
  BY DEF Idling
<1> QED
  BY <1>1, <1>2 DEF Tells, IsToTell, Stores, Storing, SameTask

LEMMA FarewellsAreDueStep ==
  ASSUME MembershipInv, FarewellsAreDue, MembershipMove PROVE FarewellsAreDue'
<1> SUFFICES ASSUME ~overlapped', ~cancelled', NEW p \in Persons, p \notin members',
                    p \notin missedOut', p \in shownLists[p]'
             PROVE  FarewellIsDue(p)'
  BY DEF FarewellsAreDue
<1>0. ~cancelled
  BY CancelledStays
<1>1. CASE p \in members
  <2>1. CASE Books
    BY <1>1, <2>1 DEF Books, FarewellIsDue, UpdateIsPosted
  <2>2. ASSUME NEW w \in Handlers, Asks(w) PROVE Farewell(w, p)'
    BY <1>1, <2>2 DEF Asks, Farewell
  <2> QED
    BY <1>1, <2>1, <2>2 DEF FarewellIsDue, MembershipMove, Expires, Takes, Joins, Reads, Fills,
      Queries, Stores, Writes, Forgets, Tells, bookingVars
<1>2. ASSUME p \notin members, NEW w \in Handlers, Tells(w), p \in tasks[w].copy \cup tasks[w].about
      PROVE  FarewellIsDue(p)'
  <2>1. tasks[w].copy = cached /\ Explained(p)
    BY <1>0, <1>2, ToldIsCached
  <2>2. p \in tasks[w].copy
    BY <1>2 DEF Tells
  <2>3. RefreshIsDue(p) \/ ChangeIsDue(p)
    BY <1>2, <2>1, <2>2 DEF Explained
  <2>4. CASE UpdateIsPosted
    BY <1>2, <2>4 DEF Tells, bookingVars, FarewellIsDue, UpdateIsPosted
  <2>5. ASSUME NEW v \in Handlers, Updates(v, p) PROVE Farewell(v, p)'
    BY <1>2, <2>5 DEF Updates, Tells, IsToTell, Farewell, OthersGoOn, SameTask
  <2>6. ASSUME NEW v \in Handlers, p \in tasks[v].about, Adding(v) \/ Removing(v)
        PROVE Farewell(v, p)'
    <3>1. KnownTask(v)
      BY DEF MembershipInv, MembersAreKnown
    <3> QED
      BY <1>2, <2>6, <3>1 DEF KnownTask, Adding, Removing, Tells, IsToTell, Farewell, OthersGoOn, SameTask
  <2> QED
    BY <2>3, <2>4, <2>5, <2>6 DEF RefreshIsDue, ChangeIsDue, FarewellIsDue
<1>3. ASSUME p \notin members, NEW w \in Handlers, Tells(w),
             p \notin tasks[w].copy \cup tasks[w].about
      PROVE  FarewellIsDue(p)'
  <2>1. p \in shownLists[p] /\ p \notin missedOut /\ ~overlapped
    BY <1>3 DEF Tells
  <2>2. FarewellIsDue(p)
    BY <1>0, <1>3, <2>1 DEF FarewellsAreDue
  <2> QED
    <3>1. ASSUME NEW v \in Handlers, Tells(v) PROVE v = w
      BY <1>3, <3>1, OneTells
    <3>2. ASSUME NEW v \in Handlers, Stores(v) PROVE FALSE
      <4>1. v = w
        BY <1>3, <3>2, OneTells DEF MembershipInv
      <4> QED
        BY <1>3, <3>2, <4>1 DEF Tells, IsToTell, Stores, Storing
    <3>3. ~\E v \in Handlers : Tells(v) /\ p \in tasks[v].about
      BY <1>3, <3>1
    <3> QED
      BY <1>0, <1>3, <2>2, <3>2, <3>3, FarewellStays DEF MembershipInv
<1>4. CASE p \notin members /\ ~\E w \in Handlers : Tells(w)
  <2>1. shownLists' = shownLists /\ ~overlapped /\ missedOut \subseteq missedOut'
    BY <1>4 DEF MembershipMove, Books, Expires, Takes, Joins, Reads, Fills, Queries,
        Stores, Writes, Forgets, Asks, memberHistory
  <2>2. FarewellIsDue(p)
    BY <1>0, <1>4, <2>1 DEF FarewellsAreDue
  <2>3. ASSUME NEW w \in Handlers, Stores(w), p \notin tasks[w].copy, p \notin tasks[w].about
        PROVE  FALSE
    BY <2>1, <2>3 DEF Stores, Dropped
  <2> QED
    BY <1>0, <1>4, <2>2, <2>3, FarewellStays DEF MembershipInv
<1> QED
  BY <1>1, <1>2, <1>3, <1>4

-----------------------------------------------------------------------------
(*****************************************************************************)
(* The whole.  ListsAreDue and FarewellsAreDue follow step by step from the  *)
(* rest, which is inductive without them.                                    *)
(*****************************************************************************)
MembershipIInv == MembershipInv /\ ListsAreDue /\ FarewellsAreDue

LEMMA MembershipInvInit == MembershipInit => MembershipIInv
<1> SUFFICES ASSUME MembershipInit PROVE MembershipIInv
  OBVIOUS
<1>1. MembershipFlags
  BY DEF MembershipInit, MembershipFlags
<1>2. MembershipSorts
  BY ConferenceMembershipAssumption DEF MembershipInit, MembershipSorts
<1>3. TasksOK
  BY Idle DEF MembershipInit, TasksOK
<1>4. ASSUME NEW w \in Handlers
      PROVE  /\ tasks[w].kind = "none" /\ ~tasks[w].filling
             /\ tasks[w].copy = {} /\ tasks[w].about = {}
  BY DEF MembershipInit, Idling
<1>5. CopiesAreFresh
  BY <1>4 DEF CopiesAreFresh, Fresh, OfApi, OfCache, Storing
<1>6. MembersAreKnown
  BY <1>4, ConferenceMembershipAssumption
  DEF MembershipInit, MembersAreKnown, Known, KnownTask, Apart
<1>7. CancelIsCancelled /\ RemovedAreGone
  BY <1>4 DEF MembershipInit, CancelIsCancelled, RemovedAreGone, Gone, Removing
<1>8. DifferencesAreDue
  BY DEF MembershipInit, DifferencesAreDue, Explained
<1>9. ListsAreDue /\ FarewellsAreDue
  BY ConferenceMembershipAssumption DEF MembershipInit, ListsAreDue, FarewellsAreDue
<1> QED
  BY <1>1, <1>2, <1>3, <1>5, <1>6, <1>7, <1>8, <1>9 DEF MembershipIInv, MembershipInv

LEMMA MembershipInvStep ==
  ASSUME MembershipIInv, [MembershipNext]_memberVars PROVE MembershipIInv'
<1>1. CASE MembershipNext
  <2>1. MembershipMove
    BY <1>1, MembershipMoves DEF MembershipIInv, MembershipInv
  <2>2. MembershipFlags'
    BY MembershipFlagsStep DEF MembershipIInv, MembershipInv
  <2>3. MembershipSorts' /\ CopiesAreFresh' /\ MembersAreKnown' /\ CancelIsCancelled'
        /\ RemovedAreGone' /\ DifferencesAreDue'
    BY <2>1, MembershipSortsStep, CopiesAreFreshStep, MembersAreKnownStep,
       CancelIsCancelledStep, RemovedAreGoneStep, DifferencesAreDueStep
    DEF MembershipIInv, MembershipInv
  <2>4. TasksOK'
    BY <2>1 DEF MembershipMove, Books, Expires, Takes, Joins, Reads, Fills, Queries,
        Stores, Writes, Forgets, Asks, Tells
  <2>5. ListsAreDue' /\ FarewellsAreDue'
    BY <2>1, ListsAreDueStep, FarewellsAreDueStep DEF MembershipIInv
  <2> QED
    BY <2>2, <2>3, <2>4, <2>5 DEF MembershipIInv, MembershipInv
<1>2. CASE UNCHANGED memberVars
  <2>1. UNCHANGED <<members, joined, cancelled, posted, bookings, cached, tasks, shownLists,
                    behind, overlapped, missedOut>>
    BY <1>2 DEF memberVars, bookingVars, memberHistory
  <2>2. MembershipFlags' /\ MembershipSorts' /\ TasksOK'
    BY <2>1 DEF MembershipIInv, MembershipInv, MembershipFlags, MembershipSorts, TasksOK
  <2>3. CopiesAreFresh' /\ CancelIsCancelled' /\ MembersAreKnown'
    BY <2>1 DEF MembershipIInv, MembershipInv, CopiesAreFresh, Fresh, OfApi, OfCache, Storing,
      CancelIsCancelled, MembersAreKnown, KnownTask, Apart, Known
  <2>4. RemovedAreGone' /\ DifferencesAreDue'
    BY <2>1 DEF MembershipIInv, MembershipInv, RemovedAreGone, Gone, Removing, RefreshIsDue,
      Updates, UpdateIsPosted, DifferencesAreDue, Explained, ChangeIsDue, Adding, CancelIsDue
  <2>5. ListsAreDue' /\ FarewellsAreDue'
    BY <2>1 DEF MembershipIInv, ListsAreDue, TellIsDue, WillTell, UpdateIsPosted,
      FarewellsAreDue, FarewellIsDue, Farewell
  <2> QED
    BY <2>2, <2>3, <2>4, <2>5 DEF MembershipIInv, MembershipInv
<1> QED
  BY <1>1, <1>2

LEMMA MembershipInvImplies ==
  ASSUME MembershipIInv PROVE MembershipTypeOK /\ CachedAreTheMembers /\ MembersAreTold
<1>0. ASSUME NoTask
      PROVE  posted = {} /\ \A w \in Handlers : tasks[w].kind = "none"
  BY <1>0, TheSteps DEF NoTask, Doing, MembershipIInv, MembershipInv, TasksOK
<1>1. MembershipTypeOK
  <2>1. {cancelled, behind, overlapped} \subseteq BOOLEAN
    BY Zenon DEF MembershipIInv, MembershipInv, MembershipFlags
  <2>2. ASSUME NEW w \in Handlers
        PROVE  /\ tasks[w].kind \in DOMAIN Course \cup {"none"}
               /\ tasks[w].copy \subseteq Persons
               /\ tasks[w].about \subseteq Persons
    <3>1. DOMAIN Course = Kinds
      BY DEF Course, Kinds
    <3> QED
      BY <3>1 DEF MembershipIInv, MembershipInv, TasksOK, TaskOK, TaskShape
  <2>3. /\ members \subseteq Persons /\ joined \subseteq Visitors
        /\ cached = Uncached \/ cached \subseteq Persons
        /\ bookings \in 0..MaxBookings
        /\ shownLists \in [Persons -> SUBSET Persons]
        /\ missedOut \subseteq Persons
    BY DEF MembershipIInv, MembershipInv, MembershipSorts
  <2> QED
    BY <2>1, <2>2, <2>3, Zenon DEF MembershipTypeOK
<1>2. CachedAreTheMembers
  <2> SUFFICES ASSUME NoTask, ~behind, cached # Uncached PROVE ~cancelled /\ cached = members
    BY DEF CachedAreTheMembers
  <2>1. ~CancelIsDue /\ \A x : ~RefreshIsDue(x) /\ ~ChangeIsDue(x)
    BY <1>0 DEF CancelIsDue, RefreshIsDue, UpdateIsPosted, Updates, ChangeIsDue, Adding, Removing
  <2>2. ~cancelled /\ \A x \in Persons : x \in cached <=> x \in members
    BY <2>1 DEF MembershipIInv, MembershipInv, DifferencesAreDue, Explained
  <2> QED
    BY <2>2 DEF MembershipIInv, MembershipInv, MembershipSorts
<1>3. MembersAreTold
  <2> SUFFICES ASSUME NoTask, ~cancelled, ~overlapped, NEW p \in Persons
               PROVE  /\ p \in members => shownLists[p] = members
                      /\ p \notin members \cup missedOut => p \notin shownLists[p]
    BY DEF MembersAreTold
  <2>1. ~TellIsDue /\ ~FarewellIsDue(p)
    BY <1>0 DEF TellIsDue, WillTell, FarewellIsDue, Farewell, UpdateIsPosted
  <2> QED
    BY <2>1 DEF MembershipIInv, ListsAreDue, FarewellsAreDue
<1> QED
  BY <1>1, <1>2, <1>3

\* For any people, visitors and bookings, and any number of requests that wait
\* beside each other: when every change has been handled the cached conference
\* has the people the Video API has, and everyone was told who they are, unless
\* an overtaken copy was written or told.
THEOREM MembershipSpecSafe ==
  MembershipSpec => [](MembershipTypeOK /\ CachedAreTheMembers /\ MembersAreTold)
<1>1. MembershipInit => MembershipIInv
  BY MembershipInvInit
<1>2. MembershipIInv /\ [MembershipNext]_memberVars => MembershipIInv'
  BY MembershipInvStep
<1>3. MembershipIInv => MembershipTypeOK /\ CachedAreTheMembers /\ MembersAreTold
  BY MembershipInvImplies
<1> QED
  BY <1>1, <1>2, <1>3, PTL DEF MembershipSpec
=============================================================================
