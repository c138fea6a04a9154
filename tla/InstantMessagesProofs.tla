----------------------- MODULE InstantMessagesProofs -----------------------
(***************************************************************************)
(* For any people, messages and number of components opened: what a window *)
(* or an officer's count shows of a conversation at rest is its history.   *)
(*                                                                         *)
(* A message is in one queue or one history (HandledOnce).  While a        *)
(* history is loaded nothing happens to it (HistoryIsLoaded); from then on *)
(* the messages in the window and on their way there are those stored and  *)
(* those shown but not yet stored (WindowIsLoaded), and the count, after   *)
(* what is on its way, is the one the history will give (CountIsLoaded).   *)
(***************************************************************************)
EXTENDS InstantMessages, SequenceTheorems, FiniteSetTheorems, TLAPS

\* What the variables hold, apart from the flags.
Texts == [of : Parties, by : Users]
Shows == [kind : {"message", "answered"}, id : Nat, of : Parties]
Lines == [id : Nat, live : BOOLEAN]
Requests == [of : Parties, read : BOOLEAN, ids : Seq(Nat)]

ChatFlags == counted \in BOOLEAN /\ disturbed \in BOOLEAN

ChatSorts ==
  /\ sent \in Seq(Texts) /\ Len(sent) <= MaxSent /\ opened \in 0..MaxOpened
  /\ handling \in [Users -> Seq(Nat)] /\ handled \in [Users -> Steps]
  /\ history \in [Parties -> Seq(Nat)]
  /\ viewer \in Users \cup {Nobody} /\ with \in Parties \cup {Nobody}
  /\ component \in {"window", "count"}
  /\ pushed \in Seq(Shows) /\ inWindow \in Seq(Lines)
  /\ unread \in Nat /\ loads \in Seq(Requests)

\* Every id is of a message, where it should be.
MessagesAreKnown ==
  /\ \A i \in DOMAIN sent : sent[i].by \in {Officer, sent[i].of}
  /\ \A u \in Users : \A n \in DOMAIN handling[u] :
       handling[u][n] \in DOMAIN sent /\ sent[handling[u][n]].by = u
  /\ \A p \in Parties : \A n \in DOMAIN history[p] :
       history[p][n] \in DOMAIN sent /\ sent[history[p][n]].of = p
  /\ \A n \in DOMAIN pushed :
       pushed[n].id \in DOMAIN sent /\ pushed[n].of = sent[pushed[n].id].of
  /\ \A n \in DOMAIN inWindow : inWindow[n].id \in DOMAIN sent
  /\ \A n \in DOMAIN loads : \A k \in DOMAIN loads[n].ids :
       loads[n].ids[k] \in DOMAIN sent

\* A message is in one place, and what is done with it is done with the first.
HandledOnce ==
  /\ \A u \in Users :
       /\ handling[u] = <<>> => handled[u] = "received"
       /\ u # Officer => handled[u] # "told"
       /\ \A m, n \in DOMAIN handling[u] : handling[u][m] = handling[u][n] => m = n
  /\ \A p \in Parties : \A m, n \in DOMAIN history[p] :
       history[p][m] = history[p][n] => m = n
  /\ \A u \in Users, p \in Parties :
       \A m \in DOMAIN handling[u], n \in DOMAIN history[p] :
         handling[u][m] # history[p][n]

\* The viewer is shown the messages of the one the component is for.
ViewerIsTold ==
  /\ viewer \in {Officer, with}
  /\ component = "count" => viewer = Officer /\ (loads # <<>> \/ counted)

\* Handles and UnderWay, by position.
Speaks(u, p) == \E n \in DOMAIN handling[u] : sent[handling[u][n]].of = p

NothingUnderWay(p) ==
  /\ \A u \in Users : ~Speaks(u, p)
  /\ \A n \in DOMAIN pushed : pushed[n].of # p

\* Both sides do not have a message under way.
OneSideSpeaks ==
  component = "count" /\ ~disturbed =>
    \A p \in Parties : p = with => ~(Speaks(p, p) /\ Speaks(Officer, p))

\* Nothing happens to a history while it is loaded.
HistoryIsLoaded ==
  loads # <<>> /\ ~disturbed =>
    /\ Len(loads) = 1 /\ loads[1].of = with
    /\ NothingUnderWay(with)
    /\ loads[1].read => loads[1].ids = history[with]

\* A message that is being handled has been shown.
GoesOut(u, i) ==
  handling[u] # <<>> /\ handled[u] # "received" /\ handling[u][1] = i /\ sent[i].of = with

Coming(n) == n \in DOMAIN pushed /\ pushed[n].kind = "message" /\ pushed[n].of = with

InWindow(i) == \E n \in DOMAIN inWindow : inWindow[n].id = i
IsComing(i) == \E n \in DOMAIN pushed : Coming(n) /\ pushed[n].id = i
IsStored(i) == \E n \in DOMAIN history[with] : history[with][n] = i
IsGoing(i) == \E u \in Users : GoesOut(u, i)

\* What is stored or shown by the hub is in the window or on its way there, in one
\* place.
WindowIsLoaded ==
  with \in Parties /\ component = "window" /\ loads = <<>> /\ ~disturbed =>
    /\ \A i \in Nat : InWindow(i) \/ IsComing(i) <=> IsStored(i) \/ IsGoing(i)
    /\ \A m, n \in DOMAIN inWindow : inWindow[m].id = inWindow[n].id => m = n
    /\ \A m, n \in DOMAIN pushed : Coming(m) /\ Coming(n) /\ pushed[m].id = pushed[n].id => m = n
    /\ \A n \in DOMAIN pushed : Coming(n) => ~InWindow(pushed[n].id)

\* What a message does to a count, and what the count is after those of a sequence.
Marks == {"up", "reset", "none"}

Resets(marks) == \E a \in DOMAIN marks : marks[a] = "reset"

Ups(marks) ==
  {n \in DOMAIN marks : marks[n] = "up" /\ \A a \in DOMAIN marks : marks[a] = "reset" => n > a}

Final(k, marks) == (IF Resets(marks) THEN 0 ELSE k) + Cardinality(Ups(marks))

Mark(m) ==
  IF m.kind = "answered" /\ m.of = with THEN "reset"
  ELSE IF m.kind = "message" /\ sent[m.id].by = with THEN "up"
  ELSE "none"

PushedMarks == [n \in DOMAIN pushed |-> Mark(pushed[n])]

\* The count the history will give.
HasShown(u) ==
  handling[u] # <<>> /\ handled[u] = "shown" /\ sent[handling[u][1]].of = with

Expected ==
  IF HasShown(with) THEN UnreadMessages(history[with]) + 1
  ELSE IF HasShown(Officer) THEN 0
  ELSE UnreadMessages(history[with])

CountIsLoaded ==
  with \in Parties /\ component = "count" /\ loads = <<>> /\ ~disturbed =>
    Final(unread, PushedMarks) = Expected

-----------------------------------------------------------------------------
\* A sequence with one more element, and without its first.
LEMMA Longer ==
  ASSUME NEW S, NEW s \in Seq(S), NEW x \in S
  PROVE  /\ Append(s, x) \in Seq(S)
         /\ Len(s) \in Nat /\ Len(Append(s, x)) = Len(s) + 1
         /\ DOMAIN s = 1..Len(s)
         /\ DOMAIN Append(s, x) = 1..(Len(s) + 1)
         /\ \A n \in DOMAIN s : Append(s, x)[n] = s[n]
         /\ Append(s, x)[Len(s) + 1] = x
OBVIOUS

LEMMA Shorter ==
  ASSUME NEW S, NEW s \in Seq(S), s # <<>>
  PROVE  /\ Tail(s) \in Seq(S)
         /\ Len(s) \in Nat \ {0} /\ Len(Tail(s)) = Len(s) - 1
         /\ DOMAIN s = 1..Len(s)
         /\ DOMAIN Tail(s) = 1..(Len(s) - 1)
         /\ \A n \in DOMAIN Tail(s) : Tail(s)[n] = s[n + 1]
         /\ Head(s) = s[1] /\ 1 \in DOMAIN s
OBVIOUS

LEMMA Sizes ==
  ASSUME NEW S, NEW s \in Seq(S)
  PROVE  /\ Len(s) \in Nat /\ DOMAIN s = 1..Len(s)
         /\ s = <<>> <=> Len(s) = 0
         /\ \A n \in DOMAIN s : s[n] \in S
OBVIOUS

\* A sequence is known by its elements.
LEMMA LongerBy ==
  ASSUME NEW S, NEW s \in Seq(S), NEW t \in Seq(S), NEW x \in S,
         Len(t) = Len(s) + 1, \A n \in 1..Len(s) : t[n] = s[n], t[Len(s) + 1] = x
  PROVE  t = Append(s, x)
<1>1. /\ Append(s, x) \in Seq(S) /\ Len(s) \in Nat
      /\ Len(Append(s, x)) = Len(s) + 1 /\ DOMAIN s = 1..Len(s)
      /\ \A n \in DOMAIN s : Append(s, x)[n] = s[n]
      /\ Append(s, x)[Len(s) + 1] = x
  BY Longer
<1>2. \A n \in 1..(Len(s) + 1) : n \in DOMAIN s \/ n = Len(s) + 1
  BY <1>1
<1>3. \A n \in 1..Len(t) : t[n] = Append(s, x)[n]
  BY <1>1, <1>2
<1>4. QED
  BY <1>1, <1>3, SeqEqual

LEMMA ShorterBy ==
  ASSUME NEW S, NEW s \in Seq(S), NEW t \in Seq(S), s # <<>>,
         Len(t) = Len(s) - 1, \A n \in 1..Len(t) : t[n] = s[n + 1]
  PROVE  t = Tail(s)
<1>1. /\ Tail(s) \in Seq(S) /\ Len(s) \in Nat \ {0} /\ Len(Tail(s)) = Len(s) - 1
      /\ DOMAIN Tail(s) = 1..(Len(s) - 1)
      /\ \A n \in DOMAIN Tail(s) : Tail(s)[n] = s[n + 1]
  BY Shorter
<1>2. \A n \in 1..Len(t) : t[n] = Tail(s)[n]
  BY <1>1
<1>3. QED
  BY <1>1, <1>2, SeqEqual

LEMMA IsSeq ==
  ASSUME NEW S, NEW n \in Nat, NEW s \in [1..n -> S] PROVE s \in Seq(S)
OBVIOUS

LEMMA AsLong ==
  ASSUME NEW S, NEW T, NEW s \in Seq(T), NEW f, f = [n \in DOMAIN s |-> f[n]],
         \A n \in DOMAIN s : f[n] \in S
  PROVE  f \in Seq(S) /\ Len(f) = Len(s) /\ DOMAIN f = 1..Len(s)
<1>1. Len(s) \in Nat /\ DOMAIN s = 1..Len(s)
  BY Sizes
<1>2. f \in [1..Len(s) -> S]
  BY <1>1
<1>3. f \in Seq(S)
  BY <1>1, <1>2
<1>4. QED
  BY <1>1, <1>2, <1>3, LenProperties

-----------------------------------------------------------------------------
\* A part of the positions of a sequence is finite.
LEMMA UpsAreFinite ==
  ASSUME NEW marks \in Seq(Marks)
  PROVE  /\ IsFiniteSet(Ups(marks)) /\ Cardinality(Ups(marks)) \in Nat
         /\ Ups(marks) \subseteq 1..Len(marks)
<1>1. Ups(marks) \subseteq 1..Len(marks)
  BY Sizes DEF Ups
<1>2. IsFiniteSet(1..Len(marks))
  BY FS_Interval, Sizes
<1>3. IsFiniteSet(Ups(marks))
  BY <1>1, <1>2, FS_Subset
<1>4. QED
  BY <1>1, <1>3, FS_CardinalityType

\* What one more message does to the count.
LEMMA FinalAppended ==
  ASSUME NEW marks \in Seq(Marks), NEW x \in Marks, NEW k \in Nat
  PROVE  /\ x = "up" => Final(k, Append(marks, x)) = Final(k, marks) + 1
         /\ x = "reset" => Final(k, Append(marks, x)) = 0
         /\ x = "none" => Final(k, Append(marks, x)) = Final(k, marks)
<1> DEFINE more == Append(marks, x)
           last == Len(marks) + 1
<1>1. /\ more \in Seq(Marks) /\ Len(marks) \in Nat
      /\ DOMAIN marks = 1..Len(marks) /\ DOMAIN more = 1..last
      /\ \A n \in DOMAIN marks : more[n] = marks[n]
      /\ more[last] = x
  BY Longer
<1>2. Cardinality(Ups(marks)) \in Nat /\ IsFiniteSet(Ups(marks)) /\ last \notin Ups(marks)
  BY UpsAreFinite, <1>1
<1> HIDE DEF more
<1>3. CASE x = "up"
  <2>1. Resets(more) <=> Resets(marks)
    BY <1>1, <1>3 DEF Resets
  <2>2. Ups(more) = Ups(marks) \cup {last}
    BY <1>1, <1>3 DEF Ups
  <2>3. Cardinality(Ups(more)) = Cardinality(Ups(marks)) + 1
    BY <1>2, <2>2, FS_AddElement
  <2>4. QED
    BY <1>2, <1>3, <2>1, <2>3 DEF Final, more
<1>4. CASE x = "reset"
  <2>1. Resets(more)
    BY <1>1, <1>4 DEF Resets
  <2>2. Ups(more) = {}
    BY <1>1, <1>4 DEF Ups
  <2>3. Cardinality(Ups(more)) = 0
    BY <2>2, FS_EmptySet
  <2>4. QED
    BY <1>4, <2>1, <2>3 DEF Final, more
<1>5. CASE x = "none"
  <2>1. Resets(more) <=> Resets(marks)
    BY <1>1, <1>5 DEF Resets
  <2>2. Ups(more) = Ups(marks)
    BY <1>1, <1>5 DEF Ups
  <2>3. QED
    BY <1>5, <2>1, <2>2 DEF Final, more
<1>6. QED
  BY <1>3, <1>4, <1>5 DEF Marks, more

\* The same, when the first is counted.
LEMMA FinalTaken ==
  ASSUME NEW marks \in Seq(Marks), marks # <<>>, NEW k \in Nat
  PROVE  /\ marks[1] = "up" => Final(k + 1, Tail(marks)) = Final(k, marks)
         /\ marks[1] = "reset" => Final(0, Tail(marks)) = Final(k, marks)
         /\ marks[1] = "none" => Final(k, Tail(marks)) = Final(k, marks)
<1> DEFINE rest == Tail(marks)
<1>1. /\ rest \in Seq(Marks) /\ Len(marks) \in Nat \ {0}
      /\ DOMAIN marks = 1..Len(marks) /\ DOMAIN rest = 1..(Len(marks) - 1)
      /\ \A n \in DOMAIN rest : rest[n] = marks[n + 1]
  BY Shorter
<1> HIDE DEF rest
<1>2. /\ IsFiniteSet(Ups(rest)) /\ Cardinality(Ups(rest)) \in Nat
      /\ IsFiniteSet(Ups(marks)) /\ Cardinality(Ups(marks)) \in Nat
      /\ Ups(rest) \subseteq DOMAIN rest /\ Ups(marks) \subseteq DOMAIN marks
  BY UpsAreFinite, <1>1 DEF Ups
<1>3. \A n \in DOMAIN marks : n = 1 \/ (n - 1 \in DOMAIN rest /\ rest[n - 1] = marks[n])
  BY <1>1
<1>4. \A n \in DOMAIN rest : n \in Nat /\ n + 1 \in DOMAIN marks /\ n + 1 # 1
  BY <1>1
<1>5. \A n \in DOMAIN rest : n \in Ups(rest) <=> n + 1 \in Ups(marks)
  <2> SUFFICES ASSUME NEW n \in DOMAIN rest PROVE n \in Ups(rest) <=> n + 1 \in Ups(marks)
    OBVIOUS
  <2>1. ASSUME n \in Ups(rest), NEW a \in DOMAIN marks, marks[a] = "reset" PROVE n + 1 > a
    BY <1>1, <1>3, <1>4, <2>1 DEF Ups
  <2>2. ASSUME n + 1 \in Ups(marks), NEW a \in DOMAIN rest, rest[a] = "reset" PROVE n > a
    BY <1>1, <1>4, <2>2 DEF Ups
  <2>3. QED
    BY <1>1, <1>4, <2>1, <2>2 DEF Ups
<1>6. Cardinality(Ups(marks) \ {1}) = Cardinality(Ups(rest))
  <2> DEFINE f == [n \in Ups(rest) |-> n + 1]
  <2>1. f \in Bijection(Ups(rest), Ups(marks) \ {1})
    <3>1. \A n \in Ups(rest) : f[n] \in Ups(marks) \ {1}
      BY <1>2, <1>4, <1>5
    <3>2. \A m, n \in Ups(rest) : f[m] = f[n] => m = n
      BY <1>2, <1>4
    <3>3. \A m \in Ups(marks) \ {1} : m - 1 \in Ups(rest) /\ f[m - 1] = m
      BY <1>1, <1>2, <1>3, <1>5
    <3> HIDE DEF f
    <3>4. f \in [Ups(rest) -> Ups(marks) \ {1}]
      BY <3>1 DEF f
    <3>5. QED
      BY <3>2, <3>3, <3>4 DEF Bijection, Injection, Surjection, IsInjective
  <2>2. QED
    BY <1>2, <2>1, FS_Bijection DEF ExistsBijection
<1>7. Resets(marks) <=> marks[1] = "reset" \/ Resets(rest)
  BY <1>1, <1>3, <1>4 DEF Resets
<1>8. 1 \in Ups(marks) <=> marks[1] = "up" /\ ~Resets(rest)
  <2>1. ASSUME 1 \in Ups(marks) PROVE marks[1] = "up" /\ ~Resets(rest)
    BY <1>1, <1>4, <2>1 DEF Ups, Resets
  <2>2. ASSUME marks[1] = "up", ~Resets(rest) PROVE 1 \in Ups(marks)
    BY <1>1, <1>3, <2>2 DEF Ups, Resets
  <2>3. QED
    BY <2>1, <2>2
<1>9. CASE 1 \in Ups(marks)
  <2>1. Cardinality(Ups(marks)) = Cardinality(Ups(rest)) + 1
    <3>1. Cardinality(Ups(marks) \ {1}) = Cardinality(Ups(marks)) - 1
      BY <1>2, <1>9, FS_RemoveElement
    <3>2. QED
      BY <1>2, <1>6, <3>1
  <2>2. QED
    BY <1>2, <1>7, <1>8, <1>9, <2>1 DEF Final, rest
<1>10. CASE 1 \notin Ups(marks)
  <2>1. Cardinality(Ups(marks)) = Cardinality(Ups(rest))
    <3>1. Ups(marks) \ {1} = Ups(marks)
      BY <1>10
    <3>2. QED
      BY <1>6, <3>1
  <2>2. CASE Resets(rest)
    BY <1>2, <1>7, <2>1, <2>2 DEF Final, rest
  <2>3. CASE ~Resets(rest)
    <3>1. marks[1] # "up"
      BY <1>8, <1>10, <2>3
    <3>2. ASSUME marks[1] = "reset" PROVE Final(0, rest) = Final(k, marks)
      BY <1>2, <1>7, <2>1, <2>3, <3>2 DEF Final
    <3>3. ASSUME marks[1] = "none" PROVE Final(k, rest) = Final(k, marks)
      BY <1>2, <1>7, <2>1, <2>3, <3>3 DEF Final
    <3>4. QED
      BY <3>1, <3>2, <3>3 DEF rest
  <2>4. QED
    BY <2>2, <2>3
<1>11. QED
  BY <1>9, <1>10

\* Nothing of the person's leaves the count as it is.
LEMMA FinalUnmarked ==
  ASSUME NEW marks, \A n \in DOMAIN marks : marks[n] = "none", NEW k \in Nat
  PROVE  Final(k, marks) = k
<1>1. Ups(marks) = {} /\ ~Resets(marks)
  BY DEF Ups, Resets
<1>2. QED
  BY <1>1, FS_EmptySet DEF Final

\* What the server counts is what marks of the history would leave.
HistoryMarks(ids) == [n \in DOMAIN ids |-> IF sent[ids[n]].by = Officer THEN "reset" ELSE "up"]

LEMMA UnreadIsFinal ==
  ASSUME NEW ids \in Seq(Nat)
  PROVE  /\ HistoryMarks(ids) \in Seq(Marks)
         /\ UnreadMessages(ids) = Final(0, HistoryMarks(ids))
         /\ UnreadMessages(ids) \in Nat
<1>1. HistoryMarks(ids) \in Seq(Marks)
  BY DEF HistoryMarks, Marks
<1>2. Cardinality(Ups(HistoryMarks(ids))) \in Nat
  BY <1>1, UpsAreFinite
<1>3. Ups(HistoryMarks(ids)) =
        {n \in DOMAIN ids : \A a \in {b \in DOMAIN ids : sent[ids[b]].by = Officer} : n > a}
  <2>1. DOMAIN ids \subseteq Nat
    BY Sizes
  <2>2. QED
    BY <2>1 DEF Ups, HistoryMarks
<1>4. QED
  BY <1>1, <1>2, <1>3 DEF UnreadMessages, Final

\* A message more in a history.
LEMMA UnreadAppended ==
  ASSUME NEW ids \in Seq(Nat), NEW i \in Nat
  PROVE  UnreadMessages(Append(ids, i)) =
           IF sent[i].by = Officer THEN 0 ELSE UnreadMessages(ids) + 1
<1> DEFINE x == IF sent[i].by = Officer THEN "reset" ELSE "up"
<1>1. /\ Append(ids, i) \in Seq(Nat)
      /\ Len(ids) \in Nat /\ DOMAIN ids = 1..Len(ids) /\ Len(Append(ids, i)) = Len(ids) + 1
      /\ DOMAIN Append(ids, i) = 1..(Len(ids) + 1)
      /\ \A n \in DOMAIN ids : Append(ids, i)[n] = ids[n]
      /\ Append(ids, i)[Len(ids) + 1] = i
  BY Longer
<1>2. HistoryMarks(ids) \in Seq(Marks) /\ HistoryMarks(Append(ids, i)) \in Seq(Marks)
      /\ x \in Marks
  BY <1>1, UnreadIsFinal DEF Marks
<1>3. Len(HistoryMarks(ids)) = Len(ids) /\ Len(HistoryMarks(Append(ids, i))) = Len(ids) + 1
  <2>1. DOMAIN HistoryMarks(ids) = 1..Len(ids)
        /\ DOMAIN HistoryMarks(Append(ids, i)) = 1..(Len(ids) + 1)
    BY <1>1 DEF HistoryMarks
  <2>2. QED
    BY <1>1, <1>2, <2>1, LenProperties
<1>4. HistoryMarks(Append(ids, i)) = Append(HistoryMarks(ids), x)
  <2> DEFINE more == HistoryMarks(Append(ids, i))
             less == HistoryMarks(ids)
  <2>1. \A n \in 1..Len(less) : more[n] = less[n]
    BY <1>1, <1>3 DEF HistoryMarks
  <2>2. more[Len(less) + 1] = x
    BY <1>1, <1>3 DEF HistoryMarks
  <2> HIDE DEF more, less, x
  <2>3. less \in Seq(Marks) /\ more \in Seq(Marks) /\ x \in Marks /\ Len(more) = Len(less) + 1
    BY <1>2, <1>3 DEF more, less, x
  <2>4. more = Append(less, x)
    BY <2>1, <2>2, <2>3, LongerBy
  <2>5. QED
    BY <2>4 DEF more, less
<1>5. UnreadMessages(ids) = Final(0, HistoryMarks(ids))
      /\ UnreadMessages(Append(ids, i)) = Final(0, HistoryMarks(Append(ids, i)))
  BY <1>1, UnreadIsFinal
<1>6. /\ x = "up" => Final(0, Append(HistoryMarks(ids), x)) = Final(0, HistoryMarks(ids)) + 1
      /\ x = "reset" => Final(0, Append(HistoryMarks(ids), x)) = 0
  <2> HIDE DEF x
  <2>1. QED
    BY <1>2, FinalAppended
<1>7. QED
  BY <1>4, <1>5, <1>6

-----------------------------------------------------------------------------
\* A message is sent.
LEMMA Sends ==
  ASSUME ChatSorts, NEW p \in Parties, NEW sender \in {p, Officer}, SendInstantMessage(p, sender)
  PROVE  /\ sender \in Users
         /\ sent' \in Seq(Texts) /\ Len(sent') <= MaxSent /\ Len(sent) \in Nat
         /\ DOMAIN sent = 1..Len(sent) /\ DOMAIN sent' = 1..(Len(sent) + 1)
         /\ \A i \in DOMAIN sent : sent'[i] = sent[i]
         /\ sent'[Len(sent) + 1].of = p /\ sent'[Len(sent) + 1].by = sender
         /\ handling' \in [Users -> Seq(Nat)]
         /\ \A u \in Users : u # sender => handling'[u] = handling[u]
         /\ Len(handling[sender]) \in Nat
         /\ DOMAIN handling[sender] = 1..Len(handling[sender])
         /\ DOMAIN handling'[sender] = 1..(Len(handling[sender]) + 1)
         /\ \A n \in DOMAIN handling[sender] : handling'[sender][n] = handling[sender][n]
         /\ handling'[sender][Len(handling[sender]) + 1] = Len(sent) + 1
<1>1. sender \in Users /\ [of |-> p, by |-> sender] \in Texts
  BY DEF Users, Texts
<1>2. /\ sent' = Append(sent, [of |-> p, by |-> sender])
      /\ handling' = [handling EXCEPT ![sender] = Append(@, Len(sent) + 1)]
      /\ Len(sent) < MaxSent /\ sent \in Seq(Texts) /\ handling \in [Users -> Seq(Nat)]
      /\ MaxSent \in Nat
  BY InstantMessagesAssumption DEF SendInstantMessage, ChatSorts
<1>3. /\ Append(sent, [of |-> p, by |-> sender]) \in Seq(Texts)
      /\ Len(sent) \in Nat /\ Len(sent') = Len(sent) + 1
      /\ DOMAIN sent = 1..Len(sent) /\ DOMAIN sent' = 1..(Len(sent) + 1)
      /\ \A i \in DOMAIN sent : sent'[i] = sent[i]
      /\ sent'[Len(sent) + 1] = [of |-> p, by |-> sender]
  BY <1>1, <1>2, Longer
<1>4. handling'[sender] = Append(handling[sender], Len(sent) + 1)
      /\ \A u \in Users : u # sender => handling'[u] = handling[u]
  BY <1>1, <1>2
<1>5. /\ handling'[sender] \in Seq(Nat)
      /\ Len(handling[sender]) \in Nat
      /\ DOMAIN handling[sender] = 1..Len(handling[sender])
      /\ DOMAIN handling'[sender] = 1..(Len(handling[sender]) + 1)
      /\ \A n \in DOMAIN handling[sender] : handling'[sender][n] = handling[sender][n]
      /\ handling'[sender][Len(handling[sender]) + 1] = Len(sent) + 1
  <2>1. handling[sender] \in Seq(Nat) /\ Len(sent) + 1 \in Nat
    BY <1>1, <1>2, <1>3
  <2>2. QED
    BY <1>4, <2>1, Longer
<1>6. handling' \in [Users -> Seq(Nat)]
  BY <1>2, <1>5, <1>4
<1>7. QED
  BY <1>1, <1>2, <1>3, <1>4, <1>5, <1>6

\* The first of the messages of a connection.
LEMMA Firsts ==
  ASSUME ChatSorts, NEW u \in Users, handling[u] # <<>>
  PROVE  /\ Head(handling[u]) = handling[u][1] /\ 1 \in DOMAIN handling[u]
         /\ handling[u][1] \in Nat
BY Shorter, Sizes DEF ChatSorts

\* The viewer is shown something, or is not looking.
Showing(kind, i) ==
  /\ pushed' \in Seq(Shows)
  /\ Len(pushed) \in Nat
  /\ DOMAIN pushed = 1..Len(pushed) /\ DOMAIN pushed' = 1..(Len(pushed) + 1)
  /\ \A n \in DOMAIN pushed : pushed'[n] = pushed[n]
  /\ pushed' = Append(pushed, [kind |-> kind, id |-> i, of |-> sent[i].of])
  /\ pushed'[Len(pushed) + 1] = [kind |-> kind, id |-> i, of |-> sent[i].of]

LEMMA Pushes ==
  ASSUME ChatSorts, NEW kind \in {"message", "answered"}, NEW i \in DOMAIN sent, Push(kind, i)
  PROVE  Showing(kind, i)
<1>1. i \in Nat /\ sent[i] \in Texts
  BY Sizes DEF ChatSorts
<1>2. [kind |-> kind, id |-> i, of |-> sent[i].of] \in Shows
  BY <1>1 DEF Shows, Texts
<1>3. QED
  BY <1>2, Longer DEF Push, ChatSorts, Showing

\* SendMessage takes a step with its first message: the viewer, who is an officer or
\* whom it concerns, is shown it or told that it is an answer.
ShowStep(u, i) ==
  /\ handling[u] # <<>> /\ i = handling[u][1] /\ 1 \in DOMAIN handling[u] /\ i \in Nat
  /\ \/ /\ handled[u] = "received"
        /\ handled' = [handled EXCEPT ![u] = IF u = Officer THEN "told" ELSE "shown"]
        /\ \/ viewer \in {Officer, sent[i].of} /\ Showing("message", i)
           \/ viewer \notin {Officer, sent[i].of} /\ pushed' = pushed
     \/ /\ u = Officer /\ handled[u] = "told"
        /\ handled' = [handled EXCEPT ![u] = "shown"]
        /\ \/ viewer = Officer /\ Showing("answered", i)
           \/ viewer # Officer /\ pushed' = pushed
  /\ UNCHANGED <<sent, handling, history, viewer, component, with, inWindow, unread, counted,
                 loads, disturbed, opened>>

LEMMA ShowsOne ==
  ASSUME ChatSorts, MessagesAreKnown, NEW u \in Users, SendMessage(u)
  PROVE  \E i \in DOMAIN sent : ShowStep(u, i)
<1>1. handling[u] # <<>>
  BY DEF SendMessage, SendToViewer, AdminAnsweredChat, Handling
<1>2. /\ Head(handling[u]) = handling[u][1] /\ 1 \in DOMAIN handling[u]
      /\ handling[u][1] \in Nat
  BY <1>1, Firsts
<1>3. handling[u][1] \in DOMAIN sent
  BY <1>2 DEF MessagesAreKnown
<1>4. UNCHANGED <<sent, handling, history, viewer, component, with, inWindow, unread, counted,
                  loads, disturbed, opened>>
  BY DEF SendMessage, componentVars, contents
<1>5. CASE SendToViewer(u)
  <2>1. handled[u] = "received"
        /\ handled' = [handled EXCEPT ![u] = IF u = Officer THEN "told" ELSE "shown"]
    BY <1>5 DEF SendToViewer, Handling, Handled
  <2>2. \/ viewer \in {Officer, sent[handling[u][1]].of} /\ Push("message", handling[u][1])
        \/ viewer \notin {Officer, sent[handling[u][1]].of} /\ pushed' = pushed
    BY <1>2, <1>5 DEF SendToViewer
  <2>3. Push("message", handling[u][1]) => Showing("message", handling[u][1])
    BY <1>3, Pushes
  <2>4. ShowStep(u, handling[u][1])
    BY <1>1, <1>2, <1>4, <2>1, <2>2, <2>3 DEF ShowStep
  <2>5. QED
    BY <1>3, <2>4
<1>6. CASE u = Officer /\ AdminAnsweredChat
  <2>1. handled[u] = "told" /\ handled' = [handled EXCEPT ![u] = "shown"]
    BY <1>6 DEF AdminAnsweredChat, Handling, Handled
  <2>2. \/ viewer = Officer /\ Push("answered", handling[u][1])
        \/ viewer # Officer /\ pushed' = pushed
    BY <1>2, <1>6 DEF AdminAnsweredChat
  <2>3. Push("answered", handling[u][1]) => Showing("answered", handling[u][1])
    BY <1>3, Pushes
  <2>4. ShowStep(u, handling[u][1])
    BY <1>1, <1>2, <1>4, <1>6, <2>1, <2>2, <2>3 DEF ShowStep
  <2>5. QED
    BY <1>3, <2>4
<1>7. QED
  BY <1>5, <1>6 DEF SendMessage

\* It is stored, or is not.
StoreStep(u, i, p) ==
  /\ handling[u] # <<>> /\ i = handling[u][1] /\ 1 \in DOMAIN handling[u] /\ i \in Nat
  /\ i \in DOMAIN sent /\ p = sent[i].of /\ sent[i].by = u
  /\ handled[u] = "shown" /\ handled' = [handled EXCEPT ![u] = "received"]
  /\ handling' = [handling EXCEPT ![u] = Tail(@)] /\ handling'[u] \in Seq(Nat)
  /\ Len(handling[u]) \in Nat \ {0} /\ DOMAIN handling[u] = 1..Len(handling[u])
  /\ DOMAIN handling'[u] = 1..(Len(handling[u]) - 1)
  /\ \A n \in DOMAIN handling'[u] : handling'[u][n] = handling[u][n + 1]
  /\ \/ /\ history' = [history EXCEPT ![p] = Append(@, i)]
        /\ history'[p] = Append(history[p], i) /\ history'[p] \in Seq(Nat)
        /\ Len(history[p]) \in Nat /\ DOMAIN history[p] = 1..Len(history[p])
        /\ DOMAIN history'[p] = 1..(Len(history[p]) + 1)
        /\ \A n \in DOMAIN history[p] : history'[p][n] = history[p][n]
        /\ history'[p][Len(history[p]) + 1] = i
        /\ UNCHANGED <<disturbed, opened>>
     \/ /\ opened < MaxOpened /\ opened' = opened + 1
        /\ disturbed' = (disturbed \/ with = p)
        /\ history' = history
  /\ UNCHANGED <<sent, viewer, component, with, pushed, inWindow, unread, counted, loads>>

LEMMA AMessageIsStored ==
  ASSUME ChatSorts, MessagesAreKnown, NEW u \in Users, StoreMessage(u)
  PROVE  \E i \in DOMAIN sent, p \in Parties : StoreStep(u, i, p)
<1>1. handling[u] # <<>>
  BY DEF StoreMessage, Handling
<1>2. /\ Head(handling[u]) = handling[u][1] /\ 1 \in DOMAIN handling[u]
      /\ handling[u][1] \in Nat
  BY <1>1, Firsts
<1> DEFINE i == handling[u][1]
           p == sent[i].of
<1>3. i \in DOMAIN sent /\ sent[i].by = u
  BY <1>2 DEF MessagesAreKnown
<1>4. p \in Parties
  <2>1. sent[i] \in Texts
    BY <1>3, Sizes DEF ChatSorts
  <2>2. QED
    BY <2>1 DEF Texts
<1>5. /\ handled[u] = "shown" /\ handled' = [handled EXCEPT ![u] = "received"]
      /\ handling' = [handling EXCEPT ![u] = Tail(@)]
      /\ UNCHANGED <<sent, viewer, component, with, pushed, inWindow, unread, counted, loads>>
  BY DEF StoreMessage, Handling, Handled, contents
<1>6. \/ /\ history' = [history EXCEPT ![p] = Append(@, i)]
         /\ UNCHANGED <<disturbed, opened>>
      \/ /\ opened < MaxOpened /\ opened' = opened + 1
         /\ disturbed' = (disturbed \/ with = p)
         /\ history' = history
  BY <1>2 DEF StoreMessage
<1>7. handling[u] \in Seq(Nat) /\ handling'[u] = Tail(handling[u])
  BY <1>5 DEF ChatSorts
<1>8. /\ handling'[u] \in Seq(Nat)
      /\ Len(handling[u]) \in Nat \ {0} /\ DOMAIN handling[u] = 1..Len(handling[u])
      /\ DOMAIN handling'[u] = 1..(Len(handling[u]) - 1)
      /\ \A n \in DOMAIN handling'[u] : handling'[u][n] = handling[u][n + 1]
  BY <1>1, <1>7, Shorter
<1>9. history' = [history EXCEPT ![p] = Append(@, i)] =>
        /\ history'[p] = Append(history[p], i) /\ history'[p] \in Seq(Nat)
        /\ Len(history[p]) \in Nat /\ DOMAIN history[p] = 1..Len(history[p])
        /\ DOMAIN history'[p] = 1..(Len(history[p]) + 1)
        /\ \A n \in DOMAIN history[p] : history'[p][n] = history[p][n]
        /\ history'[p][Len(history[p]) + 1] = i
  <2>1. history[p] \in Seq(Nat)
    BY <1>4 DEF ChatSorts
  <2>2. ASSUME history' = [history EXCEPT ![p] = Append(@, i)]
        PROVE  history'[p] = Append(history[p], i)
    BY <1>4, <2>2 DEF ChatSorts
  <2> HIDE DEF p, i
  <2>3. i \in Nat
    BY <1>2 DEF i
  <2>4. QED
    BY <2>1, <2>2, <2>3, Longer
<1> HIDE DEF p, i
<1>10. StoreStep(u, i, p)
  <2>1. i = handling[u][1] /\ p = sent[i].of
    BY DEF i, p
  <2>2. QED
    BY <1>1, <1>2, <1>3, <1>5, <1>6, <1>8, <1>9, <2>1 DEF StoreStep
<1>11. QED
  BY <1>3, <1>4, <1>10

\* A component gets the first message, or its hub misses them all.
HandleStep ==
  /\ pushed # <<>> /\ 1 \in DOMAIN pushed /\ pushed[1] \in Shows /\ pushed' \in Seq(Shows)
  /\ Len(pushed) \in Nat \ {0} /\ DOMAIN pushed = 1..Len(pushed)
  /\ DOMAIN pushed' = 1..(Len(pushed) - 1)
  /\ \A n \in DOMAIN pushed' : pushed'[n] = pushed[n + 1]
  /\ pushed' = Tail(pushed)
  /\ \/ component = "window" /\ ShowMessage(pushed[1])
     \/ component = "count" /\ CountMessage(pushed[1])
  /\ UNCHANGED <<sent, handling, handled, history, viewer, component, with, loads, opened,
                 disturbed>>

LEMMA HandlesOne ==
  ASSUME ChatSorts, HandleIncomingMessage PROVE HandleStep
<1>1. pushed # <<>> /\ pushed' = Tail(pushed) /\ pushed \in Seq(Shows)
  BY DEF HandleIncomingMessage, ChatSorts
<1>2. /\ Tail(pushed) \in Seq(Shows)
      /\ Len(pushed) \in Nat \ {0} /\ DOMAIN pushed = 1..Len(pushed)
      /\ DOMAIN Tail(pushed) = 1..(Len(pushed) - 1)
      /\ \A n \in DOMAIN Tail(pushed) : Tail(pushed)[n] = pushed[n + 1]
      /\ Head(pushed) = pushed[1] /\ 1 \in DOMAIN pushed
  BY <1>1, Shorter
<1>3. pushed[1] \in Shows
  BY <1>1, <1>2, Sizes
<1>4. \/ component = "window" /\ ShowMessage(pushed[1])
      \/ component = "count" /\ CountMessage(pushed[1])
  BY <1>2 DEF HandleIncomingMessage
<1>5. UNCHANGED <<sent, handling, handled, history, viewer, component, with, loads, opened,
                  disturbed>>
  BY DEF HandleIncomingMessage, hubSide
<1>6. QED
  BY <1>1, <1>2, <1>3, <1>4, <1>5 DEF HandleStep

\* What the window shows then.
LEMMA WindowShows ==
  ASSUME ChatSorts, MessagesAreKnown, HandleStep
  PROVE  /\ inWindow' \in Seq(Lines)
         /\ \/ inWindow' = inWindow
            \/ /\ component = "window" /\ pushed[1].kind = "message"
               /\ sent[pushed[1].id].of = with
               /\ Len(inWindow) \in Nat /\ DOMAIN inWindow = 1..Len(inWindow)
               /\ DOMAIN inWindow' = 1..(Len(inWindow) + 1)
               /\ \A n \in DOMAIN inWindow : inWindow'[n] = inWindow[n]
               /\ inWindow'[Len(inWindow) + 1].id = pushed[1].id
         /\ component = "window" /\ pushed[1].kind = "message" /\ pushed[1].of = with
              /\ ~InWindow(pushed[1].id) =>
            inWindow' # inWindow
<1> DEFINE m == pushed[1]
           line == [id |-> m.id, live |-> TRUE]
<1>1. m \in Shows /\ m.id \in Nat /\ m.of = sent[m.id].of
  BY DEF HandleStep, Shows, MessagesAreKnown
<1>2. line \in Lines /\ line.id = m.id
  BY <1>1 DEF Lines
<1>3. inWindow \in Seq(Lines)
  BY DEF ChatSorts
<1>4. /\ Append(inWindow, line) \in Seq(Lines)
      /\ Len(inWindow) \in Nat /\ DOMAIN inWindow = 1..Len(inWindow)
      /\ Len(Append(inWindow, line)) = Len(inWindow) + 1
      /\ DOMAIN Append(inWindow, line) = 1..(Len(inWindow) + 1)
      /\ \A n \in DOMAIN inWindow : Append(inWindow, line)[n] = inWindow[n]
      /\ Append(inWindow, line)[Len(inWindow) + 1] = line
  <2> HIDE DEF line
  <2>1. QED
    BY <1>2, <1>3, Longer
<1>5. CASE component = "window" /\ m.kind = "message" /\ IsMessageRecipientForUser(m.id)
  <2>1. inWindow' = Append(inWindow, line)
    BY <1>5 DEF HandleStep, ShowMessage
  <2>2. sent[m.id].of = with
    BY <1>5 DEF IsMessageRecipientForUser
  <2>3. inWindow' # inWindow
    <3> SUFFICES ASSUME inWindow' = inWindow PROVE FALSE
      OBVIOUS
    <3>1. Len(inWindow) = Len(inWindow) + 1 /\ Len(inWindow) \in Nat
      BY <1>4, <2>1, Zenon
    <3>2. QED
      BY <3>1
  <2>4. QED
    BY <1>2, <1>4, <1>5, <2>1, <2>2, <2>3
<1>6. CASE ~(component = "window" /\ m.kind = "message" /\ IsMessageRecipientForUser(m.id))
  <2>1. inWindow' = inWindow
    BY <1>6 DEF HandleStep, ShowMessage, CountMessage
  <2>2. ASSUME component = "window", m.kind = "message", m.of = with, ~InWindow(m.id)
        PROVE  FALSE
    <3>1. line \in Range(inWindow)
      BY <1>1, <1>6, <2>2 DEF IsMessageRecipientForUser
    <3>2. PICK n \in DOMAIN inWindow : inWindow[n] = line
      BY <3>1 DEF Range
    <3>3. QED
      BY <1>2, <2>2, <3>2 DEF InWindow
  <2>3. QED
    BY <1>3, <2>1, <2>2
<1>7. QED
  BY <1>5, <1>6

LEMMA Misses ==
  ASSUME HubMisses
  PROVE  /\ pushed' = <<>> /\ opened < MaxOpened /\ opened' = opened + 1
         /\ disturbed' = (disturbed \/ \E n \in DOMAIN pushed : pushed[n].of = with)
         /\ UNCHANGED <<sent, handling, handled, history, viewer, component, with, inWindow,
                        unread, counted, loads>>
BY DEF HubMisses, Range, hubSide, contents

\* A component is made, and asks.
OpenStep(p) ==
  /\ viewer' \in {Officer, p} /\ component' \in {"window", "count"}
  /\ component' = "count" => viewer' = Officer
  /\ with' = p /\ inWindow' = <<>> /\ unread' = 0 /\ counted' = FALSE
  /\ opened < MaxOpened /\ opened' = opened + 1
  /\ pushed' \in {pushed, <<>>}
  /\ loads' \in Seq(Requests) /\ loads' # <<>>
  /\ \A n \in DOMAIN loads' :
       \/ loads'[n] = [of |-> p, read |-> FALSE, ids |-> <<>>]
       \/ n \in DOMAIN loads /\ loads'[n] = loads[n]
  /\ disturbed' \in BOOLEAN
  /\ ~disturbed' =>
       /\ ~UnderWay(p)
       /\ Len(loads') = 1 /\ loads'[1] = [of |-> p, read |-> FALSE, ids |-> <<>>]
  /\ UNCHANGED <<sent, handling, handled, history>>

LEMMA OpensOne ==
  ASSUME ChatSorts, NEW kind \in {"window", "count"}, NEW p \in Parties,
         NEW others \in {loads, <<>>}, OpenComponent(kind, p, others)
  PROVE  /\ component' = kind /\ with' = p
         /\ inWindow' = <<>> /\ unread' = 0 /\ counted' = FALSE
         /\ opened < MaxOpened /\ opened' = opened + 1
         /\ loads' \in Seq(Requests) /\ loads' # <<>>
         /\ \A n \in DOMAIN loads' :
              \/ loads'[n] = [of |-> p, read |-> FALSE, ids |-> <<>>]
              \/ n \in DOMAIN loads /\ loads'[n] = loads[n]
         /\ disturbed' \in BOOLEAN
         /\ ~disturbed' =>
              /\ ~UnderWay(p)
              /\ Len(loads') = 1 /\ loads'[1] = [of |-> p, read |-> FALSE, ids |-> <<>>]
<1> DEFINE r == [of |-> p, read |-> FALSE, ids |-> <<>>]
<1>1. /\ component' = kind /\ with' = p
      /\ inWindow' = <<>> /\ unread' = 0 /\ counted' = FALSE
      /\ opened < MaxOpened /\ opened' = opened + 1
      /\ loads' = Append(others, r)
      /\ disturbed' = (others # <<>> \/ UnderWay(p))
  BY DEF OpenComponent
<1>2. r \in Requests
  BY EmptySeq DEF Requests
<1>3. others \in Seq(Requests)
  BY EmptySeq DEF ChatSorts
<1> HIDE DEF r
<1>4. /\ Append(others, r) \in Seq(Requests)
      /\ Len(others) \in Nat /\ Len(Append(others, r)) = Len(others) + 1
      /\ DOMAIN others = 1..Len(others)
      /\ DOMAIN Append(others, r) = 1..(Len(others) + 1)
      /\ \A n \in DOMAIN others : Append(others, r)[n] = others[n]
      /\ Append(others, r)[Len(others) + 1] = r
  BY <1>2, <1>3, Longer
<1>5. loads' # <<>> /\ (others = <<>> => Len(loads') = 1 /\ loads'[1] = r)
  BY <1>1, <1>4
<1>6. \A n \in DOMAIN loads' : loads'[n] = r \/ (n \in DOMAIN loads /\ loads'[n] = loads[n])
  <2> SUFFICES ASSUME NEW n \in DOMAIN loads', n # Len(others) + 1
               PROVE  n \in DOMAIN loads /\ loads'[n] = loads[n]
    BY <1>1, <1>4
  <2>1. n \in DOMAIN others /\ loads'[n] = others[n]
    BY <1>1, <1>4
  <2>2. others = loads
    BY <1>4, <2>1
  <2>3. QED
    BY <2>1, <2>2
<1>7. QED
  BY <1>1, <1>4, <1>5, <1>6, Zenon DEF r

LEMMA Opens ==
  ASSUME ChatSorts, NEW p \in Parties, SelectParticipant(p) \/ OpenChat(p) \/ OpenCount(p)
  PROVE  OpenStep(p)
<1>1. CASE SelectParticipant(p)
  BY <1>1, OpensOne DEF SelectParticipant, OpenStep, hubSide
<1>2. CASE OpenChat(p)
  BY <1>2, OpensOne DEF OpenChat, OpenStep, hubSide
<1>3. CASE OpenCount(p)
  BY <1>3, OpensOne DEF OpenCount, OpenStep, hubSide
<1>4. QED
  BY <1>1, <1>2, <1>3

\* A request is read, and answered.
LEMMA AHistoryIsRead ==
  ASSUME ChatSorts, NEW n \in DOMAIN loads, ReadHistory(n)
  PROVE  /\ loads' \in Seq(Requests) /\ Len(loads') = Len(loads) /\ DOMAIN loads' = DOMAIN loads
         /\ loads' # <<>> /\ loads # <<>>
         /\ \A k \in DOMAIN loads : k # n => loads'[k] = loads[k]
         /\ loads[n].of \in Parties
         /\ loads'[n].of = loads[n].of /\ loads'[n].ids = history[loads[n].of]
         /\ UNCHANGED <<sent, handling, handled, history, viewer, pushed, component, with,
                        inWindow, unread, counted, disturbed, opened>>
<1>1. /\ loads \in Seq(Requests) /\ Len(loads) \in Nat /\ DOMAIN loads = 1..Len(loads)
      /\ loads[n] \in Requests /\ n \in 1..Len(loads)
  BY Sizes DEF ChatSorts
<1> DEFINE r == [loads[n] EXCEPT !.read = TRUE, !.ids = history[loads[n].of]]
<1>2. r \in Requests /\ loads[n].of \in Parties
      /\ r.of = loads[n].of /\ r.ids = history[loads[n].of]
  BY <1>1 DEF Requests, ChatSorts
<1>3. loads' = [loads EXCEPT ![n] = r]
  BY DEF ReadHistory
<1> HIDE DEF r
<1>4. /\ loads' \in Seq(Requests) /\ Len(loads') = Len(loads)
      /\ \A k \in 1..Len(loads) : loads'[k] = IF k = n THEN r ELSE loads[k]
  BY <1>1, <1>2, <1>3, ExceptSeq
<1>5. DOMAIN loads' = DOMAIN loads /\ loads' # <<>> /\ loads # <<>>
  BY <1>1, <1>4, Sizes
<1>6. UNCHANGED <<sent, handling, handled, history, viewer, pushed, component, with,
                  inWindow, unread, counted, disturbed, opened>>
  BY DEF ReadHistory, hubSide, contents
<1>7. QED
  BY <1>1, <1>2, <1>4, <1>5, <1>6

LEMMA Removed ==
  ASSUME NEW S, NEW s \in Seq(S), NEW n \in DOMAIN s
  PROVE  /\ RemoveAt(s, n) \in Seq(S)
         /\ \A k \in DOMAIN RemoveAt(s, n) : \E j \in DOMAIN s : RemoveAt(s, n)[k] = s[j]
         /\ RemoveAt(s, n) = <<>> <=> Len(s) = 1
         /\ Len(s) = 1 => n = 1
<1>1. Len(s) \in Nat /\ DOMAIN s = 1..Len(s) /\ \A j \in 1..Len(s) : s[j] \in S
  BY Sizes
<1> DEFINE front == SubSeq(s, 1, n - 1)
           back == SubSeq(s, n + 1, Len(s))
<1>2. front \in Seq(S) /\ Len(front) = n - 1 /\ \A k \in 1..(n - 1) : front[k] = s[k]
  <2>1. \A k \in 1..(n - 1) : s[k] \in S
    BY <1>1
  <2>2. QED
    BY <1>1, <2>1, SubSeqProperties
<1>3. back \in Seq(S) /\ Len(back) = Len(s) - n /\ \A k \in 1..(Len(s) - n) : back[k] = s[n + k]
  <2>1. \A k \in (n + 1)..Len(s) : s[k] \in S
    BY <1>1
  <2>2. back \in Seq(S) /\ Len(back) = (IF n + 1 <= Len(s) THEN Len(s) - (n + 1) + 1 ELSE 0)
        /\ \A k \in 1..(Len(s) - (n + 1) + 1) : back[k] = s[(n + 1) + k - 1]
    BY <1>1, <2>1, SubSeqProperties
  <2> HIDE DEF back
  <2>3. n \in Nat /\ n <= Len(s)
    BY <1>1
  <2>4. Len(back) = Len(s) - n
    BY <1>1, <2>2, <2>3
  <2>5. ASSUME NEW k \in 1..(Len(s) - n) PROVE back[k] = s[n + k]
    <3>1. k \in 1..(Len(s) - (n + 1) + 1) /\ (n + 1) + k - 1 = n + k
      BY <1>1, <2>3
    <3>2. QED
      BY <2>2, <3>1
  <2>6. QED
    BY <2>2, <2>4, <2>5
<1> HIDE DEF front, back
<1>4. /\ front \o back \in Seq(S) /\ Len(front \o back) = Len(s) - 1
      /\ \A k \in 1..(Len(s) - 1) : (front \o back)[k] = IF k <= n - 1 THEN s[k] ELSE s[k + 1]
  <2>1. /\ front \o back \in Seq(S) /\ Len(front \o back) = Len(front) + Len(back)
        /\ \A k \in 1..(Len(front) + Len(back)) :
             (front \o back)[k] = IF k <= Len(front) THEN front[k] ELSE back[k - Len(front)]
    BY <1>2, <1>3, ConcatProperties
  <2>2. n \in Nat /\ n <= Len(s) /\ n >= 1
    BY <1>1
  <2>3. Len(front) + Len(back) = Len(s) - 1
    BY <1>1, <1>2, <1>3, <2>2
  <2>4. ASSUME NEW k \in 1..(Len(s) - 1)
        PROVE  (front \o back)[k] = IF k <= n - 1 THEN s[k] ELSE s[k + 1]
    <3>1. (front \o back)[k] = IF k <= n - 1 THEN front[k] ELSE back[k - (n - 1)]
      BY <1>2, <2>1, <2>3
    <3>2. ASSUME k <= n - 1 PROVE front[k] = s[k]
      BY <1>1, <1>2, <2>2, <3>2
    <3>3. ASSUME ~(k <= n - 1) PROVE back[k - (n - 1)] = s[k + 1]
      <4>1. k - (n - 1) \in 1..(Len(s) - n) /\ n + (k - (n - 1)) = k + 1
        BY <1>1, <2>2, <3>3
      <4>2. QED
        BY <1>3, <4>1
    <3>4. QED
      BY <3>1, <3>2, <3>3
  <2>5. QED
    BY <2>1, <2>3, <2>4
<1>5. RemoveAt(s, n) = front \o back
  BY DEF RemoveAt, front, back
<1>6. DOMAIN (front \o back) = 1..(Len(s) - 1)
  BY <1>4, LenProperties
<1>7. \A k \in DOMAIN (front \o back) : \E j \in DOMAIN s : (front \o back)[k] = s[j]
  <2> SUFFICES ASSUME NEW k \in 1..(Len(s) - 1)
               PROVE  \E j \in DOMAIN s : (front \o back)[k] = s[j]
    BY <1>6
  <2>1. k \in DOMAIN s /\ k + 1 \in DOMAIN s
    BY <1>1
  <2>2. (front \o back)[k] = s[k] \/ (front \o back)[k] = s[k + 1]
    BY <1>4
  <2>3. QED
    BY <2>1, <2>2
<1>8. front \o back = <<>> <=> Len(s) - 1 = 0
  BY <1>4, Sizes
<1>9. QED
  BY <1>1, <1>4, <1>5, <1>7, <1>8

LEMMA Responds ==
  ASSUME ChatSorts, NEW n \in DOMAIN loads, HandleHistoryResponse(n)
  PROVE  /\ loads # <<>> /\ loads[n] \in Requests /\ loads[n].read
         /\ loads' \in Seq(Requests)
         /\ \A k \in DOMAIN loads' : \E j \in DOMAIN loads : loads'[k] = loads[j]
         /\ Len(loads) = 1 => n = 1
         /\ loads' = <<>> <=> Len(loads) = 1
         /\ UNCHANGED <<sent, handling, handled, history, viewer, pushed, component, with,
                        disturbed, opened>>
<1>1. loads \in Seq(Requests) /\ loads[n] \in Requests /\ loads # <<>>
  BY Sizes DEF ChatSorts
<1>2. loads' = RemoveAt(loads, n) /\ loads[n].read
  BY DEF HandleHistoryResponse
<1>3. /\ RemoveAt(loads, n) \in Seq(Requests)
      /\ \A k \in DOMAIN RemoveAt(loads, n) : \E j \in DOMAIN loads :
           RemoveAt(loads, n)[k] = loads[j]
      /\ RemoveAt(loads, n) = <<>> <=> Len(loads) = 1
      /\ Len(loads) = 1 => n = 1
  BY <1>1, Removed
<1>4. UNCHANGED <<sent, handling, handled, history, viewer, pushed, component, with,
                  disturbed, opened>>
  BY DEF HandleHistoryResponse, hubSide
<1>5. QED
  BY <1>1, <1>2, <1>3, <1>4

\* What it shows.
LEMMA AMessageIsShown ==
  ASSUME ChatSorts, NEW n \in DOMAIN loads, HandleHistoryResponse(n)
  PROVE  \/ /\ component = "window" /\ inWindow' \in Seq(Lines)
            /\ DOMAIN inWindow' = DOMAIN loads[n].ids
            /\ \A k \in DOMAIN inWindow' : inWindow'[k].id = loads[n].ids[k]
            /\ unread' = unread /\ counted' = counted
         \/ /\ component = "count" /\ unread' = UnreadMessages(loads[n].ids) /\ counted' = TRUE
            /\ unread' \in Nat /\ inWindow' = inWindow
<1> DEFINE ids == loads[n].ids
<1>1. ids \in Seq(Nat)
  <2>1. loads[n] \in Requests
    BY Sizes DEF ChatSorts
  <2>2. QED
    BY <2>1 DEF Requests
<1>2. \/ /\ component = "window"
         /\ inWindow' = [k \in DOMAIN ids |-> [id |-> ids[k], live |-> FALSE]]
         /\ unread' = unread /\ counted' = counted
      \/ /\ component = "count" /\ unread' = UnreadMessages(ids) /\ counted' = TRUE
         /\ inWindow' = inWindow
  BY DEF HandleHistoryResponse
<1> HIDE DEF ids
<1>3. UnreadMessages(ids) \in Nat
  BY <1>1, UnreadIsFinal
<1>4. \A k \in DOMAIN ids : [id |-> ids[k], live |-> FALSE] \in Lines
  BY <1>1, Sizes DEF Lines
<1>5. [k \in DOMAIN ids |-> [id |-> ids[k], live |-> FALSE]] \in Seq(Lines)
  BY <1>1, <1>4
<1>6. CASE component = "window"
           /\ inWindow' = [k \in DOMAIN ids |-> [id |-> ids[k], live |-> FALSE]]
           /\ unread' = unread /\ counted' = counted
  <2>1. DOMAIN inWindow' = DOMAIN ids /\ \A k \in DOMAIN inWindow' : inWindow'[k].id = ids[k]
    BY <1>6
  <2>2. inWindow' \in Seq(Lines)
    BY <1>5, <1>6, Zenon
  <2>3. QED
    BY <1>6, <2>1, <2>2 DEF ids
<1>7. CASE component = "count" /\ unread' = UnreadMessages(ids) /\ counted' = TRUE
           /\ inWindow' = inWindow
  BY <1>3, <1>7 DEF ids
<1>8. QED
  BY <1>2, <1>6, <1>7

LEMMA SpeaksIs == \A u, p : Speaks(u, p) <=> Handles(u, p)
BY DEF Speaks, Handles, Range

LEMMA NothingUnderWayIs == \A p : NothingUnderWay(p) <=> ~UnderWay(p)
BY SpeaksIs DEF NothingUnderWay, UnderWay, Range

\* What a step does.
ChatMove ==
  \/ UNCHANGED chatVars
  \/ \E p \in Parties : \E sender \in {p, Officer} : SendInstantMessage(p, sender)
  \/ \E u \in Users : \E i \in DOMAIN sent : ShowStep(u, i)
  \/ \E u \in Users : \E i \in DOMAIN sent : \E p \in Parties : StoreStep(u, i, p)
  \/ HandleStep
  \/ HubMisses
  \/ \E p \in Parties : OpenStep(p)
  \/ \E n \in DOMAIN loads : ReadHistory(n)
  \/ \E n \in DOMAIN loads : HandleHistoryResponse(n)

LEMMA ChatMoves ==
  ASSUME ChatSorts, MessagesAreKnown, [ChatNext]_chatVars PROVE ChatMove
<1>1. CASE UNCHANGED chatVars
  BY <1>1 DEF ChatMove
<1>2. ASSUME NEW p \in Parties, SendInstantMessage(p, p) \/ SendInstantMessage(p, Officer)
      PROVE  ChatMove
  BY <1>2 DEF ChatMove
<1>3. ASSUME NEW p \in Parties, SelectParticipant(p) \/ OpenChat(p) \/ OpenCount(p)
      PROVE  ChatMove
  BY <1>3, Opens DEF ChatMove
<1>4. ASSUME NEW u \in Users, SendMessage(u) PROVE ChatMove
  BY <1>4, ShowsOne DEF ChatMove
<1>5. ASSUME NEW u \in Users, StoreMessage(u) PROVE ChatMove
  BY <1>5, AMessageIsStored DEF ChatMove
<1>6. CASE HandleIncomingMessage
  BY <1>6, HandlesOne DEF ChatMove
<1>7. CASE HubMisses
  BY <1>7 DEF ChatMove
<1>8. ASSUME NEW n \in DOMAIN loads, ReadHistory(n) \/ HandleHistoryResponse(n) PROVE ChatMove
  BY <1>8 DEF ChatMove
<1>9. QED
  BY <1>1, <1>2, <1>3, <1>4, <1>5, <1>6, <1>7, <1>8 DEF ChatNext

LEMMA ChatFlagsStep ==
  ASSUME ChatFlags, ChatMove PROVE ChatFlags'
<1> USE DEF ChatFlags
<1>1. CASE UNCHANGED chatVars
  BY <1>1 DEF chatVars, componentVars, contents
<1>2. ASSUME NEW p \in Parties, NEW sender \in {p, Officer}, SendInstantMessage(p, sender)
      PROVE  ChatFlags'
  BY <1>2 DEF SendInstantMessage, contents
<1>3. ASSUME NEW u \in Users, NEW i \in DOMAIN sent, ShowStep(u, i) PROVE ChatFlags'
  BY <1>3 DEF ShowStep
<1>4. ASSUME NEW u \in Users, NEW i \in DOMAIN sent, NEW p \in Parties, StoreStep(u, i, p)
      PROVE  ChatFlags'
  BY <1>4 DEF StoreStep
<1>5. CASE HandleStep
  BY <1>5 DEF HandleStep, ShowMessage, CountMessage
<1>6. CASE HubMisses
  BY <1>6, Misses
<1>7. ASSUME NEW p \in Parties, OpenStep(p) PROVE ChatFlags'
  BY <1>7 DEF OpenStep
<1>8. ASSUME NEW n \in DOMAIN loads, ReadHistory(n) PROVE ChatFlags'
  BY <1>8 DEF ReadHistory, contents
<1>9. ASSUME NEW n \in DOMAIN loads, HandleHistoryResponse(n) PROVE ChatFlags'
  BY <1>9 DEF HandleHistoryResponse
<1>10. QED
  BY <1>1, <1>2, <1>3, <1>4, <1>5, <1>6, <1>7, <1>8, <1>9 DEF ChatMove

LEMMA ChatSortsStep ==
  ASSUME ChatFlags, ChatSorts, MessagesAreKnown, ChatMove PROVE ChatSorts'
<1>1. CASE UNCHANGED chatVars
  BY <1>1 DEF ChatSorts, chatVars, hubSide, componentVars, contents
<1>2. ASSUME NEW p \in Parties, NEW sender \in {p, Officer}, SendInstantMessage(p, sender)
      PROVE  ChatSorts'
  <2>1. sent' \in Seq(Texts) /\ Len(sent') <= MaxSent /\ handling' \in [Users -> Seq(Nat)]
    BY <1>2, Sends
  <2>2. UNCHANGED <<handled, history, viewer, component, with, pushed, inWindow, unread,
                    counted, loads, opened>>
    BY <1>2 DEF SendInstantMessage, contents
  <2>3. QED
    BY <2>1, <2>2 DEF ChatSorts
<1>3. ASSUME NEW u \in Users, NEW i \in DOMAIN sent, ShowStep(u, i) PROVE ChatSorts'
  <2>1. pushed' \in Seq(Shows)
    BY <1>3 DEF ShowStep, Showing, ChatSorts
  <2>2. handled' \in [Users -> Steps]
    BY <1>3 DEF ShowStep, ChatSorts, Steps
  <2>3. UNCHANGED <<sent, handling, history, viewer, component, with, inWindow, unread,
                    loads, opened>>
    BY <1>3 DEF ShowStep
  <2>4. QED
    BY <2>1, <2>2, <2>3 DEF ChatSorts
<1>4. ASSUME NEW u \in Users, NEW i \in DOMAIN sent, NEW p \in Parties, StoreStep(u, i, p)
      PROVE  ChatSorts'
  <2>1. handled' \in [Users -> Steps]
    BY <1>4 DEF StoreStep, ChatSorts, Steps
  <2>2. handling' \in [Users -> Seq(Nat)]
    BY <1>4 DEF StoreStep, ChatSorts
  <2>3. history' \in [Parties -> Seq(Nat)]
    BY <1>4 DEF StoreStep, ChatSorts
  <2>4. opened' \in 0..MaxOpened
    <3>1. opened' = opened \/ (opened < MaxOpened /\ opened' = opened + 1)
      BY <1>4 DEF StoreStep
    <3>2. QED
      BY <3>1, InstantMessagesAssumption DEF ChatSorts
  <2>5. UNCHANGED <<sent, viewer, component, with, pushed, inWindow, unread, counted, loads>>
    BY <1>4 DEF StoreStep
  <2>6. QED
    BY <2>1, <2>2, <2>3, <2>4, <2>5 DEF ChatSorts
<1>5. CASE HandleStep
  <2>1. pushed' \in Seq(Shows) /\ inWindow' \in Seq(Lines)
    BY <1>5, WindowShows DEF HandleStep
  <2>2. unread' \in Nat
    BY <1>5 DEF HandleStep, ShowMessage, CountMessage, UpdateUnreadCounter, ChatSorts
  <2>3. UNCHANGED <<sent, handling, handled, history, viewer, component, with, loads, opened>>
    BY <1>5 DEF HandleStep
  <2>4. QED
    BY <2>1, <2>2, <2>3 DEF ChatSorts
<1>6. CASE HubMisses
  <2>1. pushed' \in Seq(Shows)
    BY <1>6, Misses
  <2>2. opened' \in 0..MaxOpened
    BY <1>6, Misses, InstantMessagesAssumption DEF ChatSorts
  <2>3. UNCHANGED <<sent, handling, handled, history, viewer, component, with, inWindow,
                    unread, loads>>
    BY <1>6, Misses
  <2>4. QED
    BY <2>1, <2>2, <2>3 DEF ChatSorts
<1>7. ASSUME NEW p \in Parties, OpenStep(p) PROVE ChatSorts'
  <2>1. pushed' \in Seq(Shows) /\ inWindow' \in Seq(Lines) /\ loads' \in Seq(Requests)
    <3>1. pushed' \in {pushed, <<>>} /\ inWindow' = <<>> /\ loads' \in Seq(Requests)
      BY <1>7 DEF OpenStep
    <3>2. QED
      BY <3>1, EmptySeq DEF ChatSorts
  <2>2. opened' \in 0..MaxOpened
    BY <1>7, InstantMessagesAssumption DEF OpenStep, ChatSorts
  <2>3. /\ viewer' \in Users \cup {Nobody} /\ with' \in Parties \cup {Nobody}
        /\ component' \in {"window", "count"} /\ unread' \in Nat
    BY <1>7 DEF OpenStep, Users
  <2>4. UNCHANGED <<sent, handling, handled, history>>
    BY <1>7 DEF OpenStep
  <2>5. QED
    BY <2>1, <2>2, <2>3, <2>4 DEF ChatSorts
<1>8. ASSUME NEW n \in DOMAIN loads, ReadHistory(n) PROVE ChatSorts'
  <2>1. /\ loads' \in Seq(Requests)
        /\ UNCHANGED <<sent, handling, handled, history, viewer, pushed, component, with,
                       inWindow, unread, opened>>
    BY <1>8, AHistoryIsRead
  <2>2. QED
    BY <2>1 DEF ChatSorts
<1>9. ASSUME NEW n \in DOMAIN loads, HandleHistoryResponse(n) PROVE ChatSorts'
  <2>1. /\ loads' \in Seq(Requests)
        /\ UNCHANGED <<sent, handling, handled, history, viewer, pushed, component, with,
                       opened>>
    BY <1>9, Responds
  <2>2. inWindow' \in Seq(Lines) /\ unread' \in Nat
    BY <1>9, AMessageIsShown DEF ChatSorts
  <2>3. QED
    BY <2>1, <2>2 DEF ChatSorts
<1>10. QED
  BY <1>1, <1>2, <1>3, <1>4, <1>5, <1>6, <1>7, <1>8, <1>9 DEF ChatMove

LEMMA MessagesAreKnownStep ==
  ASSUME ChatSorts, MessagesAreKnown, ChatMove PROVE MessagesAreKnown'
<1>1. CASE UNCHANGED chatVars
  BY <1>1 DEF MessagesAreKnown, chatVars, hubSide, componentVars, contents
<1>2. ASSUME NEW p \in Parties, NEW sender \in {p, Officer}, SendInstantMessage(p, sender)
      PROVE  MessagesAreKnown'
  <2>1. UNCHANGED <<handled, history, pushed, inWindow, loads>>
    BY <1>2 DEF SendInstantMessage, contents
  <2>2. /\ Len(sent) \in Nat
        /\ DOMAIN sent = 1..Len(sent) /\ DOMAIN sent' = 1..(Len(sent) + 1)
        /\ \A i \in DOMAIN sent : sent'[i] = sent[i]
        /\ sent'[Len(sent) + 1].of = p /\ sent'[Len(sent) + 1].by = sender
        /\ \A u \in Users : u # sender => handling'[u] = handling[u]
        /\ Len(handling[sender]) \in Nat
        /\ DOMAIN handling[sender] = 1..Len(handling[sender])
        /\ DOMAIN handling'[sender] = 1..(Len(handling[sender]) + 1)
        /\ \A n \in DOMAIN handling[sender] : handling'[sender][n] = handling[sender][n]
        /\ handling'[sender][Len(handling[sender]) + 1] = Len(sent) + 1
    BY <1>2, Sends
  <2>3. \A i \in DOMAIN sent : i \in DOMAIN sent'
    BY <2>2
  <2>4. \A i \in DOMAIN sent' : i \in DOMAIN sent \/ i = Len(sent) + 1
    BY <2>2
  <2>5. \A i \in DOMAIN sent' : sent'[i].by \in {Officer, sent'[i].of}
    BY <2>2, <2>4 DEF MessagesAreKnown
  <2>6. ASSUME NEW u \in Users, NEW n \in DOMAIN handling'[u]
        PROVE  handling'[u][n] \in DOMAIN sent' /\ sent'[handling'[u][n]].by = u
    <3>1. CASE u # sender
      BY <2>2, <2>3, <3>1 DEF MessagesAreKnown
    <3>2. CASE u = sender /\ n \in DOMAIN handling[sender]
      BY <2>2, <2>3, <3>2 DEF MessagesAreKnown
    <3>3. CASE u = sender /\ n = Len(handling[sender]) + 1
      BY <2>2, <3>3
    <3>4. QED
      BY <2>2, <3>1, <3>2, <3>3
  <2>7. QED
    BY <2>1, <2>2, <2>3, <2>5, <2>6 DEF MessagesAreKnown
<1>3. ASSUME NEW u \in Users, NEW i \in DOMAIN sent, ShowStep(u, i) PROVE MessagesAreKnown'
  <2>1. UNCHANGED <<sent, handling, history, inWindow, loads>>
    BY <1>3 DEF ShowStep
  <2>2. \A n \in DOMAIN pushed' :
          pushed'[n].id \in DOMAIN sent /\ pushed'[n].of = sent[pushed'[n].id].of
    <3>1. ASSUME NEW kind, Showing(kind, i), NEW n \in DOMAIN pushed'
          PROVE  pushed'[n].id \in DOMAIN sent /\ pushed'[n].of = sent[pushed'[n].id].of
      <4>1. CASE n \in DOMAIN pushed
        BY <3>1, <4>1 DEF Showing, MessagesAreKnown
      <4>2. CASE n = Len(pushed) + 1
        BY <3>1, <4>2 DEF Showing
      <4>3. QED
        BY <3>1, <4>1, <4>2 DEF Showing
    <3>2. CASE pushed' = pushed
      BY <3>2 DEF MessagesAreKnown
    <3>3. QED
      BY <1>3, <3>1, <3>2 DEF ShowStep
  <2>3. QED
    BY <2>1, <2>2 DEF MessagesAreKnown
<1>4. ASSUME NEW u \in Users, NEW i \in DOMAIN sent, NEW p \in Parties, StoreStep(u, i, p)
      PROVE  MessagesAreKnown'
  <2>1. UNCHANGED <<sent, pushed, inWindow, loads>>
    BY <1>4 DEF StoreStep
  <2>2. \A v \in Users : \A n \in DOMAIN handling'[v] :
          \E k \in DOMAIN handling[v] : handling'[v][n] = handling[v][k]
    <3>1. \A v \in Users : v # u => handling'[v] = handling[v]
      BY <1>4 DEF StoreStep, ChatSorts
    <3>2. \A n \in DOMAIN handling'[u] : n + 1 \in DOMAIN handling[u]
                                         /\ handling'[u][n] = handling[u][n + 1]
      <4>1. /\ Len(handling[u]) \in Nat \ {0} /\ DOMAIN handling[u] = 1..Len(handling[u])
            /\ DOMAIN handling'[u] = 1..(Len(handling[u]) - 1)
            /\ \A n \in DOMAIN handling'[u] : handling'[u][n] = handling[u][n + 1]
        BY <1>4 DEF StoreStep
      <4>2. \A n \in 1..(Len(handling[u]) - 1) : n + 1 \in 1..Len(handling[u])
        BY <4>1
      <4>3. QED
        BY <4>1, <4>2
    <3>3. QED
      BY <3>1, <3>2
  <2>3. \A q \in Parties : \A n \in DOMAIN history'[q] :
          \/ n \in DOMAIN history[q] /\ history'[q][n] = history[q][n]
          \/ q = p /\ history'[q][n] = i
    <3>1. CASE history' = history
      BY <3>1
    <3>2. CASE history' # history
      <4>1. \A q \in Parties : q # p => history'[q] = history[q]
        BY <1>4, <3>2 DEF StoreStep, ChatSorts
      <4>2. \A n \in DOMAIN history'[p] :
              \/ n \in DOMAIN history[p] /\ history'[p][n] = history[p][n]
              \/ history'[p][n] = i
        <5>1. /\ Len(history[p]) \in Nat /\ DOMAIN history[p] = 1..Len(history[p])
              /\ DOMAIN history'[p] = 1..(Len(history[p]) + 1)
              /\ \A n \in DOMAIN history[p] : history'[p][n] = history[p][n]
              /\ history'[p][Len(history[p]) + 1] = i
          BY <1>4, <3>2 DEF StoreStep
        <5>2. \A n \in DOMAIN history'[p] : n \in DOMAIN history[p] \/ n = Len(history[p]) + 1
          BY <5>1
        <5>3. QED
          BY <5>1, <5>2
      <4>3. QED
        BY <4>1, <4>2
    <3>3. QED
      BY <3>1, <3>2
  <2>4. i \in DOMAIN sent /\ sent[i].of = p
    BY <1>4 DEF StoreStep
  <2>5. \A v \in Users : \A n \in DOMAIN handling'[v] :
          handling'[v][n] \in DOMAIN sent /\ sent[handling'[v][n]].by = v
    BY <2>2 DEF MessagesAreKnown
  <2>6. \A q \in Parties : \A n \in DOMAIN history'[q] :
          history'[q][n] \in DOMAIN sent /\ sent[history'[q][n]].of = q
    BY <2>3, <2>4 DEF MessagesAreKnown
  <2>7. QED
    BY <2>1, <2>5, <2>6 DEF MessagesAreKnown
<1>5. CASE HandleStep
  <2>1. UNCHANGED <<sent, handling, history, loads>>
    BY <1>5 DEF HandleStep
  <2>2. \A n \in DOMAIN pushed' : n + 1 \in DOMAIN pushed /\ pushed'[n] = pushed[n + 1]
    BY <1>5 DEF HandleStep
  <2>3. \A n \in DOMAIN inWindow' : inWindow'[n].id \in DOMAIN sent
    <3>1. CASE inWindow' = inWindow
      BY <3>1 DEF MessagesAreKnown
    <3>2. CASE inWindow' # inWindow
      <4>1. /\ Len(inWindow) \in Nat /\ DOMAIN inWindow = 1..Len(inWindow)
            /\ DOMAIN inWindow' = 1..(Len(inWindow) + 1)
            /\ \A n \in DOMAIN inWindow : inWindow'[n] = inWindow[n]
            /\ inWindow'[Len(inWindow) + 1].id = pushed[1].id
        BY <1>5, <3>2, WindowShows
      <4>2. pushed[1].id \in DOMAIN sent
        BY <1>5 DEF HandleStep, MessagesAreKnown
      <4>3. \A n \in DOMAIN inWindow' : n \in DOMAIN inWindow \/ n = Len(inWindow) + 1
        BY <4>1
      <4>4. QED
        BY <4>1, <4>2, <4>3 DEF MessagesAreKnown
    <3>3. QED
      BY <3>1, <3>2
  <2>4. QED
    BY <2>1, <2>2, <2>3 DEF MessagesAreKnown
<1>6. CASE HubMisses
  <2>1. pushed' = <<>> /\ UNCHANGED <<sent, handling, history, inWindow, loads>>
    BY <1>6, Misses
  <2>2. QED
    BY <2>1 DEF MessagesAreKnown
<1>7. ASSUME NEW p \in Parties, OpenStep(p) PROVE MessagesAreKnown'
  <2>1. UNCHANGED <<sent, handling, history>> /\ inWindow' = <<>> /\ pushed' \in {pushed, <<>>}
    BY <1>7 DEF OpenStep
  <2>2. \A n \in DOMAIN loads' : \A k \in DOMAIN loads'[n].ids :
          n \in DOMAIN loads /\ loads'[n] = loads[n]
    BY <1>7 DEF OpenStep
  <2>3. QED
    BY <2>1, <2>2 DEF MessagesAreKnown
<1>8. ASSUME NEW n \in DOMAIN loads, ReadHistory(n) PROVE MessagesAreKnown'
  <2>1. /\ DOMAIN loads' = DOMAIN loads
        /\ \A k \in DOMAIN loads : k # n => loads'[k] = loads[k]
        /\ loads[n].of \in Parties /\ loads'[n].ids = history[loads[n].of]
        /\ UNCHANGED <<sent, handling, history, pushed, inWindow>>
    BY <1>8, AHistoryIsRead
  <2>2. QED
    BY <2>1 DEF MessagesAreKnown
<1>9. ASSUME NEW n \in DOMAIN loads, HandleHistoryResponse(n) PROVE MessagesAreKnown'
  <2>1. /\ \A k \in DOMAIN loads' : \E j \in DOMAIN loads : loads'[k] = loads[j]
        /\ UNCHANGED <<sent, handling, history, pushed>>
    BY <1>9, Responds
  <2>2. \/ inWindow' = inWindow
        \/ /\ DOMAIN inWindow' = DOMAIN loads[n].ids
           /\ \A k \in DOMAIN inWindow' : inWindow'[k].id = loads[n].ids[k]
    BY <1>9, AMessageIsShown
  <2>3. \A k \in DOMAIN inWindow' : inWindow'[k].id \in DOMAIN sent
    BY <2>2 DEF MessagesAreKnown
  <2>4. QED
    BY <2>1, <2>3 DEF MessagesAreKnown
<1>10. QED
  BY <1>1, <1>2, <1>3, <1>4, <1>5, <1>6, <1>7, <1>8, <1>9 DEF ChatMove

\* What sending and storing do to the queues, by position.
LEMMA SendsOne ==
  ASSUME ChatSorts, MessagesAreKnown,
         NEW p \in Parties, NEW sender \in {p, Officer}, SendInstantMessage(p, sender)
  PROVE  /\ sender \in Users
         /\ \A i \in DOMAIN sent : i \in DOMAIN sent' /\ sent'[i] = sent[i]
         /\ Len(sent) + 1 \notin DOMAIN sent /\ Len(sent) + 1 \in Nat
         /\ sent'[Len(sent) + 1].of = p /\ sent'[Len(sent) + 1].by = sender
         /\ \A u \in Users : u # sender => handling'[u] = handling[u]
         /\ handling'[sender] # <<>>
         /\ \A n \in DOMAIN handling[sender] :
              n \in DOMAIN handling'[sender] /\ handling'[sender][n] = handling[sender][n]
         /\ \A n \in DOMAIN handling'[sender] \ DOMAIN handling[sender] :
              n = Len(handling[sender]) + 1 /\ handling'[sender][n] = Len(sent) + 1
         /\ UNCHANGED <<handled, history, viewer, component, with, pushed, inWindow, unread,
                        counted, loads>>
<1>1. /\ sender \in Users
      /\ Len(sent) \in Nat
      /\ DOMAIN sent = 1..Len(sent) /\ DOMAIN sent' = 1..(Len(sent) + 1)
      /\ \A i \in DOMAIN sent : sent'[i] = sent[i]
      /\ sent'[Len(sent) + 1].of = p /\ sent'[Len(sent) + 1].by = sender
      /\ \A u \in Users : u # sender => handling'[u] = handling[u]
      /\ Len(handling[sender]) \in Nat
      /\ DOMAIN handling[sender] = 1..Len(handling[sender])
      /\ DOMAIN handling'[sender] = 1..(Len(handling[sender]) + 1)
      /\ \A n \in DOMAIN handling[sender] : handling'[sender][n] = handling[sender][n]
      /\ handling'[sender][Len(handling[sender]) + 1] = Len(sent) + 1
  BY Sends
<1>2. \A i \in DOMAIN sent : i \in DOMAIN sent'
  BY <1>1
<1>3. Len(sent) + 1 \notin DOMAIN sent /\ Len(sent) + 1 \in Nat
  BY <1>1
<1>4. \A n \in DOMAIN handling[sender] : n \in DOMAIN handling'[sender]
  BY <1>1
<1>5. \A n \in DOMAIN handling'[sender] \ DOMAIN handling[sender] : n = Len(handling[sender]) + 1
  BY <1>1
<1>6. handling'[sender] # <<>>
  <2>1. Len(handling[sender]) + 1 \in DOMAIN handling'[sender]
    BY <1>1
  <2>2. QED
    BY <2>1
<1>7. UNCHANGED <<handled, history, viewer, component, with, pushed, inWindow, unread,
                  counted, loads>>
  BY DEF SendInstantMessage, contents
<1>8. QED
  BY <1>1, <1>2, <1>3, <1>4, <1>5, <1>6, <1>7

LEMMA StoresOne ==
  ASSUME ChatSorts, NEW u \in Users, NEW i \in DOMAIN sent, NEW p \in Parties,
         StoreStep(u, i, p)
  PROVE  /\ \A v \in Users : v # u => handling'[v] = handling[v]
         /\ \A n \in DOMAIN handling'[u] :
              /\ n \in Nat /\ n # 0 /\ n + 1 \in DOMAIN handling[u]
              /\ handling'[u][n] = handling[u][n + 1]
         /\ \A q \in Parties : q # p => history'[q] = history[q]
         /\ history' # history =>
              /\ history'[p] = Append(history[p], i)
              /\ \A n \in DOMAIN history[p] :
                   n \in DOMAIN history'[p] /\ history'[p][n] = history[p][n]
              /\ \A n \in DOMAIN history'[p] \ DOMAIN history[p] :
                   n = Len(history[p]) + 1 /\ history'[p][n] = i
              /\ Len(history[p]) + 1 \in DOMAIN history'[p]
              /\ Len(history[p]) + 1 \notin DOMAIN history[p]
              /\ UNCHANGED disturbed
         /\ disturbed => disturbed'
         /\ history' = history /\ with = p => disturbed'
         /\ \A v \in Users : v # u => handled'[v] = handled[v]
         /\ handled'[u] = "received"
<1>1. \A v \in Users : v # u => handling'[v] = handling[v]
  BY DEF StoreStep, ChatSorts
<1>2. ASSUME NEW n \in DOMAIN handling'[u]
      PROVE  /\ n \in Nat /\ n # 0 /\ n + 1 \in DOMAIN handling[u]
             /\ handling'[u][n] = handling[u][n + 1]
  <2>1. /\ Len(handling[u]) \in Nat \ {0} /\ DOMAIN handling[u] = 1..Len(handling[u])
        /\ DOMAIN handling'[u] = 1..(Len(handling[u]) - 1)
        /\ \A k \in DOMAIN handling'[u] : handling'[u][k] = handling[u][k + 1]
    BY DEF StoreStep
  <2>2. n \in 1..(Len(handling[u]) - 1) /\ n \in Nat /\ n # 0 /\ n + 1 \in 1..Len(handling[u])
    BY <2>1
  <2>3. QED
    BY <2>1, <2>2
<1>3. \A q \in Parties : q # p => history'[q] = history[q]
  BY DEF StoreStep, ChatSorts
<1>4. ASSUME history' # history
      PROVE  /\ history'[p] = Append(history[p], i)
             /\ \A n \in DOMAIN history[p] :
                  n \in DOMAIN history'[p] /\ history'[p][n] = history[p][n]
             /\ \A n \in DOMAIN history'[p] \ DOMAIN history[p] :
                  n = Len(history[p]) + 1 /\ history'[p][n] = i
             /\ Len(history[p]) + 1 \in DOMAIN history'[p]
             /\ Len(history[p]) + 1 \notin DOMAIN history[p]
             /\ UNCHANGED disturbed
  <2>1. /\ history'[p] = Append(history[p], i)
        /\ Len(history[p]) \in Nat /\ DOMAIN history[p] = 1..Len(history[p])
        /\ DOMAIN history'[p] = 1..(Len(history[p]) + 1)
        /\ \A n \in DOMAIN history[p] : history'[p][n] = history[p][n]
        /\ history'[p][Len(history[p]) + 1] = i
        /\ UNCHANGED disturbed
    BY <1>4 DEF StoreStep
  <2>2. /\ \A n \in DOMAIN history[p] : n \in DOMAIN history'[p]
        /\ \A n \in DOMAIN history'[p] \ DOMAIN history[p] : n = Len(history[p]) + 1
        /\ Len(history[p]) + 1 \in DOMAIN history'[p]
        /\ Len(history[p]) + 1 \notin DOMAIN history[p]
    BY <2>1
  <2>3. QED
    BY <2>1, <2>2
<1>5. ASSUME history' = history, with = p PROVE disturbed'
  <2>1. history[p] \in Seq(Nat)
    BY DEF ChatSorts
  <2>2. CASE history'[p] = Append(history[p], i)
    <3>1. i \in Nat
      BY DEF StoreStep
    <3>2. Len(history[p]) = Len(history[p]) + 1 /\ Len(history[p]) \in Nat
      <4> DEFINE h == history[p]
      <4>1. Append(h, i) = h
        BY <1>5, <2>2
      <4>2. Len(Append(h, i)) = Len(h) + 1 /\ Len(h) \in Nat
        <5> HIDE DEF h
        <5>1. h \in Seq(Nat)
          BY <2>1 DEF h
        <5>2. QED
          BY <3>1, <5>1, Longer
      <4> HIDE DEF h
      <4>3. Len(h) = Len(h) + 1 /\ Len(h) \in Nat
        BY <4>1, <4>2
      <4>4. QED
        BY <4>3 DEF h
    <3>3. QED
      BY <3>2
  <2>3. CASE history'[p] # Append(history[p], i)
    BY <1>5, <2>3 DEF StoreStep
  <2>4. QED
    BY <2>2, <2>3
<1>6. disturbed => disturbed'
  BY DEF StoreStep
<1>7. handled' = [handled EXCEPT ![u] = "received"] /\ handled \in [Users -> Steps]
  BY DEF StoreStep, ChatSorts
<1>8. QED
  BY <1>1, <1>2, <1>3, <1>4, <1>5, <1>6, <1>7

LEMMA HandledOnceStep ==
  ASSUME ChatSorts, MessagesAreKnown, HandledOnce, ChatMove PROVE HandledOnce'
<1> USE DEF HandledOnce
<1>1. ASSUME UNCHANGED <<handling, handled, history>> PROVE HandledOnce'
  BY <1>1
<1>2. ASSUME NEW p \in Parties, NEW sender \in {p, Officer}, SendInstantMessage(p, sender)
      PROVE  HandledOnce'
  <2>1. /\ sender \in Users
        /\ Len(sent) + 1 \notin DOMAIN sent
        /\ \A u \in Users : u # sender => handling'[u] = handling[u]
        /\ handling'[sender] # <<>>
        /\ \A n \in DOMAIN handling[sender] :
             n \in DOMAIN handling'[sender] /\ handling'[sender][n] = handling[sender][n]
        /\ \A n \in DOMAIN handling'[sender] \ DOMAIN handling[sender] :
             n = Len(handling[sender]) + 1 /\ handling'[sender][n] = Len(sent) + 1
        /\ UNCHANGED <<handled, history>>
    BY <1>2, SendsOne
  <2>2. \A n \in DOMAIN handling'[sender] :
          \/ n \in DOMAIN handling[sender] /\ handling'[sender][n] \in DOMAIN sent
             /\ handling'[sender][n] = handling[sender][n]
          \/ n = Len(handling[sender]) + 1 /\ handling'[sender][n] \notin DOMAIN sent
    BY <2>1 DEF MessagesAreKnown
  <2>3. \A m, n \in DOMAIN handling'[sender] :
          handling'[sender][m] = handling'[sender][n] => m = n
    BY <2>1, <2>2
  <2>4. \A q \in Parties : \A m \in DOMAIN handling'[sender], n \in DOMAIN history[q] :
          handling'[sender][m] # history[q][n]
    BY <2>1, <2>2 DEF MessagesAreKnown
  <2>5. QED
    BY <2>1, <2>3, <2>4
<1>3. ASSUME NEW u \in Users, NEW i \in DOMAIN sent, ShowStep(u, i) PROVE HandledOnce'
  <2>1. /\ handling[u] # <<>> /\ UNCHANGED <<handling, history>>
        /\ \E s \in Steps : handled' = [handled EXCEPT ![u] = s] /\ (u # Officer => s # "told")
    BY <1>3 DEF ShowStep, Steps
  <2>2. PICK s \in Steps : handled' = [handled EXCEPT ![u] = s] /\ (u # Officer => s # "told")
    BY <2>1
  <2>3. handled'[u] = s /\ \A v \in Users : v # u => handled'[v] = handled[v]
    BY <2>2 DEF ChatSorts
  <2>4. QED
    BY <2>1, <2>2, <2>3
<1>4. ASSUME NEW u \in Users, NEW i \in DOMAIN sent, NEW p \in Parties, StoreStep(u, i, p)
      PROVE  HandledOnce'
  <2>1. /\ \A v \in Users : v # u => handling'[v] = handling[v]
        /\ \A n \in DOMAIN handling'[u] :
             /\ n \in Nat /\ n # 0 /\ n + 1 \in DOMAIN handling[u]
             /\ handling'[u][n] = handling[u][n + 1]
        /\ \A q \in Parties : q # p => history'[q] = history[q]
        /\ history' # history =>
             /\ \A n \in DOMAIN history'[p] \ DOMAIN history[p] :
                  n = Len(history[p]) + 1 /\ history'[p][n] = i
             /\ \A n \in DOMAIN history[p] :
                  n \in DOMAIN history'[p] /\ history'[p][n] = history[p][n]
        /\ \A v \in Users : v # u => handled'[v] = handled[v]
        /\ handled'[u] = "received"
    BY <1>4, StoresOne
  <2>2. i = handling[u][1] /\ 1 \in DOMAIN handling[u] /\ p = sent[i].of /\ sent[i].by = u
    BY <1>4 DEF StoreStep
  <2>3. ASSUME NEW n \in DOMAIN handling'[u] PROVE handling'[u][n] # i
    <3>1. n + 1 \in DOMAIN handling[u] /\ n + 1 # 1
      BY <2>1
    <3>2. QED
      BY <2>1, <2>2, <3>1
  <2>4. \A v \in Users : \A n \in DOMAIN handling'[v] : handling'[v][n] # i
    BY <2>1, <2>2, <2>3 DEF MessagesAreKnown
  <2>5. \A v \in Users : \A n \in DOMAIN handling'[v] :
          \E k \in DOMAIN handling[v] : handling'[v][n] = handling[v][k]
    BY <2>1
  <2>6. \A q \in Parties : \A n \in DOMAIN history'[q] :
          \/ n \in DOMAIN history[q] /\ history'[q][n] = history[q][n]
          \/ q = p /\ n = Len(history[p]) + 1 /\ history'[q][n] = i
    BY <2>1
  <2>7. \A v \in Users, q \in Parties :
          \A m \in DOMAIN handling'[v], n \in DOMAIN history'[q] :
            handling'[v][m] # history'[q][n]
    BY <2>4, <2>5, <2>6
  <2>8. \A q \in Parties : \A n \in DOMAIN history[q] : history[q][n] # i
    BY <2>2
  <2>9. \A q \in Parties : \A m, n \in DOMAIN history'[q] :
          history'[q][m] = history'[q][n] => m = n
    BY <2>6, <2>8
  <2>10. ASSUME NEW v \in Users, NEW m \in DOMAIN handling'[v], NEW n \in DOMAIN handling'[v],
                handling'[v][m] = handling'[v][n]
         PROVE  m = n
    <3>1. CASE v # u
      BY <2>1, <2>10, <3>1
    <3>2. CASE v = u
      <4>1. m \in Nat /\ n \in Nat /\ m + 1 = n + 1
        BY <2>1, <2>10, <3>2
      <4>2. QED
        BY <4>1
    <3>3. QED
      BY <3>1, <3>2
  <2>11. \A v \in Users : (handling'[v] = <<>> => handled'[v] = "received")
                          /\ (v # Officer => handled'[v] # "told")
    BY <2>1
  <2>12. QED
    BY <2>7, <2>9, <2>10, <2>11
<1>5. ASSUME NEW p \in Parties, OpenStep(p) PROVE HandledOnce'
  BY <1>1, <1>5 DEF OpenStep
<1>6. ASSUME NEW n \in DOMAIN loads, ReadHistory(n) PROVE HandledOnce'
  BY <1>1, <1>6, AHistoryIsRead
<1>7. ASSUME NEW n \in DOMAIN loads, HandleHistoryResponse(n) PROVE HandledOnce'
  BY <1>1, <1>7, Responds
<1>8. HandleStep \/ HubMisses \/ UNCHANGED chatVars => UNCHANGED <<handling, handled, history>>
  BY Misses DEF HandleStep, chatVars, hubSide
<1>9. QED
  BY <1>1, <1>2, <1>3, <1>4, <1>5, <1>6, <1>7, <1>8 DEF ChatMove

LEMMA ViewerIsToldStep ==
  ASSUME ChatSorts, MessagesAreKnown, ViewerIsTold, ChatMove PROVE ViewerIsTold'
<1> USE DEF ViewerIsTold
<1>1. ASSUME UNCHANGED <<viewer, with, component, loads, counted>> PROVE ViewerIsTold'
  BY <1>1
<1>2. ASSUME NEW p \in Parties, NEW sender \in {p, Officer}, SendInstantMessage(p, sender)
      PROVE  ViewerIsTold'
  BY <1>1, <1>2, SendsOne
<1>3. ASSUME NEW u \in Users, NEW i \in DOMAIN sent, ShowStep(u, i) PROVE ViewerIsTold'
  BY <1>1, <1>3 DEF ShowStep
<1>4. ASSUME NEW u \in Users, NEW i \in DOMAIN sent, NEW p \in Parties, StoreStep(u, i, p)
      PROVE  ViewerIsTold'
  BY <1>1, <1>4 DEF StoreStep
<1>5. HandleStep \/ HubMisses \/ UNCHANGED chatVars =>
        UNCHANGED <<viewer, with, component, loads, counted>>
  BY Misses DEF HandleStep, ShowMessage, CountMessage, chatVars, componentVars, contents
<1>6. ASSUME NEW p \in Parties, OpenStep(p) PROVE ViewerIsTold'
  BY <1>6 DEF OpenStep
<1>7. ASSUME NEW n \in DOMAIN loads, ReadHistory(n) PROVE ViewerIsTold'
  <2>1. UNCHANGED <<viewer, with, component, counted>> /\ loads' # <<>>
    BY <1>7, AHistoryIsRead
  <2>2. QED
    BY <2>1
<1>8. ASSUME NEW n \in DOMAIN loads, HandleHistoryResponse(n) PROVE ViewerIsTold'
  <2>1. UNCHANGED <<viewer, with, component>>
    BY <1>8, Responds
  <2>2. component = "count" => counted'
    BY <1>8, AMessageIsShown
  <2>3. QED
    BY <2>1, <2>2
<1>9. QED
  BY <1>1, <1>2, <1>3, <1>4, <1>5, <1>6, <1>7, <1>8 DEF ChatMove

LEMMA OneSideSpeaksStep ==
  ASSUME ChatFlags, ChatSorts, MessagesAreKnown, OneSideSpeaks, ChatMove PROVE OneSideSpeaks'
<1> USE DEF OneSideSpeaks
<1>1. ASSUME UNCHANGED <<with, component, handling, sent>>, disturbed => disturbed'
      PROVE  OneSideSpeaks'
  BY <1>1 DEF Speaks
<1>2. ASSUME NEW p \in Parties, NEW sender \in {p, Officer}, SendInstantMessage(p, sender)
      PROVE  OneSideSpeaks'
  <2> SUFFICES ASSUME NEW w \in Parties, w = with, component = "count", ~disturbed',
                      Speaks(w, w)', Speaks(Officer, w)'
               PROVE  FALSE
    BY <1>2, SendsOne
  <2>1. /\ sender \in Users
        /\ \A i \in DOMAIN sent : i \in DOMAIN sent' /\ sent'[i] = sent[i]
        /\ sent'[Len(sent) + 1].of = p
        /\ \A u \in Users : u # sender => handling'[u] = handling[u]
        /\ \A n \in DOMAIN handling[sender] :
             n \in DOMAIN handling'[sender] /\ handling'[sender][n] = handling[sender][n]
        /\ \A n \in DOMAIN handling'[sender] \ DOMAIN handling[sender] :
             n = Len(handling[sender]) + 1 /\ handling'[sender][n] = Len(sent) + 1
        /\ with' = with
    BY <1>2, SendsOne
  <2>2. disturbed' = (disturbed \/ (with = p /\ (loads # <<>> \/ Crossing(p, sender))))
    BY <1>2 DEF SendInstantMessage
  <2>3. w \in Users /\ Officer \in Users /\ w # Officer
    BY InstantMessagesAssumption DEF Users
  <2>4. ASSUME NEW u \in Users, u # sender \/ p # w, Speaks(u, w)' PROVE Speaks(u, w)
    <3>1. PICK n \in DOMAIN handling'[u] : sent'[handling'[u][n]].of = w
      BY <2>1, <2>4 DEF Speaks
    <3>2. n \in DOMAIN handling[u] /\ handling'[u][n] = handling[u][n]
      BY <2>1, <2>4, <3>1
    <3>3. handling[u][n] \in DOMAIN sent
      BY <3>2 DEF MessagesAreKnown
    <3>4. sent[handling[u][n]].of = w
      BY <2>1, <3>1, <3>2, <3>3
    <3>5. QED
      BY <3>2, <3>4 DEF Speaks
  <2>5. CASE p # w
    BY <2>2, <2>3, <2>4, <2>5
  <2>6. CASE p = w
    <3>1. ~Crossing(p, sender)
      BY <2>2, <2>6
    <3>2. ~Speaks(IF sender = Officer THEN p ELSE Officer, p)
      BY <3>1, SpeaksIs DEF Crossing
    <3>3. CASE sender = Officer
      BY <2>3, <2>4, <2>6, <3>2, <3>3
    <3>4. CASE sender # Officer
      BY <2>3, <2>4, <2>6, <3>2, <3>4
    <3>5. QED
      BY <3>3, <3>4
  <2>7. QED
    BY <2>5, <2>6
<1>3. ASSUME NEW u \in Users, NEW i \in DOMAIN sent, ShowStep(u, i) PROVE OneSideSpeaks'
  BY <1>1, <1>3 DEF ShowStep
<1>4. ASSUME NEW u \in Users, NEW i \in DOMAIN sent, NEW p \in Parties, StoreStep(u, i, p)
      PROVE  OneSideSpeaks'
  <2>1. /\ UNCHANGED <<with, component, sent>>
        /\ \A v \in Users : v # u => handling'[v] = handling[v]
        /\ \A n \in DOMAIN handling'[u] :
             n + 1 \in DOMAIN handling[u] /\ handling'[u][n] = handling[u][n + 1]
        /\ disturbed => disturbed'
    <3>1. UNCHANGED <<with, component, sent>>
      BY <1>4 DEF StoreStep
    <3>2. QED
      BY <1>4, <3>1, StoresOne
  <2>2. \A v \in Users, q \in Parties : Speaks(v, q)' => Speaks(v, q)
    BY <2>1 DEF Speaks
  <2>3. Officer \in Users /\ Parties \subseteq Users
    BY DEF Users
  <2>4. QED
    BY <2>1, <2>2, <2>3
<1>5. ASSUME NEW p \in Parties, OpenStep(p) PROVE OneSideSpeaks'
  <2>1. /\ with' = p /\ UNCHANGED <<handling, sent>>
        /\ ~disturbed' => ~UnderWay(p)
    BY <1>5 DEF OpenStep
  <2>2. ~disturbed' => ~Speaks(p, p)
    BY <2>1, NothingUnderWayIs DEF NothingUnderWay, Users
  <2>3. QED
    BY <2>1, <2>2 DEF Speaks
<1>6. ASSUME NEW n \in DOMAIN loads, ReadHistory(n) PROVE OneSideSpeaks'
  BY <1>1, <1>6, AHistoryIsRead
<1>7. ASSUME NEW n \in DOMAIN loads, HandleHistoryResponse(n) PROVE OneSideSpeaks'
  BY <1>1, <1>7, Responds
<1>8. CASE HandleStep
  BY <1>1, <1>8 DEF HandleStep
<1>9. CASE HubMisses
  BY <1>1, <1>9, Misses
<1>10. CASE UNCHANGED chatVars
  BY <1>1, <1>10 DEF chatVars, hubSide, componentVars
<1>11. QED
  BY <1>2, <1>3, <1>4, <1>5, <1>6, <1>7, <1>8, <1>9, <1>10 DEF ChatMove

LEMMA HistoryIsLoadedStep ==
  ASSUME ChatFlags, ChatSorts, MessagesAreKnown, HistoryIsLoaded, ChatMove
  PROVE  HistoryIsLoaded'
<1> SUFFICES ASSUME loads' # <<>>, ~disturbed'
             PROVE  /\ Len(loads') = 1 /\ loads'[1].of = with'
                    /\ NothingUnderWay(with)'
                    /\ loads'[1].read => loads'[1].ids = history'[with']
  BY DEF HistoryIsLoaded
<1> USE DEF HistoryIsLoaded
<1>1. ASSUME NEW p \in Parties, NEW sender \in {p, Officer}, SendInstantMessage(p, sender)
      PROVE  HistoryIsLoaded'
  <2>1. /\ \A i \in DOMAIN sent : i \in DOMAIN sent' /\ sent'[i] = sent[i]
        /\ sent'[Len(sent) + 1].of = p
        /\ \A u \in Users : u # sender => handling'[u] = handling[u]
        /\ \A n \in DOMAIN handling[sender] :
             n \in DOMAIN handling'[sender] /\ handling'[sender][n] = handling[sender][n]
        /\ \A n \in DOMAIN handling'[sender] \ DOMAIN handling[sender] :
             n = Len(handling[sender]) + 1 /\ handling'[sender][n] = Len(sent) + 1
        /\ UNCHANGED <<history, with, pushed, loads>>
    BY <1>1, SendsOne
  <2>2. disturbed' = (disturbed \/ (with = p /\ (loads # <<>> \/ Crossing(p, sender))))
    BY <1>1 DEF SendInstantMessage
  <2>3. p # with /\ ~disturbed /\ loads # <<>>
    BY <2>1, <2>2
  <2>4. ASSUME NEW u \in Users, NEW n \in DOMAIN handling'[u]
        PROVE  sent'[handling'[u][n]].of # with
    <3>1. CASE n \in DOMAIN handling[u]
      <4>1. handling'[u][n] = handling[u][n] /\ handling[u][n] \in DOMAIN sent
        BY <2>1, <3>1 DEF MessagesAreKnown
      <4>2. QED
        BY <2>1, <2>3, <3>1, <4>1 DEF NothingUnderWay, Speaks
    <3>2. CASE n \notin DOMAIN handling[u]
      BY <2>1, <2>3, <2>4, <3>2
    <3>3. QED
      BY <3>1, <3>2
  <2>5. NothingUnderWay(with)'
    BY <2>1, <2>3, <2>4 DEF NothingUnderWay, Speaks
  <2>6. QED
    BY <2>1, <2>3, <2>5
<1>2. ASSUME NEW u \in Users, NEW i \in DOMAIN sent, ShowStep(u, i) PROVE HistoryIsLoaded'
  <2>1. /\ 1 \in DOMAIN handling[u] /\ i = handling[u][1]
        /\ UNCHANGED <<sent, handling, history, with, loads, disturbed>>
    BY <1>2 DEF ShowStep
  <2>2. sent[i].of # with
    BY <2>1 DEF NothingUnderWay, Speaks
  <2>3. \A n \in DOMAIN pushed' : pushed'[n].of # with
    <3>1. ASSUME NEW kind, Showing(kind, i) PROVE \A n \in DOMAIN pushed' : pushed'[n].of # with
      <4>1. \A n \in DOMAIN pushed : pushed[n].of # with
        BY <2>1 DEF NothingUnderWay
      <4>2. \A n \in DOMAIN pushed' : n \in DOMAIN pushed \/ n = Len(pushed) + 1
        BY <3>1 DEF Showing
      <4>3. QED
        BY <2>2, <3>1, <4>1, <4>2 DEF Showing
    <3>2. CASE pushed' = pushed
      BY <2>1, <3>2 DEF NothingUnderWay
    <3>3. QED
      BY <1>2, <3>1, <3>2 DEF ShowStep
  <2>4. QED
    BY <2>1, <2>3 DEF NothingUnderWay, Speaks
<1>3. ASSUME NEW u \in Users, NEW i \in DOMAIN sent, NEW p \in Parties, StoreStep(u, i, p)
      PROVE  HistoryIsLoaded'
  <2>1. /\ i = handling[u][1] /\ 1 \in DOMAIN handling[u] /\ p = sent[i].of
        /\ UNCHANGED <<sent, with, pushed, loads>>
    BY <1>3 DEF StoreStep
  <2>2. /\ \A v \in Users : v # u => handling'[v] = handling[v]
        /\ \A n \in DOMAIN handling'[u] :
             n + 1 \in DOMAIN handling[u] /\ handling'[u][n] = handling[u][n + 1]
        /\ \A q \in Parties : q # p => history'[q] = history[q]
        /\ disturbed => disturbed'
    BY <1>3, StoresOne
  <2>3. p # with
    BY <2>1, <2>2 DEF NothingUnderWay, Speaks
  <2>5. NothingUnderWay(with)'
    BY <2>1, <2>2 DEF NothingUnderWay, Speaks
  <2>6. with \in Parties
    <3>1. loads[1] \in Requests
      BY <2>1, <2>2, Sizes DEF ChatSorts
    <3>2. QED
      BY <2>1, <2>2, <3>1 DEF Requests
  <2>7. QED
    BY <2>1, <2>2, <2>3, <2>5, <2>6
<1>4. CASE HandleStep
  <2>1. UNCHANGED <<sent, handling, history, with, loads, disturbed>>
    BY <1>4 DEF HandleStep
  <2>2. \A n \in DOMAIN pushed' : n + 1 \in DOMAIN pushed /\ pushed'[n] = pushed[n + 1]
    BY <1>4 DEF HandleStep
  <2>3. QED
    BY <2>1, <2>2 DEF NothingUnderWay, Speaks
<1>5. CASE HubMisses
  <2>1. /\ pushed' = <<>> /\ UNCHANGED <<sent, handling, history, with, loads>>
        /\ disturbed => disturbed'
    BY <1>5, Misses
  <2>2. QED
    BY <2>1 DEF NothingUnderWay, Speaks
<1>6. ASSUME NEW p \in Parties, OpenStep(p) PROVE HistoryIsLoaded'
  <2>1. /\ with' = p /\ UNCHANGED <<sent, handling>> /\ pushed' \in {pushed, <<>>}
        /\ ~UnderWay(p)
        /\ Len(loads') = 1 /\ loads'[1] = [of |-> p, read |-> FALSE, ids |-> <<>>]
    BY <1>6 DEF OpenStep
  <2>2. NothingUnderWay(p)
    BY <2>1, NothingUnderWayIs
  <2>3. NothingUnderWay(with)'
    BY <2>1, <2>2 DEF NothingUnderWay, Speaks
  <2>4. QED
    BY <2>1, <2>3
<1>7. ASSUME NEW n \in DOMAIN loads, ReadHistory(n) PROVE HistoryIsLoaded'
  <2>1. /\ Len(loads') = Len(loads) /\ loads # <<>>
        /\ loads'[n].of = loads[n].of /\ loads'[n].ids = history[loads[n].of]
        /\ UNCHANGED <<sent, handling, history, pushed, with, disturbed>>
    BY <1>7, AHistoryIsRead
  <2>2. n = 1
    <3>1. Len(loads) = 1 /\ DOMAIN loads = 1..Len(loads)
      BY <2>1, Sizes DEF ChatSorts
    <3>2. QED
      BY <3>1
  <2>3. QED
    BY <2>1, <2>2 DEF NothingUnderWay, Speaks
<1>8. ASSUME NEW n \in DOMAIN loads, HandleHistoryResponse(n) PROVE HistoryIsLoaded'
  <2>1. loads # <<>> /\ (loads' = <<>> <=> Len(loads) = 1) /\ disturbed' = disturbed
    BY <1>8, Responds
  <2>2. QED
    BY <2>1
<1>9. CASE UNCHANGED chatVars
  BY <1>9 DEF chatVars, hubSide, componentVars, NothingUnderWay, Speaks
<1>10. QED
  BY <1>1, <1>2, <1>3, <1>4, <1>5, <1>6, <1>7, <1>8, <1>9 DEF ChatMove

LEMMA WindowIsLoadedStep ==
  ASSUME ChatFlags, ChatSorts, MessagesAreKnown, HandledOnce, ViewerIsTold, HistoryIsLoaded,
         WindowIsLoaded, ChatMove
  PROVE  WindowIsLoaded'
<1> SUFFICES ASSUME with' \in Parties, component' = "window", loads' = <<>>, ~disturbed'
             PROVE  WindowIsLoaded'
  BY DEF WindowIsLoaded
<1> DEFINE Loaded == /\ with \in Parties /\ component = "window" /\ loads = <<>> /\ ~disturbed
<1>0. Loaded =>
        /\ \A i \in Nat : InWindow(i) \/ IsComing(i) <=> IsStored(i) \/ IsGoing(i)
        /\ \A m, n \in DOMAIN inWindow : inWindow[m].id = inWindow[n].id => m = n
        /\ \A m, n \in DOMAIN pushed :
             Coming(m) /\ Coming(n) /\ pushed[m].id = pushed[n].id => m = n
        /\ \A n \in DOMAIN pushed : Coming(n) => ~InWindow(pushed[n].id)
  BY DEF WindowIsLoaded
<1>1. ASSUME NEW p \in Parties, NEW sender \in {p, Officer}, SendInstantMessage(p, sender)
      PROVE  WindowIsLoaded'
  <2>1. /\ sender \in Users
        /\ \A i \in DOMAIN sent : i \in DOMAIN sent' /\ sent'[i] = sent[i]
        /\ \A u \in Users : u # sender => handling'[u] = handling[u]
        /\ handling'[sender] # <<>>
        /\ \A n \in DOMAIN handling[sender] :
             n \in DOMAIN handling'[sender] /\ handling'[sender][n] = handling[sender][n]
        /\ UNCHANGED <<handled, history, component, with, pushed, inWindow, loads>>
    BY <1>1, SendsOne
  <2>2. disturbed => disturbed'
    BY <1>1 DEF SendInstantMessage
  <2>3. Loaded
    BY <2>1, <2>2
  <2>4. ASSUME NEW u \in Users, NEW i \in Nat PROVE GoesOut(u, i)' <=> GoesOut(u, i)
    <3>1. handling[u] = <<>> => handled[u] = "received"
      BY DEF HandledOnce
    <3>2. CASE handling[u] = <<>>
      BY <2>1, <3>1, <3>2 DEF GoesOut
    <3>3. CASE handling[u] # <<>>
      <4>1. 1 \in DOMAIN handling[u] /\ handling[u][1] \in DOMAIN sent
        BY <3>3, Firsts DEF MessagesAreKnown
      <4>2. handling'[u] # <<>> /\ handling'[u][1] = handling[u][1]
            /\ sent'[handling[u][1]] = sent[handling[u][1]]
        BY <2>1, <3>3, <4>1
      <4>3. QED
        BY <2>1, <3>3, <4>2 DEF GoesOut
    <3>4. QED
      BY <3>2, <3>3
  <2>5. \A i \in Nat : IsGoing(i)' <=> IsGoing(i)
    BY <2>4 DEF IsGoing
  <2>6. QED
    BY <1>0, <2>1, <2>3, <2>5 DEF WindowIsLoaded, InWindow, IsComing, Coming, IsStored
<1>2. ASSUME NEW u \in Users, NEW i \in DOMAIN sent, ShowStep(u, i) PROVE WindowIsLoaded'
  <2>1. /\ handling[u] # <<>> /\ i = handling[u][1] /\ 1 \in DOMAIN handling[u] /\ i \in Nat
        /\ UNCHANGED <<sent, handling, history, viewer, component, with, inWindow, loads,
                       disturbed>>
    BY <1>2 DEF ShowStep
  <2>2. Loaded
    BY <2>1
  <2>3. sent[i].by = u
    BY <2>1 DEF MessagesAreKnown
  <2>4. ASSUME NEW v \in Users, NEW j \in Nat, GoesOut(v, j), j = i PROVE v = u
    <3>1. 1 \in DOMAIN handling[v] /\ handling[v][1] = j
      BY <2>4, Firsts DEF GoesOut
    <3>2. sent[j].by = v
      BY <3>1 DEF MessagesAreKnown
    <3>3. QED
      BY <2>3, <2>4, <3>2
  <2>5. CASE handled[u] = "received"
    <3>1. /\ handled' = [handled EXCEPT ![u] = IF u = Officer THEN "told" ELSE "shown"]
          /\ \/ viewer \in {Officer, sent[i].of} /\ Showing("message", i)
             \/ viewer \notin {Officer, sent[i].of} /\ pushed' = pushed
      BY <1>2, <2>5 DEF ShowStep
    <3>2. handled'[u] # "received" /\ \A v \in Users : v # u => handled'[v] = handled[v]
      BY <3>1 DEF ChatSorts
    <3>3. \A j \in Nat : IsGoing(j)' <=> IsGoing(j) \/ (j = i /\ sent[i].of = with)
      <4>1. ASSUME NEW j \in Nat, NEW v \in Users, v # u PROVE GoesOut(v, j)' <=> GoesOut(v, j)
        BY <2>1, <3>2, <4>1 DEF GoesOut
      <4>2. ASSUME NEW j \in Nat PROVE GoesOut(u, j)' <=> j = i /\ sent[i].of = with
        BY <2>1, <3>2 DEF GoesOut
      <4>3. ASSUME NEW j \in Nat PROVE ~GoesOut(u, j)
        BY <2>5 DEF GoesOut
      <4>4. QED
        BY <4>1, <4>2, <4>3 DEF IsGoing
    <3>4. CASE sent[i].of = with
      <4>1. Showing("message", i)
        BY <3>1, <3>4 DEF ViewerIsTold
      <4>2. ~IsStored(i) /\ ~IsGoing(i)
        <5>1. ~IsStored(i)
          BY <2>1, <2>2 DEF HandledOnce, IsStored
        <5>2. ~IsGoing(i)
          BY <2>1, <2>4, <2>5 DEF IsGoing, GoesOut
        <5>3. QED
          BY <5>1, <5>2
      <4>3. ~InWindow(i) /\ ~IsComing(i)
        BY <1>0, <2>1, <2>2, <4>2
      <4>4. /\ \A n \in DOMAIN pushed :
                 n \in DOMAIN pushed' /\ pushed'[n] = pushed[n] /\ n # Len(pushed) + 1
            /\ \A n \in DOMAIN pushed' : n \in DOMAIN pushed \/ n = Len(pushed) + 1
            /\ Len(pushed) + 1 \in DOMAIN pushed'
            /\ pushed'[Len(pushed) + 1].kind = "message" /\ pushed'[Len(pushed) + 1].id = i
            /\ pushed'[Len(pushed) + 1].of = with
        BY <3>4, <4>1 DEF Showing
      <4>5. \A n \in DOMAIN pushed : Coming(n)' <=> Coming(n)
        BY <2>1, <4>4 DEF Coming
      <4>6. \A j \in Nat : IsComing(j)' <=> IsComing(j) \/ j = i
        BY <2>1, <4>4, <4>5 DEF IsComing, Coming
      <4>7. \A j \in Nat : (InWindow(j)' <=> InWindow(j)) /\ (IsStored(j)' <=> IsStored(j))
        BY <2>1 DEF InWindow, IsStored
      <4>8. \A j \in Nat : InWindow(j)' \/ IsComing(j)' <=> IsStored(j)' \/ IsGoing(j)'
        BY <1>0, <2>2, <3>3, <3>4, <4>6, <4>7
      <4>9. ASSUME NEW m \in DOMAIN pushed', NEW n \in DOMAIN pushed',
                   Coming(m)', Coming(n)', pushed'[m].id = pushed'[n].id
            PROVE  m = n
        <5>1. ASSUME NEW k \in DOMAIN pushed, Coming(k)' PROVE pushed'[k].id # i
          BY <4>3, <4>4, <4>5, <5>1 DEF IsComing
        <5>2. CASE m \in DOMAIN pushed /\ n \in DOMAIN pushed
          BY <1>0, <2>2, <4>4, <4>5, <4>9, <5>2
        <5>3. QED
          BY <4>4, <4>9, <5>1, <5>2
      <4>10. ASSUME NEW n \in DOMAIN pushed', Coming(n)' PROVE ~InWindow(pushed[n].id)'
        <5>1. CASE n \in DOMAIN pushed
          <6>1. ~InWindow(pushed[n].id)
            BY <1>0, <2>2, <4>5, <4>10, <5>1
          <6>2. QED
            BY <2>1, <4>4, <5>1, <6>1 DEF InWindow
        <5>2. CASE n = Len(pushed) + 1
          BY <2>1, <4>3, <4>4, <5>2 DEF InWindow
        <5>3. QED
          BY <4>4, <5>1, <5>2
      <4>11. \A m, n \in DOMAIN inWindow' : inWindow'[m].id = inWindow'[n].id => m = n
        BY <1>0, <2>1, <2>2
      <4>12. QED
        BY <4>8, <4>9, <4>10, <4>11 DEF WindowIsLoaded
    <3>5. CASE sent[i].of # with
      <4>1. \A n \in DOMAIN pushed' : Coming(n)' =>
              n \in DOMAIN pushed /\ Coming(n) /\ pushed'[n] = pushed[n]
        <5>1. CASE pushed' = pushed
          BY <2>1, <5>1 DEF Coming
        <5>2. CASE Showing("message", i)
          <6>1. /\ \A n \in DOMAIN pushed' : n \in DOMAIN pushed \/ n = Len(pushed) + 1
                /\ \A n \in DOMAIN pushed : pushed'[n] = pushed[n]
                /\ pushed'[Len(pushed) + 1].of = sent[i].of
            BY <5>2 DEF Showing
          <6>2. QED
            BY <2>1, <3>5, <6>1 DEF Coming
        <5>3. QED
          BY <3>1, <5>1, <5>2
      <4>2. \A n \in DOMAIN pushed : n \in DOMAIN pushed' /\ pushed'[n] = pushed[n]
        BY <3>1 DEF Showing
      <4>3. \A j \in Nat : IsComing(j)' <=> IsComing(j)
        BY <2>1, <4>1, <4>2 DEF IsComing, Coming
      <4>4. \A j \in Nat : IsGoing(j)' <=> IsGoing(j)
        BY <3>3, <3>5
      <4>5. \A j : (InWindow(j)' <=> InWindow(j)) /\ (IsStored(j)' <=> IsStored(j))
        BY <2>1 DEF InWindow, IsStored
      <4>6. QED
        BY <1>0, <2>1, <2>2, <4>1, <4>2, <4>3, <4>4, <4>5 DEF WindowIsLoaded, InWindow
    <3>6. QED
      BY <3>4, <3>5
  <2>6. CASE handled[u] # "received"
    <3>1. /\ handled' = [handled EXCEPT ![u] = "shown"]
          /\ \/ Showing("answered", i)
             \/ pushed' = pushed
      BY <1>2, <2>6 DEF ShowStep
    <3>2. handled'[u] # "received" /\ \A v \in Users : v # u => handled'[v] = handled[v]
      BY <3>1 DEF ChatSorts
    <3>3. \A j \in Nat : IsGoing(j)' <=> IsGoing(j)
      BY <2>1, <2>6, <3>2 DEF IsGoing, GoesOut
    <3>4. \A n \in DOMAIN pushed' : Coming(n)' =>
            n \in DOMAIN pushed /\ Coming(n) /\ pushed'[n] = pushed[n]
      <4>1. CASE pushed' = pushed
        BY <2>1, <4>1 DEF Coming
      <4>2. CASE Showing("answered", i)
        <5>1. /\ \A n \in DOMAIN pushed' : n \in DOMAIN pushed \/ n = Len(pushed) + 1
              /\ \A n \in DOMAIN pushed : pushed'[n] = pushed[n]
              /\ pushed'[Len(pushed) + 1].kind = "answered"
          BY <4>2 DEF Showing
        <5>2. QED
          BY <2>1, <5>1 DEF Coming
      <4>3. QED
        BY <3>1, <4>1, <4>2
    <3>5. \A n \in DOMAIN pushed : n \in DOMAIN pushed' /\ pushed'[n] = pushed[n]
      BY <3>1 DEF Showing
    <3>6. \A j \in Nat : IsComing(j)' <=> IsComing(j)
      BY <2>1, <3>4, <3>5 DEF IsComing, Coming
    <3>7. \A j : (InWindow(j)' <=> InWindow(j)) /\ (IsStored(j)' <=> IsStored(j))
      BY <2>1 DEF InWindow, IsStored
    <3>8. QED
      BY <1>0, <2>1, <2>2, <3>3, <3>4, <3>5, <3>6, <3>7 DEF WindowIsLoaded, InWindow
  <2>7. QED
    BY <2>5, <2>6
<1>3. ASSUME NEW u \in Users, NEW i \in DOMAIN sent, NEW p \in Parties, StoreStep(u, i, p)
      PROVE  WindowIsLoaded'
  <2>1. /\ i = handling[u][1] /\ 1 \in DOMAIN handling[u] /\ p = sent[i].of /\ sent[i].by = u
        /\ handling[u] # <<>> /\ handled[u] = "shown" /\ i \in Nat
        /\ UNCHANGED <<sent, component, with, pushed, inWindow, loads>>
    BY <1>3 DEF StoreStep
  <2>2. /\ \A v \in Users : v # u => handling'[v] = handling[v]
        /\ \A q \in Parties : q # p => history'[q] = history[q]
        /\ history' # history =>
             /\ \A n \in DOMAIN history[p] :
                  n \in DOMAIN history'[p] /\ history'[p][n] = history[p][n]
             /\ \A n \in DOMAIN history'[p] \ DOMAIN history[p] : history'[p][n] = i
             /\ Len(history[p]) + 1 \in DOMAIN history'[p]
             /\ Len(history[p]) + 1 \notin DOMAIN history[p]
        /\ disturbed => disturbed'
        /\ history' = history /\ with = p => disturbed'
        /\ \A v \in Users : v # u => handled'[v] = handled[v]
        /\ handled'[u] = "received"
    BY <1>3, StoresOne
  <2>3. Loaded
    BY <2>1, <2>2
  <2>4. ASSUME NEW v \in Users, NEW j \in Nat PROVE GoesOut(v, j)' <=> GoesOut(v, j) /\ v # u
    BY <2>1, <2>2 DEF GoesOut
  <2>5. ASSUME NEW j \in Nat PROVE GoesOut(u, j) <=> j = i /\ p = with
    BY <2>1 DEF GoesOut
  <2>6. ASSUME NEW v \in Users, NEW j \in Nat, GoesOut(v, j), j = i PROVE v = u
    <3>1. 1 \in DOMAIN handling[v] /\ handling[v][1] = j
      BY <2>6, Firsts DEF GoesOut
    <3>2. sent[j].by = v
      BY <3>1 DEF MessagesAreKnown
    <3>3. QED
      BY <2>1, <2>6, <3>2
  <2>7. \A j \in Nat : IsGoing(j)' <=> IsGoing(j) /\ ~(j = i /\ p = with)
    BY <2>4, <2>5, <2>6 DEF IsGoing
  <2>8. \A j \in Nat : IsStored(j)' <=> IsStored(j) \/ (j = i /\ p = with)
    <3>1. CASE p = with
      <4>1. history' # history
        BY <2>2, <3>1
      <4>2. with' = p
        BY <2>1, <3>1
      <4>3. /\ \A n \in DOMAIN history[p] :
                 n \in DOMAIN history'[p] /\ history'[p][n] = history[p][n]
            /\ \A n \in DOMAIN history'[p] \ DOMAIN history[p] : history'[p][n] = i
            /\ Len(history[p]) + 1 \in DOMAIN history'[p] \ DOMAIN history[p]
        BY <2>2, <4>1
      <4>4. QED
        BY <3>1, <4>2, <4>3 DEF IsStored
    <3>2. CASE p # with
      BY <2>1, <2>2, <2>3, <3>2 DEF IsStored
    <3>3. QED
      BY <3>1, <3>2
  <2>9. \A j \in Nat : IsGoing(j) \/ ~(j = i /\ p = with)
    BY <2>5 DEF IsGoing
  <2>10. \A j : (InWindow(j)' <=> InWindow(j)) /\ (IsComing(j)' <=> IsComing(j))
    BY <2>1 DEF InWindow, IsComing, Coming
  <2>11. QED
    BY <1>0, <2>1, <2>3, <2>7, <2>8, <2>9, <2>10 DEF WindowIsLoaded, InWindow, Coming
<1>4. CASE HandleStep
  <2>1. /\ 1 \in DOMAIN pushed /\ pushed[1] \in Shows
        /\ UNCHANGED <<sent, handling, handled, history, component, with, loads, disturbed>>
    BY <1>4 DEF HandleStep
  <2>2. \A n \in DOMAIN pushed' :
          n \in Nat /\ n + 1 \in DOMAIN pushed /\ n + 1 # 1 /\ pushed'[n] = pushed[n + 1]
    BY <1>4 DEF HandleStep
  <2>3. \A n \in DOMAIN pushed : n = 1 \/ (n - 1 \in DOMAIN pushed' /\ pushed'[n - 1] = pushed[n])
    <3>1. /\ Len(pushed) \in Nat \ {0} /\ DOMAIN pushed = 1..Len(pushed)
          /\ DOMAIN pushed' = 1..(Len(pushed) - 1)
          /\ \A n \in DOMAIN pushed' : pushed'[n] = pushed[n + 1]
      BY <1>4 DEF HandleStep
    <3>2. \A n \in 1..Len(pushed) : n = 1 \/ (n - 1 \in 1..(Len(pushed) - 1) /\ (n - 1) + 1 = n)
      BY <3>1
    <3>3. QED
      BY <3>1, <3>2
  <2>4. Loaded
    BY <2>1
  <2>5. \A n \in DOMAIN pushed' : Coming(n)' <=> Coming(n + 1)
    BY <2>1, <2>2 DEF Coming
  <2> PICK j \in Nat : j = pushed[1].id
    BY <2>1 DEF Shows
  <2>6. \A k \in Nat : IsComing(k) <=> IsComing(k)' \/ (Coming(1) /\ k = j)
    <3>1. ASSUME NEW k \in Nat, NEW n \in DOMAIN pushed', Coming(n)', pushed'[n].id = k
          PROVE  IsComing(k)
      BY <2>2, <2>5, <3>1 DEF IsComing
    <3>2. ASSUME NEW k \in Nat, NEW n \in DOMAIN pushed, Coming(n), pushed[n].id = k, n # 1
          PROVE  IsComing(k)'
      <4>1. n - 1 \in DOMAIN pushed' /\ pushed'[n - 1] = pushed[n]
        BY <2>3, <3>2
      <4>2. Coming(n - 1)'
        BY <2>1, <3>2, <4>1 DEF Coming
      <4>3. QED
        BY <3>2, <4>1, <4>2 DEF IsComing
    <3>3. ASSUME NEW k \in Nat, IsComing(k) PROVE IsComing(k)' \/ (Coming(1) /\ k = j)
      BY <3>2, <3>3 DEF IsComing, Coming
    <3>4. ASSUME NEW k \in Nat, IsComing(k)' PROVE IsComing(k)
      BY <3>1, <3>4 DEF IsComing, Coming
    <3>5. ASSUME Coming(1) PROVE IsComing(j)
      BY <2>1, <3>5 DEF IsComing
    <3>6. QED
      BY <3>3, <3>4, <3>5
  <2>7. pushed[1].of = sent[j].of
    BY <2>1 DEF MessagesAreKnown
  <2>8. ~IsComing(j)' \/ ~Coming(1)
    <3> SUFFICES ASSUME IsComing(j)', Coming(1) PROVE FALSE
      OBVIOUS
    <3>1. PICK n \in DOMAIN pushed' : Coming(n)' /\ pushed'[n].id = j
      BY DEF IsComing, Coming
    <3>2. n + 1 \in DOMAIN pushed /\ Coming(n + 1) /\ pushed[n + 1].id = j /\ n + 1 # 1
      BY <2>2, <2>5, <3>1
    <3>3. QED
      BY <1>0, <2>1, <2>4, <3>2
  <2>9. CASE Coming(1)
    <3>1. ~InWindow(j)
      BY <1>0, <2>1, <2>4, <2>9
    <3>2. inWindow' # inWindow
      BY <1>4, <2>4, <2>9, <3>1, WindowShows DEF Coming
    <3>3. /\ Len(inWindow) \in Nat /\ DOMAIN inWindow = 1..Len(inWindow)
          /\ DOMAIN inWindow' = 1..(Len(inWindow) + 1)
          /\ \A n \in DOMAIN inWindow : inWindow'[n] = inWindow[n]
          /\ inWindow'[Len(inWindow) + 1].id = j
      BY <1>4, <3>2, WindowShows
    <3>4. /\ \A n \in DOMAIN inWindow : n \in DOMAIN inWindow'
          /\ \A n \in DOMAIN inWindow' : n \in DOMAIN inWindow \/ n = Len(inWindow) + 1
          /\ Len(inWindow) + 1 \in DOMAIN inWindow'
      BY <3>3
    <3>5. \A k \in Nat : InWindow(k)' <=> InWindow(k) \/ k = j
      BY <3>3, <3>4 DEF InWindow
    <3>6. \A k \in Nat : (IsStored(k)' <=> IsStored(k)) /\ (IsGoing(k)' <=> IsGoing(k))
      BY <2>1 DEF IsStored, IsGoing, GoesOut
    <3>7. \A k \in Nat : InWindow(k)' \/ IsComing(k)' <=> IsStored(k)' \/ IsGoing(k)'
      BY <1>0, <2>4, <2>6, <2>9, <3>5, <3>6
    <3>8. \A n \in DOMAIN inWindow : inWindow[n].id # j
      BY <3>1 DEF InWindow
    <3>9. \A m, n \in DOMAIN inWindow' : inWindow'[m].id = inWindow'[n].id => m = n
      BY <1>0, <2>4, <3>3, <3>4, <3>8
    <3>10. ASSUME NEW n \in DOMAIN pushed', Coming(n)' PROVE ~InWindow(pushed[n].id)'
      <4>1. n + 1 \in DOMAIN pushed /\ Coming(n + 1) /\ pushed'[n] = pushed[n + 1] /\ n + 1 # 1
        BY <2>2, <2>5, <3>10
      <4>2. ~InWindow(pushed[n + 1].id) /\ pushed[n + 1].id # j
        BY <1>0, <2>1, <2>4, <2>9, <4>1
      <4>3. \A m \in DOMAIN inWindow' : inWindow'[m].id # pushed'[n].id
        BY <3>3, <3>4, <4>1, <4>2 DEF InWindow
      <4>4. QED
        BY <4>3 DEF InWindow
    <3>11. ASSUME NEW m \in DOMAIN pushed', NEW n \in DOMAIN pushed',
                  Coming(m)', Coming(n)', pushed'[m].id = pushed'[n].id
           PROVE  m = n
      <4>1. m \in Nat /\ n \in Nat /\ m + 1 = n + 1
        BY <1>0, <2>2, <2>4, <2>5, <3>11
      <4>2. QED
        BY <4>1
    <3>12. QED
      BY <3>7, <3>9, <3>10, <3>11 DEF WindowIsLoaded
  <2>10. CASE ~Coming(1)
    <3>1. inWindow' = inWindow
      BY <1>4, <2>1, <2>7, <2>10, WindowShows DEF Coming
    <3>2. \A k \in Nat : (IsStored(k)' <=> IsStored(k)) /\ (IsGoing(k)' <=> IsGoing(k))
      BY <2>1 DEF IsStored, IsGoing, GoesOut
    <3>3. \A k : InWindow(k)' <=> InWindow(k)
      BY <3>1 DEF InWindow
    <3>4. \A k \in Nat : InWindow(k)' \/ IsComing(k)' <=> IsStored(k)' \/ IsGoing(k)'
      BY <1>0, <2>4, <2>6, <2>10, <3>2, <3>3
    <3>5. ASSUME NEW n \in DOMAIN pushed', Coming(n)' PROVE ~InWindow(pushed[n].id)'
      <4>1. n + 1 \in DOMAIN pushed /\ Coming(n + 1) /\ pushed'[n] = pushed[n + 1]
        BY <2>2, <2>5, <3>5
      <4>2. ~InWindow(pushed[n + 1].id)
        BY <1>0, <2>4, <4>1
      <4>3. QED
        BY <3>1, <4>1, <4>2 DEF InWindow
    <3>6. ASSUME NEW m \in DOMAIN pushed', NEW n \in DOMAIN pushed',
                 Coming(m)', Coming(n)', pushed'[m].id = pushed'[n].id
          PROVE  m = n
      <4>1. m \in Nat /\ n \in Nat /\ m + 1 = n + 1
        BY <1>0, <2>2, <2>4, <2>5, <3>6
      <4>2. QED
        BY <4>1
    <3>7. \A m, n \in DOMAIN inWindow' : inWindow'[m].id = inWindow'[n].id => m = n
      BY <1>0, <2>4, <3>1
    <3>8. QED
      BY <3>4, <3>5, <3>6, <3>7 DEF WindowIsLoaded
  <2>11. QED
    BY <2>9, <2>10
<1>5. CASE HubMisses
  <2>1. /\ pushed' = <<>>
        /\ disturbed' = (disturbed \/ \E n \in DOMAIN pushed : pushed[n].of = with)
        /\ UNCHANGED <<sent, handling, handled, history, component, with, inWindow, loads>>
    BY <1>5, Misses
  <2>2. Loaded /\ \A n \in DOMAIN pushed : pushed[n].of # with
    BY <2>1
  <2>3. \A j \in Nat : ~IsComing(j) /\ ~IsComing(j)'
    BY <2>1, <2>2 DEF IsComing, Coming
  <2>4. \A k \in Nat : /\ IsStored(k)' <=> IsStored(k)
                       /\ IsGoing(k)' <=> IsGoing(k)
                       /\ InWindow(k)' <=> InWindow(k)
    BY <2>1 DEF IsStored, IsGoing, GoesOut, InWindow
  <2>5. QED
    BY <1>0, <2>1, <2>2, <2>3, <2>4 DEF WindowIsLoaded
<1>6. ASSUME NEW p \in Parties, OpenStep(p) PROVE FALSE
  BY <1>6 DEF OpenStep
<1>7. ASSUME NEW n \in DOMAIN loads, ReadHistory(n) PROVE FALSE
  BY <1>7, AHistoryIsRead
<1>8. ASSUME NEW n \in DOMAIN loads, HandleHistoryResponse(n) PROVE WindowIsLoaded'
  <2>1. /\ loads # <<>> /\ loads[n].read
        /\ Len(loads) = 1 => n = 1
        /\ loads' = <<>> <=> Len(loads) = 1
        /\ UNCHANGED <<sent, handling, handled, history, pushed, component, with, disturbed>>
    BY <1>8, Responds
  <2>2. n = 1 /\ NothingUnderWay(with) /\ loads[1].ids = history[with]
    BY <2>1 DEF HistoryIsLoaded
  <2>3. /\ DOMAIN inWindow' = DOMAIN history[with]
        /\ \A k \in DOMAIN inWindow' : inWindow'[k].id = history[with][k]
    BY <1>8, <2>1, <2>2, AMessageIsShown
  <2>4. \A j \in Nat : InWindow(j)' <=> IsStored(j)'
    BY <2>1, <2>3 DEF InWindow, IsStored
  <2>5. \A m : ~Coming(m)'
    BY <2>1, <2>2 DEF NothingUnderWay, Coming
  <2>6. ASSUME NEW u \in Users, NEW j \in Nat PROVE ~GoesOut(u, j)'
    <3>1. handling[u] # <<>> => 1 \in DOMAIN handling[u]
      BY Firsts
    <3>2. QED
      BY <2>1, <2>2, <3>1 DEF GoesOut, NothingUnderWay, Speaks
  <2>7. \A j \in Nat : ~IsGoing(j)' /\ ~IsComing(j)'
    BY <2>5, <2>6 DEF IsGoing, IsComing
  <2>8. \A m, k \in DOMAIN inWindow' : inWindow'[m].id = inWindow'[k].id => m = k
    BY <2>1, <2>3 DEF HandledOnce
  <2>9. QED
    BY <2>4, <2>5, <2>7, <2>8 DEF WindowIsLoaded
<1>9. CASE UNCHANGED chatVars
  BY <1>9 DEF chatVars, hubSide, componentVars, contents, WindowIsLoaded, InWindow, IsComing,
              Coming, IsStored, IsGoing, GoesOut
<1>10. QED
  BY <1>1, <1>2, <1>3, <1>4, <1>5, <1>6, <1>7, <1>8, <1>9 DEF ChatMove

-----------------------------------------------------------------------------
\* The messages on their way as marks.
LEMMA MarksArePushed ==
  ASSUME ChatSorts
  PROVE  /\ PushedMarks \in Seq(Marks) /\ Len(PushedMarks) = Len(pushed)
         /\ DOMAIN PushedMarks = DOMAIN pushed /\ DOMAIN pushed = 1..Len(pushed)
         /\ Len(pushed) \in Nat
<1>1. PushedMarks = [n \in DOMAIN pushed |-> PushedMarks[n]]
      /\ \A n \in DOMAIN pushed : PushedMarks[n] \in Marks
  BY DEF PushedMarks, Mark, Marks
<1>2. pushed \in Seq(Shows)
  BY DEF ChatSorts
<1>3. /\ PushedMarks \in Seq(Marks) /\ Len(PushedMarks) = Len(pushed)
      /\ DOMAIN PushedMarks = 1..Len(pushed)
  <2> DEFINE f == PushedMarks
  <2> HIDE DEF f
  <2>1. f = [n \in DOMAIN pushed |-> f[n]] /\ \A n \in DOMAIN pushed : f[n] \in Marks
    BY <1>1 DEF f
  <2>2. f \in Seq(Marks) /\ Len(f) = Len(pushed) /\ DOMAIN f = 1..Len(pushed)
    BY <1>2, <2>1, AsLong
  <2>3. QED
    BY <2>2 DEF f
<1>4. QED
  BY <1>2, <1>3, Sizes

LEMMA MarksAreShown ==
  ASSUME ChatSorts, MessagesAreKnown, NEW kind \in {"message", "answered"},
         NEW i \in DOMAIN sent, Showing(kind, i), UNCHANGED <<sent, with>>
  PROVE  LET x == IF kind = "answered" /\ sent[i].of = with THEN "reset"
                  ELSE IF kind = "message" /\ sent[i].by = with THEN "up"
                  ELSE "none"
         IN  x \in Marks /\ PushedMarks' = Append(PushedMarks, x)
<1> DEFINE x == IF kind = "answered" /\ sent[i].of = with THEN "reset"
                ELSE IF kind = "message" /\ sent[i].by = with THEN "up"
                ELSE "none"
           less == PushedMarks
           more == PushedMarks'
<1>1. /\ pushed' \in Seq(Shows)
      /\ Len(pushed) \in Nat
      /\ DOMAIN pushed = 1..Len(pushed) /\ DOMAIN pushed' = 1..(Len(pushed) + 1)
      /\ \A n \in DOMAIN pushed : pushed'[n] = pushed[n]
      /\ pushed'[Len(pushed) + 1] = [kind |-> kind, id |-> i, of |-> sent[i].of]
  BY DEF Showing
<1>2. less \in Seq(Marks) /\ Len(less) = Len(pushed)
  BY MarksArePushed
<1>3. \A n \in DOMAIN pushed' : n \in Nat /\ more[n] = Mark(pushed[n])'
  BY <1>1 DEF PushedMarks
<1>4. \A n \in 1..Len(pushed) : more[n] = less[n]
  BY <1>1, <1>3 DEF PushedMarks, Mark
<1>5. more[Len(pushed) + 1] = x
  <2>1. Len(pushed) + 1 \in DOMAIN pushed'
    BY <1>1
  <2>2. QED
    BY <1>1, <1>3, <2>1 DEF Mark
<1>6. more = [n \in DOMAIN pushed' |-> more[n]] /\ \A n \in DOMAIN pushed' : more[n] \in Marks
  BY DEF PushedMarks, Mark, Marks
<1>7. x \in Marks
  BY DEF Marks
<1> HIDE DEF x, less, more
<1>8. more \in Seq(Marks) /\ Len(more) = Len(pushed')
  BY <1>1, <1>6, AsLong
<1>9. Len(pushed') = Len(pushed) + 1
  BY <1>1, LenProperties
<1>10. more = Append(less, x)
  BY <1>2, <1>4, <1>5, <1>7, <1>8, <1>9, LongerBy
<1>11. QED
  BY <1>7, <1>10 DEF x, less, more

LEMMA MarksAreTaken ==
  ASSUME ChatSorts, HandleStep
  PROVE  PushedMarks # <<>> /\ PushedMarks[1] = Mark(pushed[1]) /\ PushedMarks' = Tail(PushedMarks)
<1> DEFINE less == PushedMarks'
           more == PushedMarks
<1>1. /\ 1 \in DOMAIN pushed /\ pushed' \in Seq(Shows) /\ UNCHANGED <<sent, with>>
      /\ Len(pushed) \in Nat \ {0} /\ DOMAIN pushed = 1..Len(pushed)
      /\ DOMAIN pushed' = 1..(Len(pushed) - 1)
      /\ \A n \in DOMAIN pushed' : pushed'[n] = pushed[n + 1]
  BY DEF HandleStep
<1>2. more \in Seq(Marks) /\ Len(more) = Len(pushed)
  BY MarksArePushed
<1>3. \A n \in DOMAIN pushed' : n \in Nat /\ n + 1 \in DOMAIN pushed
  BY <1>1
<1>4. \A n \in DOMAIN pushed' : less[n] = more[n + 1]
  BY <1>1, <1>3 DEF PushedMarks, Mark
<1>5. less = [n \in DOMAIN pushed' |-> less[n]] /\ \A n \in DOMAIN pushed' : less[n] \in Marks
  BY DEF PushedMarks, Mark, Marks
<1>6. more[1] = Mark(pushed[1])
  BY <1>1 DEF PushedMarks
<1> HIDE DEF less, more
<1>7. less \in Seq(Marks) /\ Len(less) = Len(pushed') /\ DOMAIN less = 1..Len(pushed')
  BY <1>1, <1>5, AsLong
<1>8. Len(pushed') = Len(pushed) - 1
  BY Shorter DEF HandleStep, ChatSorts
<1>9. more # <<>>
  BY <1>1, <1>2, Sizes
<1>10. \A n \in 1..Len(less) : less[n] = more[n + 1]
  BY <1>1, <1>4, <1>7, <1>8
<1>11. Len(less) = Len(more) - 1
  BY <1>2, <1>7, <1>8
<1>12. less = Tail(more)
  BY <1>2, <1>7, <1>9, <1>10, <1>11, ShorterBy
<1>13. QED
  BY <1>6, <1>9, <1>12 DEF less, more

\* Messages of others are not marked.
LEMMA QuietMarks ==
  ASSUME MessagesAreKnown, \A n \in DOMAIN pushed : pushed[n].of # with, with \in Parties
  PROVE  \A n \in DOMAIN PushedMarks : PushedMarks[n] = "none"
<1> SUFFICES ASSUME NEW n \in DOMAIN pushed PROVE Mark(pushed[n]) = "none"
  BY DEF PushedMarks
<1>1. pushed[n].of # with /\ sent[pushed[n].id].of # with
      /\ sent[pushed[n].id].by \in {Officer, sent[pushed[n].id].of}
  BY DEF MessagesAreKnown
<1>2. QED
  BY <1>1, InstantMessagesAssumption DEF Mark

\* The same history gives the same count.
LEMMA UnreadStays ==
  ASSUME NEW ids, \A n \in DOMAIN ids : sent'[ids[n]] = sent[ids[n]]
  PROVE  UnreadMessages(ids)' = UnreadMessages(ids)
BY DEF UnreadMessages

\* Whose message it is that is handled.
LEMMA FirstSpeaks ==
  ASSUME ChatSorts, MessagesAreKnown, NEW u \in Users, handling[u] # <<>>
  PROVE  /\ 1 \in DOMAIN handling[u] /\ handling[u][1] \in DOMAIN sent
         /\ sent[handling[u][1]].by = u
         /\ Speaks(u, sent[handling[u][1]].of)
         /\ u # Officer => sent[handling[u][1]].of = u
<1>1. 1 \in DOMAIN handling[u]
  BY Firsts
<1>2. handling[u][1] \in DOMAIN sent /\ sent[handling[u][1]].by = u
  BY <1>1 DEF MessagesAreKnown
<1>3. QED
  BY <1>1, <1>2 DEF MessagesAreKnown, Speaks

LEMMA CountIsLoadedStep ==
  ASSUME ChatFlags, ChatSorts, MessagesAreKnown, HandledOnce, ViewerIsTold, OneSideSpeaks,
         HistoryIsLoaded, CountIsLoaded, ChatMove
  PROVE  CountIsLoaded'
<1> SUFFICES ASSUME NEW w \in Parties, w = with', component' = "count", loads' = <<>>, ~disturbed'
             PROVE  Final(unread', PushedMarks') = Expected'
  BY DEF CountIsLoaded
<1> DEFINE Loaded == with = w /\ component = "count" /\ loads = <<>> /\ ~disturbed
           unreadNow == UnreadMessages(history[w])
           Same == \A u \in Users : HasShown(u)' <=> HasShown(u)
<1>1. w \in Users /\ w # Officer /\ Officer \in Users
  BY InstantMessagesAssumption DEF Users
<1>2. Expected' = IF HasShown(w)' THEN UnreadMessages(history[w])' + 1
                  ELSE IF HasShown(Officer)' THEN 0
                  ELSE UnreadMessages(history[w])'
  BY DEF Expected, HasShown, UnreadMessages
<1>3. Loaded => /\ Final(unread, PushedMarks) =
                     IF HasShown(w) THEN unreadNow + 1
                     ELSE IF HasShown(Officer) THEN 0
                     ELSE unreadNow
                /\ ~(Speaks(w, w) /\ Speaks(Officer, w))
                /\ viewer = Officer /\ counted
  BY DEF CountIsLoaded, OneSideSpeaks, ViewerIsTold, Expected
<1>4. /\ history[w] \in Seq(Nat) /\ unreadNow \in Nat
      /\ PushedMarks \in Seq(Marks) /\ unread \in Nat
  BY UnreadIsFinal, MarksArePushed DEF ChatSorts
<1>5. \A u \in Users : HasShown(u) /\ with = w => Speaks(u, w)
  BY FirstSpeaks DEF HasShown
<1>6. ASSUME Loaded, Same, unread' = unread, PushedMarks' = PushedMarks,
             UnreadMessages(history[w])' = unreadNow
      PROVE  Final(unread', PushedMarks') = Expected'
  BY <1>1, <1>2, <1>3, <1>6
<1>7. ASSUME NEW p \in Parties, NEW sender \in {p, Officer}, SendInstantMessage(p, sender)
      PROVE  Final(unread', PushedMarks') = Expected'
  <2>1. /\ sender \in Users
        /\ \A i \in DOMAIN sent : i \in DOMAIN sent' /\ sent'[i] = sent[i]
        /\ \A u \in Users : u # sender => handling'[u] = handling[u]
        /\ handling'[sender] # <<>>
        /\ \A n \in DOMAIN handling[sender] :
             n \in DOMAIN handling'[sender] /\ handling'[sender][n] = handling[sender][n]
        /\ UNCHANGED <<handled, history, component, with, pushed, unread, loads>>
    BY <1>7, SendsOne
  <2>2. disturbed => disturbed'
    BY <1>7 DEF SendInstantMessage
  <2>3. Loaded
    BY <2>1, <2>2
  <2>4. ASSUME NEW u \in Users PROVE HasShown(u)' <=> HasShown(u)
    <3>1. CASE handling[u] = <<>>
      <4>1. handled[u] = "received"
        BY <3>1 DEF HandledOnce
      <4>2. QED
        BY <2>1, <3>1, <4>1 DEF HasShown
    <3>2. CASE handling[u] # <<>>
      <4>1. 1 \in DOMAIN handling[u] /\ handling[u][1] \in DOMAIN sent
        BY <3>2, FirstSpeaks
      <4>2. handling'[u] # <<>> /\ handling'[u][1] = handling[u][1]
            /\ sent'[handling[u][1]] = sent[handling[u][1]]
        BY <2>1, <3>2, <4>1
      <4>3. QED
        BY <2>1, <3>2, <4>2 DEF HasShown
    <3>3. QED
      BY <3>1, <3>2
  <2>5. UnreadMessages(history[w])' = unreadNow
    <3>1. \A n \in DOMAIN history[w] : sent'[history[w][n]] = sent[history[w][n]]
      BY <2>1 DEF MessagesAreKnown
    <3>2. PICK h \in Seq(Nat) : h = history[w]
      BY <1>4
    <3>3. UnreadMessages(history[w])' = UnreadMessages(h)'
      <4>1. history'[w] = h
        BY <2>1, <3>2
      <4>2. QED
        BY <4>1 DEF UnreadMessages
    <3>4. UnreadMessages(h)' = UnreadMessages(h)
      BY <3>1, <3>2, UnreadStays
    <3>5. QED
      BY <3>2, <3>3, <3>4
  <2>6. PushedMarks' = PushedMarks
    <3>1. \A n \in DOMAIN pushed : sent'[pushed[n].id] = sent[pushed[n].id]
      BY <2>1 DEF MessagesAreKnown
    <3>2. QED
      BY <2>1, <3>1 DEF PushedMarks, Mark
  <2>7. QED
    BY <1>6, <2>1, <2>3, <2>4, <2>5, <2>6
<1>8. ASSUME NEW u \in Users, NEW i \in DOMAIN sent, ShowStep(u, i)
      PROVE  Final(unread', PushedMarks') = Expected'
  <2>1. /\ handling[u] # <<>> /\ i = handling[u][1]
        /\ UNCHANGED <<sent, handling, history, viewer, component, with, unread, counted, loads,
                       disturbed>>
    BY <1>8 DEF ShowStep
  <2>2. Loaded
    BY <2>1
  <2>3. sent[i].by = u /\ Speaks(u, sent[i].of) /\ (u # Officer => sent[i].of = u)
    BY <2>1, FirstSpeaks
  <2>4. UnreadMessages(history[w])' = unreadNow
    BY <2>1 DEF UnreadMessages
  <2>5. CASE handled[u] = "received"
    <3>1. /\ handled' = [handled EXCEPT ![u] = IF u = Officer THEN "told" ELSE "shown"]
          /\ Showing("message", i)
      BY <1>3, <1>8, <2>2, <2>5 DEF ShowStep
    <3>2. /\ handled'[u] = IF u = Officer THEN "told" ELSE "shown"
          /\ \A v \in Users : v # u => handled'[v] = handled[v]
      BY <3>1 DEF ChatSorts
    <3>3. \A v \in Users : v # u => (HasShown(v)' <=> HasShown(v))
      BY <2>1, <3>2 DEF HasShown
    <3>4. ~HasShown(u)
      BY <2>5 DEF HasShown
    <3>5. HasShown(u)' <=> u # Officer /\ sent[i].of = w
      BY <2>1, <2>2, <3>2 DEF HasShown
    <3>6. CASE u = w
      <4>1. PushedMarks' = Append(PushedMarks, "up")
        BY <2>1, <2>2, <2>3, <3>1, <3>6, MarksAreShown
      <4>2. Final(unread, PushedMarks') = Final(unread, PushedMarks) + 1
        BY <1>4, <4>1, FinalAppended DEF Marks
      <4>3. Speaks(w, w) /\ ~HasShown(Officer)
        BY <1>1, <1>3, <1>5, <2>2, <2>3, <3>6
      <4>4. HasShown(w)' /\ ~HasShown(w)
        BY <1>1, <2>3, <3>4, <3>5, <3>6
      <4>5. QED
        BY <1>2, <1>3, <2>1, <2>2, <2>4, <4>2, <4>3, <4>4
    <3>7. CASE u # w
      <4>1. sent[i].by # w
        BY <2>3, <3>7
      <4>2. PushedMarks' = Append(PushedMarks, "none")
        BY <2>1, <2>2, <3>1, <4>1, MarksAreShown
      <4>3. Final(unread, PushedMarks') = Final(unread, PushedMarks)
        BY <1>4, <4>2, FinalAppended DEF Marks
      <4>4. ~HasShown(u)'
        BY <2>3, <3>5, <3>7
      <4>5. (HasShown(w)' <=> HasShown(w)) /\ (HasShown(Officer)' <=> HasShown(Officer))
        BY <1>1, <3>3, <3>4, <3>7, <4>4
      <4>6. QED
        BY <1>2, <1>3, <2>1, <2>2, <2>4, <4>3, <4>5
    <3>8. QED
      BY <3>6, <3>7
  <2>6. CASE handled[u] # "received"
    <3>1. /\ u = Officer /\ handled[u] = "told"
          /\ handled' = [handled EXCEPT ![u] = "shown"] /\ Showing("answered", i)
      BY <1>3, <1>8, <2>2, <2>6 DEF ShowStep
    <3>2. handled'[Officer] = "shown" /\ \A v \in Users : v # Officer => handled'[v] = handled[v]
      BY <3>1 DEF ChatSorts
    <3>3. HasShown(w)' <=> HasShown(w)
      BY <1>1, <2>1, <3>2 DEF HasShown
    <3>4. ~HasShown(Officer)
      BY <3>1 DEF HasShown
    <3>5. HasShown(Officer)' <=> sent[i].of = w
      BY <2>1, <2>2, <3>1, <3>2 DEF HasShown
    <3>6. CASE sent[i].of = w
      <4>1. PushedMarks' = Append(PushedMarks, "reset")
        BY <2>1, <2>2, <3>1, <3>6, MarksAreShown
      <4>2. Final(unread, PushedMarks') = 0
        BY <1>4, <4>1, FinalAppended DEF Marks
      <4>3. ~HasShown(w)
        BY <1>1, <1>3, <1>5, <2>2, <2>3, <3>1, <3>6
      <4>4. QED
        BY <1>2, <2>1, <3>3, <3>5, <3>6, <4>2, <4>3
    <3>7. CASE sent[i].of # w
      <4>1. PushedMarks' = Append(PushedMarks, "none")
        BY <2>1, <2>2, <3>1, <3>7, MarksAreShown
      <4>2. Final(unread, PushedMarks') = Final(unread, PushedMarks)
        BY <1>4, <4>1, FinalAppended DEF Marks
      <4>3. QED
        BY <1>2, <1>3, <2>1, <2>2, <2>4, <3>3, <3>4, <3>5, <3>7, <4>2
    <3>8. QED
      BY <3>6, <3>7
  <2>7. QED
    BY <2>5, <2>6
<1>9. ASSUME NEW u \in Users, NEW i \in DOMAIN sent, NEW p \in Parties, StoreStep(u, i, p)
      PROVE  Final(unread', PushedMarks') = Expected'
  <2>1. /\ i = handling[u][1] /\ p = sent[i].of /\ handling[u] # <<>> /\ handled[u] = "shown"
        /\ i \in Nat
        /\ UNCHANGED <<sent, component, with, pushed, unread, loads>>
    BY <1>9 DEF StoreStep
  <2>2. /\ \A v \in Users : v # u => handling'[v] = handling[v]
        /\ \A q \in Parties : q # p => history'[q] = history[q]
        /\ history' # history => history'[p] = Append(history[p], i)
        /\ disturbed => disturbed'
        /\ history' = history /\ with = p => disturbed'
        /\ \A v \in Users : v # u => handled'[v] = handled[v]
        /\ handled'[u] = "received"
    BY <1>9, StoresOne
  <2>3. Loaded
    BY <2>1, <2>2
  <2>4. sent[i].by = u /\ Speaks(u, p) /\ (u # Officer => p = u)
    BY <2>1, FirstSpeaks
  <2>5. PushedMarks' = PushedMarks
    BY <2>1 DEF PushedMarks, Mark
  <2>6. \A v \in Users : v # u => (HasShown(v)' <=> HasShown(v))
    BY <2>1, <2>2 DEF HasShown
  <2>7. ~HasShown(u)' /\ (HasShown(u) <=> p = w)
    BY <2>1, <2>2, <2>3 DEF HasShown
  <2>8. CASE p # w
    <3>1. UnreadMessages(history[w])' = unreadNow
      <4>1. history'[w] = history[w] /\ sent' = sent
        BY <2>1, <2>2, <2>8
      <4>2. QED
        BY <4>1 DEF UnreadMessages
    <3>2. Same
      BY <2>6, <2>7, <2>8
    <3>3. QED
      BY <1>6, <2>1, <2>3, <2>5, <3>1, <3>2
  <2>9. CASE p = w
    <3>1. history'[w] = Append(history[w], i)
      BY <2>2, <2>3, <2>9
    <3>2. UnreadMessages(history[w])' = UnreadMessages(Append(history[w], i))
      BY <2>1, <3>1 DEF UnreadMessages
    <3>3. UnreadMessages(Append(history[w], i)) = IF u = Officer THEN 0 ELSE unreadNow + 1
      BY <1>4, <2>1, <2>4, UnreadAppended
    <3>4. u = w \/ u = Officer
      BY <2>4, <2>9
    <3>5. ~HasShown(w)' /\ ~HasShown(Officer)'
      BY <1>1, <1>3, <1>5, <2>3, <2>4, <2>6, <2>7, <2>9, <3>4
    <3>6. HasShown(w) <=> u = w
      BY <1>1, <1>3, <1>5, <2>3, <2>4, <2>7, <2>9, <3>4
    <3>7. u = Officer => HasShown(Officer)
      BY <2>7, <2>9
    <3>8. QED
      BY <1>1, <1>2, <1>3, <2>1, <2>3, <2>5, <3>2, <3>3, <3>4, <3>5, <3>6, <3>7
  <2>10. QED
    BY <2>8, <2>9
<1>10. CASE HandleStep
  <2>1. UNCHANGED <<sent, handling, handled, history, component, with, loads, disturbed>>
    BY <1>10 DEF HandleStep
  <2>2. Loaded /\ counted
    BY <1>3, <2>1
  <2>3. UpdateUnreadCounter(pushed[1])
    BY <1>10, <2>2 DEF HandleStep, CountMessage
  <2>4. PushedMarks # <<>> /\ PushedMarks[1] = Mark(pushed[1]) /\ PushedMarks' = Tail(PushedMarks)
    BY <1>10, MarksAreTaken
  <2>5. Final(unread', PushedMarks') = Final(unread, PushedMarks)
    <3>1. /\ PushedMarks[1] = "up" =>
               Final(unread + 1, Tail(PushedMarks)) = Final(unread, PushedMarks)
          /\ PushedMarks[1] = "reset" =>
               Final(0, Tail(PushedMarks)) = Final(unread, PushedMarks)
          /\ PushedMarks[1] = "none" =>
               Final(unread, Tail(PushedMarks)) = Final(unread, PushedMarks)
      BY <1>4, <2>4, FinalTaken
    <3>2. \/ PushedMarks[1] = "up" /\ unread' = unread + 1
          \/ PushedMarks[1] = "reset" /\ unread' = 0
          \/ PushedMarks[1] = "none" /\ unread' = unread
      BY <2>3, <2>4 DEF Mark, UpdateUnreadCounter
    <3>3. QED
      BY <2>4, <3>1, <3>2
  <2>6. Same /\ UnreadMessages(history[w])' = unreadNow
    BY <2>1 DEF HasShown, UnreadMessages
  <2>7. QED
    BY <1>1, <1>2, <1>3, <2>2, <2>5, <2>6
<1>11. CASE HubMisses
  <2>1. /\ pushed' = <<>>
        /\ disturbed' = (disturbed \/ \E n \in DOMAIN pushed : pushed[n].of = with)
        /\ UNCHANGED <<sent, handling, handled, history, component, with, unread, loads>>
    BY <1>11, Misses
  <2>2. Loaded /\ \A n \in DOMAIN pushed : pushed[n].of # with
    BY <2>1
  <2>3. Final(unread, PushedMarks) = unread
    BY <1>4, <2>2, QuietMarks, FinalUnmarked
  <2>4. Final(unread, PushedMarks') = unread
    <3>1. \A n \in DOMAIN PushedMarks' : (PushedMarks')[n] = "none"
      BY <2>1 DEF PushedMarks
    <3>2. QED
      BY <1>4, <3>1, FinalUnmarked
  <2>5. Same /\ UnreadMessages(history[w])' = unreadNow
    BY <2>1 DEF HasShown, UnreadMessages
  <2>6. QED
    BY <1>1, <1>2, <1>3, <2>1, <2>2, <2>3, <2>4, <2>5
<1>12. ASSUME NEW p \in Parties, OpenStep(p) PROVE FALSE
  BY <1>12 DEF OpenStep
<1>13. ASSUME NEW n \in DOMAIN loads, ReadHistory(n) PROVE FALSE
  BY <1>13, AHistoryIsRead
<1>14. ASSUME NEW n \in DOMAIN loads, HandleHistoryResponse(n)
       PROVE  Final(unread', PushedMarks') = Expected'
  <2>1. /\ loads # <<>> /\ loads[n].read
        /\ Len(loads) = 1 => n = 1
        /\ loads' = <<>> <=> Len(loads) = 1
        /\ UNCHANGED <<sent, handling, handled, history, pushed, component, with, disturbed>>
    BY <1>14, Responds
  <2>2. n = 1 /\ NothingUnderWay(w) /\ loads[1].ids = history[w]
    BY <2>1 DEF HistoryIsLoaded
  <2>3. unread' = unreadNow /\ unread' \in Nat
    BY <1>14, <2>1, <2>2, AMessageIsShown
  <2>4. PushedMarks' = PushedMarks
    BY <2>1 DEF PushedMarks, Mark
  <2>5. Final(unread', PushedMarks) = unread'
    BY <2>1, <2>2, <2>3, QuietMarks, FinalUnmarked DEF NothingUnderWay
  <2>6. ~HasShown(w) /\ ~HasShown(Officer)
    BY <1>1, <1>5, <2>1, <2>2 DEF NothingUnderWay
  <2>7. Same /\ UnreadMessages(history[w])' = unreadNow
    BY <2>1 DEF HasShown, UnreadMessages
  <2>8. QED
    BY <1>1, <1>2, <2>3, <2>4, <2>5, <2>6, <2>7
<1>15. CASE UNCHANGED chatVars
  <2>1. UNCHANGED <<sent, handling, handled, history, pushed, component, with, disturbed, unread,
                    loads>>
    BY <1>15 DEF chatVars, hubSide, componentVars, contents
  <2>2. Loaded /\ Same /\ PushedMarks' = PushedMarks /\ UnreadMessages(history[w])' = unreadNow
    BY <2>1 DEF HasShown, UnreadMessages, PushedMarks, Mark
  <2>3. QED
    BY <1>6, <2>1, <2>2
<1>16. QED
  BY <1>7, <1>8, <1>9, <1>10, <1>11, <1>12, <1>13, <1>14, <1>15 DEF ChatMove

-----------------------------------------------------------------------------
ChatInv ==
  /\ ChatFlags /\ ChatSorts
  /\ MessagesAreKnown /\ HandledOnce /\ ViewerIsTold
  /\ OneSideSpeaks /\ HistoryIsLoaded
  /\ WindowIsLoaded /\ CountIsLoaded

LEMMA ChatInitInv == ChatInit => ChatInv
<1> SUFFICES ASSUME ChatInit PROVE ChatInv
  OBVIOUS
<1> USE InstantMessagesAssumption DEF ChatInit
<1>1. ChatFlags
  BY DEF ChatFlags
<1>2. ChatSorts
  BY EmptySeq DEF ChatSorts, Users, Nobody, Steps
<1>3. MessagesAreKnown
  BY DEF MessagesAreKnown
<1>4. HandledOnce
  BY DEF HandledOnce
<1>5. ViewerIsTold /\ OneSideSpeaks /\ HistoryIsLoaded /\ CountIsLoaded
  BY DEF ViewerIsTold, OneSideSpeaks, HistoryIsLoaded, CountIsLoaded
<1>6. WindowIsLoaded
  <2>1. with \in Parties =>
          \A j : ~IsStored(j) /\ ~IsGoing(j) /\ ~InWindow(j) /\ ~IsComing(j)
    BY DEF IsStored, IsGoing, GoesOut, InWindow, IsComing, Coming, Users
  <2>2. QED
    BY <2>1 DEF WindowIsLoaded
<1>7. QED
  BY <1>1, <1>2, <1>3, <1>4, <1>5, <1>6 DEF ChatInv

LEMMA ChatNextInv == ChatInv /\ [ChatNext]_chatVars => ChatInv'
<1> SUFFICES ASSUME ChatInv, [ChatNext]_chatVars PROVE ChatInv'
  OBVIOUS
<1>1. /\ ChatFlags /\ ChatSorts /\ MessagesAreKnown /\ HandledOnce /\ ViewerIsTold
      /\ OneSideSpeaks /\ HistoryIsLoaded /\ WindowIsLoaded /\ CountIsLoaded
  BY DEF ChatInv
<1>2. ChatMove
  BY <1>1, ChatMoves
<1>3. ChatFlags' /\ ChatSorts' /\ MessagesAreKnown'
  BY <1>1, <1>2, ChatFlagsStep, ChatSortsStep, MessagesAreKnownStep
<1>4. HandledOnce' /\ ViewerIsTold'
  BY <1>1, <1>2, HandledOnceStep, ViewerIsToldStep
<1>5. OneSideSpeaks' /\ HistoryIsLoaded'
  BY <1>1, <1>2, OneSideSpeaksStep, HistoryIsLoadedStep
<1>6. WindowIsLoaded' /\ CountIsLoaded'
  BY <1>1, <1>2, WindowIsLoadedStep, CountIsLoadedStep
<1>7. QED
  BY <1>3, <1>4, <1>5, <1>6 DEF ChatInv

\* Sequences of the same elements, each once, are of the same length.
LEMMA SameLength ==
  ASSUME NEW S, NEW T, NEW s \in Seq(S), NEW t \in Seq(T), NEW f,
         DOMAIN f = DOMAIN s,
         \A m, n \in DOMAIN s : f[m] = f[n] => m = n,
         \A m, n \in DOMAIN t : t[m] = t[n] => m = n,
         \A n \in DOMAIN s : \E k \in DOMAIN t : t[k] = f[n],
         \A k \in DOMAIN t : \E n \in DOMAIN s : t[k] = f[n]
  PROVE  Len(s) = Len(t)
<1>1. Len(s) \in Nat /\ DOMAIN s = 1..Len(s) /\ Len(t) \in Nat /\ DOMAIN t = 1..Len(t)
  BY Sizes
<1> DEFINE g == [n \in 1..Len(s) |-> CHOOSE k \in 1..Len(t) : t[k] = f[n]]
<1>2. \A n \in 1..Len(s) : g[n] \in 1..Len(t) /\ t[g[n]] = f[n]
  BY <1>1
<1>3. g \in [1..Len(s) -> 1..Len(t)]
  BY <1>2
<1> HIDE DEF g
<1>4. \A m, n \in 1..Len(s) : g[m] = g[n] => m = n
  BY <1>1, <1>2
<1>5. \A k \in 1..Len(t) : \E n \in 1..Len(s) : g[n] = k
  BY <1>1, <1>2
<1>6. g \in Bijection(1..Len(s), 1..Len(t))
  BY <1>3, <1>4, <1>5 DEF Bijection, Injection, Surjection, IsInjective
<1>7. IsFiniteSet(1..Len(s)) /\ Cardinality(1..Len(s)) = Len(s)
      /\ Cardinality(1..Len(t)) = Len(t)
  <2>1. ASSUME NEW n \in Nat PROVE IsFiniteSet(1..n) /\ Cardinality(1..n) = n
    <3>1. 1 \in Int /\ n \in Int
      OBVIOUS
    <3>2. IsFiniteSet(1..n) /\ Cardinality(1..n) = IF 1 > n THEN 0 ELSE n - 1 + 1
      BY <3>1, FS_Interval, Zenon
    <3>3. QED
      BY <3>2
  <2>2. QED
    BY <1>1, <2>1
<1>8. Cardinality(1..Len(t)) = Cardinality(1..Len(s))
  BY <1>6, <1>7, FS_Bijection DEF ExistsBijection
<1>9. QED
  BY <1>7, <1>8

\* At rest nothing is coming or going.
LEMMA AtRestIs ==
  ASSUME ChatInv, AtRest
  PROVE  /\ with \in Parties /\ loads = <<>> /\ ~disturbed
         /\ \A n : ~Coming(n)
         /\ \A n \in DOMAIN pushed : pushed[n].of # with
         /\ \A u \in Users : ~HasShown(u) /\ \A i : ~GoesOut(u, i)
<1>1. with \in Parties /\ loads = <<>> /\ ~disturbed /\ NothingUnderWay(with)
  BY NothingUnderWayIs DEF AtRest, ChatInv, ChatSorts
<1>2. ASSUME NEW u \in Users, handling[u] # <<>> PROVE sent[handling[u][1]].of # with
  <2>1. 1 \in DOMAIN handling[u]
    BY <1>2, Firsts DEF ChatInv
  <2>2. QED
    BY <1>1, <2>1 DEF NothingUnderWay, Speaks
<1>3. QED
  BY <1>1, <1>2 DEF NothingUnderWay, Coming, HasShown, GoesOut

LEMMA ChatInvSafe == ChatInv => ChatTypeOK /\ ConversationIsShown /\ UnreadIsCounted
<1> SUFFICES ASSUME ChatInv PROVE ChatTypeOK /\ ConversationIsShown /\ UnreadIsCounted
  OBVIOUS
<1>1. ChatFlags /\ ChatSorts /\ MessagesAreKnown /\ HandledOnce
  BY DEF ChatInv
<1>2. ChatTypeOK
  <2>1. ASSUME NEW s \in Seq(Nat), \A n \in DOMAIN s : s[n] \in DOMAIN sent
        PROVE  s \in Seq(DOMAIN sent)
    <3>1. s \in [1..Len(s) -> DOMAIN sent] /\ Len(s) \in Nat
      BY <2>1, LenProperties
    <3>2. QED
      BY <3>1
  <2>2. history \in [Parties -> Seq(DOMAIN sent)]
    BY <1>1, <2>1 DEF ChatSorts, MessagesAreKnown
  <2>3. \A u \in Users : handling[u] \in Seq(DOMAIN sent)
    BY <1>1, <2>1 DEF ChatSorts, MessagesAreKnown
  <2>4. pushed \in Seq([kind : {"message", "answered"}, id : DOMAIN sent, of : Parties])
    <3>1. pushed \in Seq(Shows) /\ Len(pushed) \in Nat /\ DOMAIN pushed = 1..Len(pushed)
          /\ \A n \in DOMAIN pushed : pushed[n] \in Shows /\ pushed[n].id \in DOMAIN sent
      BY <1>1, Sizes DEF ChatSorts, MessagesAreKnown
    <3>2. \A n \in DOMAIN pushed :
            pushed[n] \in [kind : {"message", "answered"}, id : DOMAIN sent, of : Parties]
      BY <3>1 DEF Shows
    <3>3. pushed \in [1..Len(pushed) ->
                        [kind : {"message", "answered"}, id : DOMAIN sent, of : Parties]]
      BY <3>1, <3>2, LenProperties
    <3>4. QED
      BY <3>1, <3>3, IsSeq
  <2>5. inWindow \in Seq([id : DOMAIN sent, live : BOOLEAN])
    <3>1. inWindow \in Seq(Lines) /\ Len(inWindow) \in Nat /\ DOMAIN inWindow = 1..Len(inWindow)
          /\ \A n \in DOMAIN inWindow : inWindow[n] \in Lines /\ inWindow[n].id \in DOMAIN sent
      BY <1>1, Sizes DEF ChatSorts, MessagesAreKnown
    <3>2. \A n \in DOMAIN inWindow : inWindow[n] \in [id : DOMAIN sent, live : BOOLEAN]
      BY <3>1 DEF Lines
    <3>3. inWindow \in [1..Len(inWindow) -> [id : DOMAIN sent, live : BOOLEAN]]
      BY <3>1, <3>2, LenProperties
    <3>4. QED
      BY <3>1, <3>3, IsSeq
  <2>6. /\ Len(sent) <= MaxSent /\ opened <= MaxOpened
        /\ viewer \in Users \cup {Nobody} /\ with \in Parties \cup {Nobody}
        /\ component \in {"window", "count"} /\ handled \in [Users -> Steps] /\ unread \in Nat
    BY <1>1, InstantMessagesAssumption DEF ChatSorts
  <2>7. {counted, disturbed} \subseteq BOOLEAN
    BY <1>1, Zenon DEF ChatFlags
  <2>8. QED
    BY <2>2, <2>3, <2>4, <2>5, <2>6, <2>7, Zenon DEF ChatTypeOK
<1>3. ConversationIsShown
  <2> SUFFICES ASSUME AtRest, component = "window"
               PROVE  /\ {m.id : m \in Range(inWindow)} = Range(history[with])
                      /\ Len(inWindow) = Len(history[with])
    BY DEF ConversationIsShown
  <2>1. /\ with \in Parties /\ loads = <<>> /\ ~disturbed /\ \A n : ~Coming(n)
        /\ \A u \in Users : \A i : ~GoesOut(u, i)
    BY AtRestIs
  <2>2. \A i : ~IsComing(i) /\ ~IsGoing(i)
    BY <2>1 DEF IsComing, IsGoing
  <2>3. /\ \A i \in Nat : InWindow(i) <=> IsStored(i)
        /\ \A m, n \in DOMAIN inWindow : inWindow[m].id = inWindow[n].id => m = n
    BY <2>1, <2>2 DEF ChatInv, WindowIsLoaded
  <2>4. /\ history[with] \in Seq(Nat) /\ inWindow \in Seq(Lines)
        /\ \A n \in DOMAIN history[with] : history[with][n] \in Nat
        /\ \A m, n \in DOMAIN history[with] : history[with][m] = history[with][n] => m = n
    BY <1>1, <2>1, Sizes DEF ChatSorts, HandledOnce
  <2>5. \A n \in DOMAIN inWindow : inWindow[n].id \in Nat
    <3>1. \A n \in DOMAIN inWindow : inWindow[n] \in Lines
      BY <2>4, Sizes
    <3>2. QED
      BY <3>1 DEF Lines
  <2>6. /\ \A n \in DOMAIN inWindow : \E k \in DOMAIN history[with] :
             history[with][k] = inWindow[n].id
        /\ \A k \in DOMAIN history[with] : \E n \in DOMAIN inWindow :
             history[with][k] = inWindow[n].id
    BY <2>3, <2>4, <2>5 DEF InWindow, IsStored
  <2>7. {m.id : m \in Range(inWindow)} = Range(history[with])
    BY <2>6 DEF Range
  <2>8. Len(inWindow) = Len(history[with])
    <3> DEFINE f == [n \in DOMAIN inWindow |-> inWindow[n].id]
    <3>1. DOMAIN f = DOMAIN inWindow /\ \A n \in DOMAIN inWindow : f[n] = inWindow[n].id
      OBVIOUS
    <3> DEFINE h == history[with]
    <3> HIDE DEF f
    <3>2. /\ h \in Seq(Nat)
          /\ \A m, n \in DOMAIN inWindow : f[m] = f[n] => m = n
          /\ \A m, n \in DOMAIN h : h[m] = h[n] => m = n
          /\ \A n \in DOMAIN inWindow : \E k \in DOMAIN h : h[k] = f[n]
          /\ \A k \in DOMAIN h : \E n \in DOMAIN inWindow : h[k] = f[n]
      <4>1. \A m, n \in DOMAIN inWindow : f[m] = f[n] => m = n
        BY <2>3, <3>1
      <4>2. \A n \in DOMAIN inWindow : \E k \in DOMAIN h : h[k] = f[n]
        BY <2>6, <3>1
      <4>3. \A k \in DOMAIN h : \E n \in DOMAIN inWindow : h[k] = f[n]
        BY <2>6, <3>1
      <4>4. QED
        BY <2>4, <4>1, <4>2, <4>3
    <3> HIDE DEF h
    <3>3. Len(inWindow) = Len(h)
      BY <2>4, <3>1, <3>2, SameLength
    <3>4. QED
      BY <3>3 DEF h
  <2>9. QED
    BY <2>7, <2>8
<1>4. UnreadIsCounted
  <2> SUFFICES ASSUME AtRest, component = "count" PROVE unread = UnreadMessages(history[with])
    BY DEF UnreadIsCounted
  <2>1. /\ with \in Parties /\ loads = <<>> /\ ~disturbed
        /\ \A n \in DOMAIN pushed : pushed[n].of # with
        /\ \A u \in Users : ~HasShown(u)
    BY AtRestIs
  <2>2. Final(unread, PushedMarks) = unread
    BY <1>1, <2>1, QuietMarks, FinalUnmarked DEF ChatSorts
  <2>3. Expected = UnreadMessages(history[with])
    BY <2>1 DEF Expected, Users
  <2>4. QED
    BY <2>1, <2>2, <2>3 DEF ChatInv, CountIsLoaded
<1>5. QED
  BY <1>2, <1>3, <1>4

\* However messages are sent, shown and stored, windows and counts are opened and
\* loaded, and connections lost: a window at rest shows each message stored of its
\* conversation once and no other, and a count is the one the server would compute,
\* unless something came between the load and its answer, was missed or not stored,
\* or both sides spoke at once.
THEOREM ChatSpecSafe ==
  ChatSpec => [](ChatTypeOK /\ ConversationIsShown /\ UnreadIsCounted)
<1>1. ChatInit => ChatInv
  BY ChatInitInv
<1>2. ChatInv /\ [ChatNext]_chatVars => ChatInv'
  BY ChatNextInv
<1>3. ChatInv => ChatTypeOK /\ ConversationIsShown /\ UnreadIsCounted
  BY ChatInvSafe
<1>4. QED
  BY <1>1, <1>2, <1>3, PTL DEF ChatSpec
=============================================================================
