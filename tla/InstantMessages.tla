--------------------------- MODULE InstantMessages ---------------------------
(***************************************************************************)
(* The instant messages between the people of a hearing and a video        *)
(* hearings officer: the hub that shows and stores them (EventHubClient.cs,*)
(* InstantMessagesController.cs), the chat windows (chat-base.component.ts,*)
(* chat-window-base.ts, vho-chat.component.ts) and the officer's counts of *)
(* unread messages (unread-messages-participant.component.ts).             *)
(*                                                                         *)
(* The hub shows a message before it stores it, and a page asks for the    *)
(* history while the hub goes on showing messages.  One component of one   *)
(* user's page is looked at.  A message the hub could not be given stays   *)
(* pending in the window for good, and is left out; whether a window is    *)
(* open or folded, too.                                                    *)
(***************************************************************************)
EXTENDS Naturals, Sequences, FiniteSets, SequencesExt

CONSTANTS
  Parties,        \* the people of the hearing
  Officer,
  MaxSent,        \* bound on the messages of a behaviour
  MaxOpened       \* bound on the components opened and connections lost

ASSUME InstantMessagesAssumption ==
  Officer \notin Parties /\ MaxSent \in Nat /\ MaxOpened \in Nat

Users == Parties \cup {Officer}
Nobody == "nobody"

VARIABLES
  sent,           \* every message: whom it concerns, and who sent it
  handling,       \* handling[u]: the messages of u's connection, the first of
                  \* which SendMessage is handling
  handled,        \* what it has done with it, by user
  history,        \* history[p]: the messages the Video API has stored of p, in
                  \* that order
  viewer,         \* whose page it is
  component,      \* a "window", or the "count" of the officer's
  with,           \* the person it is for
  pushed,         \* hub messages on their way to the viewer
  inWindow,       \* the messages in the window; one that came from the history
                  \* has no id there
  unread,         \* the count
  counted,        \* it has come
  loads,          \* requests for the history, or its count, the oldest first
  opened,         \* bounded by MaxOpened
  disturbed       \* history: something happened while the component was being
                  \* loaded, or it has missed something, or see Crossing

hubSide == <<handling, handled, history>>
contents == <<inWindow, unread, counted>>
componentVars == <<component, with, contents, loads, disturbed>>
chatVars == <<sent, hubSide, viewer, pushed, componentVars, opened>>

Steps == {"received", "told", "shown"}

\* u's connection has a message of p's yet to handle.
Handles(u, p) == \E i \in Range(handling[u]) : sent[i].of = p

\* Something of p's is being sent, handled or shown.
UnderWay(p) ==
  \/ \E u \in Users : Handles(u, p)
  \/ \E m \in Range(pushed) : m.of = p

-----------------------------------------------------------------------------
(***************************************************************************)
(* The hub.                                                                *)
(***************************************************************************)
\* The messages of both sides cross: which of them is the last is not the same
\* for everybody.
Crossing(p, sender) ==
  component = "count" /\ Handles(IF sender = Officer THEN p ELSE Officer, p)

\* A connection handles one call at a time.
SendInstantMessage(p, sender) ==
  /\ Len(sent) < MaxSent
  /\ viewer # Nobody
  /\ viewer = Officer /\ component = "window" /\ sender = Officer => with = p
  /\ sent' = Append(sent, [of |-> p, by |-> sender])
  /\ handling' = [handling EXCEPT ![sender] = Append(@, Len(sent) + 1)]
  /\ disturbed' =
       (disturbed \/ (with = p /\ (loads # <<>> \/ Crossing(p, sender))))
  /\ UNCHANGED <<handled, history, viewer, component, with, pushed, contents,
                 loads, opened>>

Push(kind, i) ==
  pushed' = Append(pushed, [kind |-> kind, id |-> i, of |-> sent[i].of])

Handling(u, step) == handling[u] # <<>> /\ handled[u] = step
Handled(u, step) == handled' = [handled EXCEPT ![u] = step]

\* SendToAdmin and SendToParticipant: the officers are told, then the person;
\* the viewer is one of them or neither.
SendToViewer(u) ==
  /\ Handling(u, "received")
  /\ Handled(u, IF u = Officer THEN "told" ELSE "shown")
  /\ IF viewer \in {Officer, sent[Head(handling[u])].of}
       THEN Push("message", Head(handling[u]))
       ELSE UNCHANGED pushed

AdminAnsweredChat ==
  /\ Handling(Officer, "told")
  /\ Handled(Officer, "shown")
  /\ IF viewer = Officer THEN Push("answered", Head(handling[Officer]))
                         ELSE UNCHANGED pushed

SendMessage(u) ==
  /\ SendToViewer(u) \/ (u = Officer /\ AdminAnsweredChat)
  /\ UNCHANGED <<sent, handling, history, viewer, componentVars, opened>>

\* AddInstantMessageToConferenceAsync, after everybody has seen the message.
StoreMessage(u) ==
  /\ Handling(u, "shown")
  /\ Handled(u, "received")
  /\ handling' = [handling EXCEPT ![u] = Tail(@)]
  /\ LET p == sent[Head(handling[u])].of
     IN  \/ /\ history' = [history EXCEPT ![p] = Append(@, Head(handling[u]))]
            /\ UNCHANGED <<disturbed, opened>>
         \/ /\ opened < MaxOpened /\ opened' = opened + 1
            /\ disturbed' = (disturbed \/ with = p)
            /\ UNCHANGED history
  /\ UNCHANGED <<sent, viewer, component, with, pushed, contents, loads>>

-----------------------------------------------------------------------------
(***************************************************************************)
(* The components.                                                         *)
(***************************************************************************)
\* Mutant: a message is shown whichever conversation is open.
IsMessageForAnyone(i) == [id |-> i, live |-> TRUE] \notin Range(inWindow)

\* The message has not come before, and is of the person the window is for.
IsMessageRecipientForUser(i) ==
  [id |-> i, live |-> TRUE] \notin Range(inWindow) /\ sent[i].of = with

ShowMessage(m) ==
  /\ inWindow' = IF m.kind = "message" /\ IsMessageRecipientForUser(m.id)
                   THEN Append(inWindow, [id |-> m.id, live |-> TRUE])
                   ELSE inWindow
  /\ UNCHANGED <<unread, counted>>

\* Mutant: an answer does not reset the count.
IncrementUnreadCounterOnly(m) ==
  unread' = IF m.kind = "message" /\ sent[m.id].by = with THEN unread + 1 ELSE unread

\* incrementUnreadCounter and resetUnreadCounter
UpdateUnreadCounter(m) ==
  unread' = IF m.kind = "answered" /\ m.of = with THEN 0
            ELSE IF m.kind = "message" /\ sent[m.id].by = with THEN unread + 1
            ELSE unread

\* A count that has not come cannot be changed: an error is logged.
CountMessage(m) ==
  /\ IF counted THEN UpdateUnreadCounter(m) ELSE UNCHANGED unread
  /\ UNCHANGED <<inWindow, counted>>

HandleIncomingMessage ==
  /\ pushed # <<>>
  /\ pushed' = Tail(pushed)
  /\ \/ component = "window" /\ ShowMessage(Head(pushed))
     \/ component = "count" /\ CountMessage(Head(pushed))
  /\ UNCHANGED <<sent, hubSide, viewer, component, with, loads, opened, disturbed>>

\* A connection that is made anew gets nothing of what it missed.
HubMisses ==
  /\ pushed # <<>>
  /\ opened < MaxOpened
  /\ opened' = opened + 1
  /\ pushed' = <<>>
  /\ disturbed' = (disturbed \/ \E m \in Range(pushed) : m.of = with)
  /\ UNCHANGED <<sent, hubSide, viewer, component, with, contents, loads>>

\* A component that is made asks for the history, while the requests "others"
\* go on.
OpenComponent(kind, p, others) ==
  /\ opened < MaxOpened
  /\ opened' = opened + 1
  /\ component' = kind /\ with' = p
  /\ inWindow' = <<>> /\ unread' = 0 /\ counted' = FALSE
  /\ loads' = Append(others, [of |-> p, read |-> FALSE, ids |-> <<>>])
  /\ disturbed' = (others # <<>> \/ UnderWay(p))

\* updateChatWindow, when the officer selects a person or another.
SelectParticipant(p) ==
  /\ viewer \in {Nobody, Officer} /\ component = "window" /\ with # p
  /\ viewer' = Officer
  /\ OpenComponent("window", p, loads)
  /\ UNCHANGED <<sent, hubSide, pushed>>

\* ngOnInit of the window of p's own page.
OpenChat(p) ==
  /\ viewer \in {Nobody, p}
  /\ viewer' = p
  /\ pushed' = <<>>
  /\ OpenComponent("window", p, <<>>)
  /\ UNCHANGED <<sent, hubSide>>

\* ngOnInit of the count of p's messages, in the officer's list of people.
OpenCount(p) ==
  /\ viewer \in {Nobody, Officer}
  /\ viewer' = Officer
  /\ OpenComponent("count", p, <<>>)
  /\ UNCHANGED <<sent, hubSide, pushed>>

\* The Video API reads the history of a person.
ReadHistory(n) ==
  /\ ~loads[n].read
  /\ loads' = [loads EXCEPT ![n].read = TRUE,
                            ![n].ids = history[loads[n].of]]
  /\ UNCHANGED <<sent, hubSide, viewer, pushed, component, with, contents,
                 disturbed, opened>>

\* UnreadAdminMessageResponseMapper: the messages since the last that is not
\* the person's own.
UnreadMessages(ids) ==
  LET answers == {n \in DOMAIN ids : sent[ids[n]].by = Officer}
  IN  Cardinality({n \in DOMAIN ids : \A a \in answers : n > a})

\* An answer takes the place of what is shown, whichever request it is to.
HandleHistoryResponse(n) ==
  /\ loads[n].read
  /\ LET ids == loads[n].ids
     IN  \/ /\ component = "window"
            /\ inWindow' = [k \in DOMAIN ids |-> [id |-> ids[k], live |-> FALSE]]
            /\ UNCHANGED <<unread, counted>>
         \/ /\ component = "count"
            /\ unread' = UnreadMessages(ids)
            /\ counted' = TRUE
            /\ UNCHANGED inWindow
  /\ loads' = RemoveAt(loads, n)
  /\ UNCHANGED <<sent, hubSide, viewer, pushed, component, with, disturbed, opened>>

ChatInit ==
  /\ sent = <<>>
  /\ handling = [u \in Users |-> <<>>] /\ handled = [u \in Users |-> "received"]
  /\ history = [p \in Parties |-> <<>>]
  /\ viewer = Nobody /\ component = "window" /\ with = Nobody
  /\ pushed = <<>>
  /\ inWindow = <<>> /\ unread = 0 /\ counted = FALSE
  /\ loads = <<>>
  /\ opened = 0
  /\ disturbed = FALSE

ChatNext ==
  \/ \E p \in Parties :
       \/ SendInstantMessage(p, p) \/ SendInstantMessage(p, Officer)
       \/ SelectParticipant(p) \/ OpenChat(p) \/ OpenCount(p)
  \/ \E u \in Users : SendMessage(u) \/ StoreMessage(u)
  \/ HandleIncomingMessage \/ HubMisses
  \/ \E n \in DOMAIN loads : ReadHistory(n) \/ HandleHistoryResponse(n)

ChatSpec == ChatInit /\ [][ChatNext]_chatVars

-----------------------------------------------------------------------------
(***************************************************************************)
(* Properties.                                                             *)
(***************************************************************************)
ChatTypeOK ==
  /\ Len(sent) <= MaxSent /\ opened <= MaxOpened
  /\ history \in [Parties -> Seq(DOMAIN sent)]
  /\ viewer \in Users \cup {Nobody} /\ with \in Parties \cup {Nobody}
  /\ component \in {"window", "count"}
  /\ handled \in [Users -> Steps]
  /\ \A u \in Users : handling[u] \in Seq(DOMAIN sent)
  /\ pushed \in Seq([kind : {"message", "answered"}, id : DOMAIN sent,
                     of : Parties])
  /\ inWindow \in Seq([id : DOMAIN sent, live : BOOLEAN])
  /\ unread \in Nat
  /\ {counted, disturbed} \subseteq BOOLEAN

AtRest == with # Nobody /\ ~UnderWay(with) /\ loads = <<>> /\ ~disturbed

\* A window whose conversation is at rest shows every message of it that is
\* stored, each once, and none of another conversation - unless a message or
\* another conversation got in the way while it was being loaded, a message
\* was missed, or one could not be stored.
ConversationIsShown ==
  AtRest /\ component = "window" =>
    /\ {m.id : m \in Range(inWindow)} = Range(history[with])
    /\ Len(inWindow) = Len(history[with])

\* The officer's count of a person's unread messages, raised and reset by what
\* the hub shows, is the one the server would compute from the history, with
\* the same exceptions and when the messages of both sides do not cross.
UnreadIsCounted ==
  AtRest /\ component = "count" => unread = UnreadMessages(history[with])
=============================================================================
