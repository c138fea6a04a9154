---------------------------- MODULE HearingLayout ----------------------------
(***************************************************************************)
(* The layout of a hearing (HearingLayoutService.cs, hearing-layout.service.*)
(* ts): the hosts' requests to change it, which write it to the cache and  *)
(* then tell the hosts, and the client of one host, which shows it from the *)
(* messages it hears and from the two loads of its service:                *)
(*   "watch"   the load of a hearing that has been opened; the service     *)
(*             listens to the messages only once it has arrived            *)
(*   "reload"  the load each time the hub connects, which waits for the    *)
(*             hearing to be open                                          *)
(* A hearing is started with the layout that is shown.                     *)
(***************************************************************************)
EXTENDS Naturals, Sequences

CONSTANTS
  Layouts,
  NoLayout,        \* nobody has chosen: the cache has no entry
  LayoutRequests,  \* the requests to change it that may run at a time
  MaxLayoutActs,   \* bound on the changes in a behaviour
  MaxCuts          \* bound on the failures of the hub and the departures

ASSUME HearingLayoutAssumption ==
  /\ Layouts # {} /\ NoLayout \notin Layouts
  /\ Layouts \cap {"idle", "waiting", "sent", "dead"} = {}
  /\ MaxLayoutActs \in Nat /\ MaxCuts \in Nat

VARIABLES
  layoutStored,    \* the entry of the cache
  telling,         \* what each request has written and will tell
  layoutsTold,     \* on their way to the client, the oldest first
  layoutHub,       \* the client's hub is connected
  hearingOpen,     \* the active conference is the hearing
  layoutLoads,     \* the two loads; an answer on its way is the layout it says
  stale,           \* history: a message came or was lost after the answer
  listening,       \* the service hears the messages
  layoutShown,     \* currentLayoutSubject
  misled,          \* history: it was shown from a late message or answer
  layoutActs, cuts \* bounded by MaxLayoutActs, MaxCuts

serverLayout == <<layoutStored, telling>>
serviceLayout == <<layoutLoads, stale, listening, layoutShown, misled>>
layoutVars == <<serverLayout, layoutsTold, layoutHub, hearingOpen,
                serviceLayout, layoutActs, cuts>>

Loads == {"watch", "reload"}
OnItsWay(k) == layoutLoads[k] \in Layouts
Quiet == [layout |-> NoLayout, late |-> FALSE]
Messages == [layout : Layouts, late : BOOLEAN]

\* A message that will not be in the answers which are already on their way
MarkStale == stale' = [k \in Loads |-> stale[k] \/ OnItsWay(k)]

---------------------------------------------------------------------------
\* UpdateLayout as far as the write: those who wrote before and have not told
\* it yet will tell it late.
UpdateLayout(r, l) ==
  /\ layoutActs < MaxLayoutActs /\ layoutActs' = layoutActs + 1
  /\ telling[r] = Quiet
  /\ layoutStored' = l
  /\ telling' = [q \in LayoutRequests |->
                   IF q = r THEN [layout |-> l, late |-> FALSE]
                   ELSE IF telling[q] = Quiet THEN Quiet
                   ELSE [telling[q] EXCEPT !.late = TRUE]]
  /\ UNCHANGED <<layoutsTold, layoutHub, hearingOpen, serviceLayout, cuts>>

\* HearingLayoutChanged to the group of every host: lost when the hub is cut
TellHosts(r) ==
  /\ telling[r] # Quiet
  /\ telling' = [telling EXCEPT ![r] = Quiet]
  /\ IF layoutHub
       THEN layoutsTold' = Append(layoutsTold, telling[r]) /\ UNCHANGED stale
       ELSE UNCHANGED layoutsTold /\ MarkStale
  /\ UNCHANGED <<layoutStored, layoutHub, hearingOpen, layoutLoads, listening,
                 layoutShown, misled, layoutActs, cuts>>

\* GetCurrentLayout: the entry, or the layout recommended for the conference
AnswerLayout(k) ==
  /\ layoutLoads[k] = "sent"
  /\ \E l \in Layouts :
       /\ layoutStored \in {l, NoLayout}
       /\ layoutLoads' = [layoutLoads EXCEPT ![k] = l]
  /\ stale' = [stale EXCEPT ![k] = FALSE]
  /\ UNCHANGED <<serverLayout, layoutsTold, layoutHub, hearingOpen, listening,
                 layoutShown, misled, layoutActs, cuts>>

---------------------------------------------------------------------------
\* The connection ends, with the messages that are on it.
LayoutHubFails ==
  /\ layoutHub /\ cuts < MaxCuts
  /\ layoutHub' = FALSE /\ cuts' = cuts + 1
  /\ layoutsTold' = <<>>
  /\ IF layoutsTold = <<>> THEN UNCHANGED stale ELSE MarkStale
  /\ UNCHANGED <<serverLayout, hearingOpen, layoutLoads, listening, layoutShown,
                 misled, layoutActs>>

\* Mutant: the connection is back and nobody loads the layout again.
LayoutHubOnlyReturns ==
  /\ ~layoutHub /\ layoutHub' = TRUE
  /\ UNCHANGED <<serverLayout, layoutsTold, hearingOpen, serviceLayout,
                 layoutActs, cuts>>

\* getServiceConnected: the load begins again, in the place of one in progress.
\* A service whose load has failed once subscribes to nothing.
LayoutHubReturns ==
  /\ ~layoutHub /\ layoutHub' = TRUE
  /\ layoutLoads' = IF layoutLoads["reload"] = "dead" THEN layoutLoads
                    ELSE [layoutLoads EXCEPT !["reload"] =
                            IF hearingOpen THEN "sent" ELSE "waiting"]
  /\ UNCHANGED <<serverLayout, layoutsTold, hearingOpen, stale, listening,
                 layoutShown, misled, layoutActs, cuts>>

\* The hearing becomes the active conference.  "watch" waits only for the first
\* time: distinctUntilChanged passes the same hearing once.
OpenHearing ==
  /\ ~hearingOpen /\ hearingOpen' = TRUE
  /\ layoutLoads' = [k \in Loads |-> IF layoutLoads[k] = "waiting" THEN "sent"
                                     ELSE layoutLoads[k]]
  /\ UNCHANGED <<serverLayout, layoutsTold, layoutHub, stale, listening,
                 layoutShown, misled, layoutActs, cuts>>

\* leaveConference: takeUntil ends the listening.
CloseHearing ==
  /\ hearingOpen /\ cuts < MaxCuts
  /\ hearingOpen' = FALSE /\ cuts' = cuts + 1
  /\ listening' = FALSE
  /\ UNCHANGED <<serverLayout, layoutsTold, layoutHub, layoutLoads, stale,
                 layoutShown, misled, layoutActs>>

\* An answer is shown; the first begins the listening, unless the hearing has
\* been left.
ShowAnswer(k) ==
  /\ OnItsWay(k)
  /\ layoutShown' = layoutLoads[k]
  /\ misled' = stale[k]
  /\ layoutLoads' = [layoutLoads EXCEPT ![k] = "idle"]
  /\ stale' = [stale EXCEPT ![k] = FALSE]
  /\ listening' = IF k = "watch" THEN hearingOpen ELSE listening
  /\ UNCHANGED <<serverLayout, layoutsTold, layoutHub, hearingOpen, layoutActs,
                 cuts>>

\* A load that fails ends its subscription: nothing catches the error.
LayoutLoadFails(k) ==
  /\ layoutLoads[k] = "sent" /\ cuts < MaxCuts
  /\ cuts' = cuts + 1
  /\ layoutLoads' = [layoutLoads EXCEPT ![k] = "dead"]
  /\ UNCHANGED <<serverLayout, layoutsTold, layoutHub, hearingOpen, stale,
                 listening, layoutShown, misled, layoutActs>>

\* getHearingLayoutChanged
HearLayout ==
  /\ layoutsTold # <<>>
  /\ layoutsTold' = Tail(layoutsTold)
  /\ MarkStale
  /\ IF listening
       THEN /\ layoutShown' = Head(layoutsTold).layout
            /\ misled' = Head(layoutsTold).late
       ELSE UNCHANGED <<layoutShown, misled>>
  /\ UNCHANGED <<serverLayout, layoutHub, hearingOpen, layoutLoads, listening,
                 layoutActs, cuts>>

---------------------------------------------------------------------------
LayoutInit ==
  /\ layoutStored = NoLayout
  /\ telling = [r \in LayoutRequests |-> Quiet]
  /\ layoutsTold = <<>> /\ layoutHub = FALSE /\ hearingOpen = FALSE
  /\ layoutLoads = [k \in Loads |-> IF k = "watch" THEN "waiting" ELSE "idle"]
  /\ stale = [k \in Loads |-> FALSE]
  /\ listening = FALSE /\ layoutShown = NoLayout /\ misled = FALSE
  /\ layoutActs = 0 /\ cuts = 0

LayoutNext ==
  \/ \E r \in LayoutRequests : (\E l \in Layouts : UpdateLayout(r, l))
                               \/ TellHosts(r)
  \/ \E k \in Loads : AnswerLayout(k) \/ ShowAnswer(k) \/ LayoutLoadFails(k)
  \/ LayoutHubFails \/ LayoutHubReturns \/ OpenHearing \/ CloseHearing
  \/ HearLayout

LayoutSpec == LayoutInit /\ [][LayoutNext]_layoutVars

LayoutTypeOK ==
  /\ layoutStored \in Layouts \cup {NoLayout}
  /\ telling \in [LayoutRequests -> Messages \cup {Quiet}]
  /\ layoutsTold \in Seq(Messages)
  /\ layoutLoads \in [Loads -> Layouts \cup {"idle", "waiting", "sent", "dead"}]
  /\ stale \in [Loads -> BOOLEAN]
  /\ {layoutHub, hearingOpen, listening, misled} \subseteq BOOLEAN
  /\ layoutShown \in Layouts \cup {NoLayout}
  /\ layoutActs \in 0..MaxLayoutActs /\ cuts \in 0..MaxCuts

\* Once everything has been told and answered, a host who listens sees the
\* layout that is stored, whatever the hub has lost; only a message or an answer
\* that came after a newer one (UpdateLayout writes, then tells; a load answers,
\* then arrives) leaves an older layout on the page.
LayoutIsShown ==
  (/\ layoutHub /\ hearingOpen /\ listening
   /\ layoutStored # NoLayout
   /\ layoutsTold = <<>> /\ \A r \in LayoutRequests : telling[r] = Quiet
   /\ layoutLoads["reload"] = "idle"
   /\ ~misled)
  => layoutShown = layoutStored
=============================================================================
