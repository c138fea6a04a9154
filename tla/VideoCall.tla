------------------------------ MODULE VideoCall ------------------------------
(***************************************************************************)
(* The video call of one user of the waiting room: the page                *)
(* (waiting-room-base.component.ts), the service that owns the supplier's  *)
(* client (video-call.service.ts), the client itself (pexrtc.js) and the   *)
(* heartbeat of the call (heartbeat.service.ts).                           *)
(*                                                                         *)
(* The service outlives the page and never reuses a client: whenever a     *)
(* call ends it makes a new one and keeps it in pexipAPI.  The clients     *)
(* made so far are 1..current; the callbacks of an older one still run the *)
(* service's handlers, which act on the current one.  A client is          *)
(*   "idle"        new, no call made with it                               *)
(*   "asked"       ACTIVE, has asked for a token                           *)
(*   "setup"       has a token and a call nobody has told to connect       *)
(*   "connecting"  has sent an offer                                       *)
(*   "live"        connected                                               *)
(*   "hollow"      holds a token, its call has failed                      *)
(*   "moving"      was referred elsewhere and will call again in 500 ms    *)
(*   "gone"        disconnected, its token released                        *)
(***************************************************************************)
EXTENDS Naturals

CONSTANTS
  MaxClients,          \* bound on the clients made in a behaviour
  MaxVisits,           \* bound on the visits of the page
  ConnectionFailedLimit

ASSUME VideoCallAssumption ==
  MaxClients \in Nat /\ MaxVisits \in Nat /\ ConnectionFailedLimit \in Nat

Clients == 1..MaxClients
NoClient == 0

VARIABLES
  phase,         \* phase[c], "none" for one not made yet
  current,       \* the client in pexipAPI
  page,          \* "left" or "open": subscribed to the service
  settingUp,     \* connectToPexip awaits setupClient
  dialling,      \* makeCall awaits the check of the devices
  connected,     \* the page's connected
  failedCount,   \* the page's connectionFailedCount
  timer,         \* the time-out in callbackTimeout is running
  lostTimer,     \* one it has overwritten is running
  closed,        \* isPastClosedTime()
  visits,        \* bounded by MaxVisits
  heartbeat,     \* the client the heartbeat is of
  configFor,     \* the client a request for the configuration is in flight for
  initialising,  \* HeartbeatService.initialising
  mishap,        \* history: a client may have been left with a call
  heartbeatLost, \* history: see HeartbeatOfTheCall
  callMissed     \* history: a call was due on this visit and was not made

clientVars == <<phase, current>>
pageVars == <<page, connected, failedCount, timer, lostTimer>>
heartbeatVars == <<heartbeat, configFor, initialising, heartbeatLost>>
waitVars == <<settingUp, dialling>>
worldVars == <<closed, visits>>
callVars == <<clientVars, pageVars, heartbeatVars, waitVars, worldVars,
              mishap, callMissed>>

Phases == {"none", "idle", "asked", "setup", "connecting", "live", "hollow",
           "moving", "gone"}

\* PexRTC.call is set
HasCall == {"setup", "connecting", "live"}
HasToken == HasCall \cup {"hollow"}
\* The supplier knows of the client, or will
Present == HasToken \cup {"asked", "moving"}

Strays == {c \in Clients : c # current /\ phase[c] \in Present}

Mishap(happened) == mishap' = (mishap \/ happened)

-----------------------------------------------------------------------------
(***************************************************************************)
(* heartbeat.service.ts                                                    *)
(***************************************************************************)
\* Mutant: a heartbeat that is stopped leaves initialising set.
StopHeartbeatOnly ==
  /\ heartbeat' = NoClient
  /\ UNCHANGED <<configFor, initialising, heartbeatLost>>

\* A configuration that has not come is neither cancelled nor forgotten.
StopHeartbeat ==
  \/ /\ heartbeat # NoClient
     /\ heartbeat' = NoClient
     /\ initialising' = FALSE
     /\ heartbeatLost' = FALSE
     /\ UNCHANGED configFor
  \/ /\ heartbeat = NoClient
     /\ heartbeatLost' = (heartbeatLost \/ initialising)
     /\ UNCHANGED <<heartbeat, configFor, initialising>>

InitialiseHeartbeat ==
  \/ /\ heartbeat = NoClient /\ ~initialising
     /\ initialising' = TRUE
     /\ configFor' = current
     /\ UNCHANGED <<heartbeat, heartbeatLost>>
  \/ /\ heartbeat # NoClient \/ initialising
     /\ UNCHANGED heartbeatVars

HeartbeatConfigured ==
  /\ configFor # NoClient
  /\ heartbeat' = configFor
  /\ configFor' = NoClient
  /\ UNCHANGED <<clientVars, pageVars, initialising, heartbeatLost, waitVars,
                 worldVars, mishap, callMissed>>

HeartbeatFails ==
  /\ configFor # NoClient
  /\ configFor' = NoClient
  /\ heartbeatLost' = TRUE
  /\ UNCHANGED <<clientVars, pageVars, heartbeat, initialising, waitVars,
                 worldVars, mishap, callMissed>>

-----------------------------------------------------------------------------
(***************************************************************************)
(* video-call.service.ts and pexrtc.js: what happens to the clients.  An   *)
(* argument "ph" is the phases after what the client itself has done.      *)
(***************************************************************************)
\* setupClient: from here on the handlers act on the new one.
SetupClient(ph) ==
  /\ current < MaxClients
  /\ current' = current + 1
  /\ phase' = [ph EXCEPT ![current + 1] = "idle"]

CleanUpConnection(ph) == StopHeartbeat /\ SetupClient(ph)

KeepClient(ph) == phase' = ph /\ UNCHANGED <<current, heartbeatVars>>

After(c, p) == [phase EXCEPT ![c] = p]

\* Mutant: the service makes a new client and forgets to disconnect the old.
ForgetCall == phase

\* PexRTC.disconnect ends everything but the 500 ms of a transfer.
Disconnected ==
  IF phase[current] \in {"idle", "moving"} THEN phase ELSE After(current, "gone")

DisconnectFromCall ==
  /\ CleanUpConnection(Disconnected)
  /\ Mishap(phase[current] = "moving")

(***************************************************************************)
(* waiting-room-base.component.ts                                          *)
(***************************************************************************)
ClosePage ==
  /\ page' = "left"
  /\ timer' = FALSE
  /\ connected' = FALSE
  /\ UNCHANGED <<failedCount, lostTimer>>

\* Every error leads to an error page, and the page is left for it.
HandlePexipError == ClosePage

\* call(): the hub may be connected or not, and when it is not nobody makes
\* the call later.
PageCalls ==
  \/ /\ dialling' = TRUE
     /\ IF phase[current] \in HasCall
          THEN DisconnectFromCall
          ELSE KeepClient(phase) /\ UNCHANGED mishap
     /\ UNCHANGED callMissed
  \/ /\ KeepClient(phase)
     /\ UNCHANGED mishap
     /\ callMissed' = TRUE
     /\ UNCHANGED dialling

HandleCallError(reason) ==
  \/ /\ page = "left"
     /\ UNCHANGED <<pageVars, callMissed>>
  \/ /\ page = "open"
     /\ reason = "gather"
     /\ failedCount + 1 < ConnectionFailedLimit
     /\ failedCount' = failedCount + 1
     /\ connected' = FALSE
     /\ callMissed' = TRUE
     /\ UNCHANGED <<page, timer, lostTimer>>
  \/ /\ page = "open"
     /\ reason = "gather" => failedCount + 1 >= ConnectionFailedLimit
     /\ HandlePexipError
     /\ UNCHANGED callMissed

\* Mutant: the page waits to call again and still shows itself connected.
HandleCallDisconnectConnected ==
  /\ timer' = (timer \/ (page = "open" /\ ~closed))
  /\ UNCHANGED <<page, connected, failedCount, lostTimer>>

HandleCallDisconnect ==
  \/ /\ page = "left"
     /\ UNCHANGED pageVars
  \/ /\ page = "open"
     /\ connected' = FALSE
     /\ timer' = (timer \/ ~closed)
     /\ lostTimer' = (lostTimer \/ (timer /\ ~closed))
     /\ UNCHANGED <<page, failedCount>>

HandleConnect ==
  /\ InitialiseHeartbeat
  /\ connected' = (connected \/ page = "open")
  /\ UNCHANGED <<page, failedCount, timer, lostTimer>>

-----------------------------------------------------------------------------
(***************************************************************************)
(* What the client reports.                                                *)
(***************************************************************************)
\* connect() of the current client, whichever client has asked for it: one
\* without a call reports at once that it is connected.
Connect(ph) ==
  \/ /\ ph[current] \in HasCall
     /\ KeepClient([ph EXCEPT ![current] = "connecting"])
     /\ UNCHANGED pageVars
  \/ /\ ph[current] \notin HasCall
     /\ phase' = ph
     /\ HandleConnect
     /\ UNCHANGED current

\* The call is added and set up; the page, if there is one, has it connected.
TokenGranted(c) ==
  /\ phase[c] = "asked"
  /\ \/ page = "open" /\ Connect(After(c, "setup"))
     \/ page = "left" /\ KeepClient(After(c, "setup")) /\ UNCHANGED pageVars
  /\ UNCHANGED <<waitVars, worldVars, mishap, callMissed>>

\* The token is refused, or its refresh is: the client disconnects first.
TokenRefused(c) ==
  /\ phase[c] \in HasToken \cup {"asked"}
  /\ CleanUpConnection(After(c, "gone"))
  /\ HandleCallError("other")
  /\ UNCHANGED <<waitVars, worldVars, mishap>>

\* The offer is answered and acknowledged.
CallAnswered(c) ==
  /\ phase[c] = "connecting"
  /\ phase' = After(c, "live")
  /\ HandleConnect
  /\ UNCHANGED <<current, waitVars, worldVars, mishap, callMissed>>

\* The call fails: the client drops it and keeps its token, and the service
\* keeps no hold of the client.
CallFails(c, reason) ==
  /\ phase[c] \in {"connecting", "live"}
  /\ CleanUpConnection(After(c, "hollow"))
  /\ HandleCallError(reason)
  /\ Mishap(TRUE)
  /\ UNCHANGED <<waitVars, worldVars>>

\* A request has failed ten times (that for a token, once): an error is
\* reported and nothing else changes, although the call may go on, or may
\* have been over long before.
RequestFails(c) ==
  /\ phase[c] \in HasToken \cup {"asked", "gone"}
  /\ CleanUpConnection(IF phase[c] = "asked" THEN After(c, "gone") ELSE phase)
  /\ HandleCallError("other")
  /\ Mishap(TRUE)
  /\ UNCHANGED <<waitVars, worldVars>>

ServerDisconnects(c) ==
  /\ phase[c] \in HasToken
  /\ CleanUpConnection(After(c, "gone"))
  /\ HandleCallDisconnect
  /\ UNCHANGED <<waitVars, worldVars, mishap, callMissed>>

ProcessRefer(c) ==
  /\ phase[c] \in HasToken
  /\ KeepClient(After(c, "moving"))
  /\ UNCHANGED <<pageVars, waitVars, worldVars, mishap, callMissed>>

\* The call that follows a transfer is made without another look at the state.
CallElsewhere(c) ==
  /\ phase[c] = "moving"
  /\ KeepClient(After(c, "asked"))
  /\ UNCHANGED <<pageVars, waitVars, worldVars, mishap, callMissed>>

-----------------------------------------------------------------------------
(***************************************************************************)
(* The page.                                                               *)
(***************************************************************************)
Enter ==
  /\ page = "left" /\ visits < MaxVisits
  /\ visits' = visits + 1
  /\ page' = "open"
  /\ connected' = FALSE /\ failedCount' = 0
  /\ SetupClient(phase)
  /\ settingUp' = TRUE
  /\ callMissed' = FALSE
  /\ UNCHANGED <<timer, lostTimer, dialling, closed, heartbeatVars,
                 mishap>>

\* setupClient has its media stream: connectToPexip goes on to call(), of a
\* page that has been left too.
SetUp ==
  /\ settingUp
  /\ settingUp' = FALSE
  /\ PageCalls
  /\ UNCHANGED <<pageVars, worldVars>>

\* The end of makeCall, on whatever client is the current one by now.
MakePexipCall ==
  /\ dialling
  /\ dialling' = FALSE
  /\ KeepClient(IF phase[current] \in HasCall
                  THEN phase ELSE After(current, "asked"))
  /\ UNCHANGED <<pageVars, settingUp, worldVars, mishap, callMissed>>

\* Mutant: the page is drawn again and makes no call.
DrawAgain ==
  /\ timer
  /\ timer' = FALSE
  /\ UNCHANGED <<clientVars, page, connected, failedCount, lostTimer,
                 heartbeatVars, waitVars, worldVars, mishap, callMissed>>

\* CALL_TIMEOUT has passed since the server ended the call.
CallAgain ==
  /\ \/ timer /\ timer' = FALSE /\ UNCHANGED lostTimer
     \/ lostTimer /\ lostTimer' = FALSE /\ UNCHANGED timer
  /\ PageCalls
  /\ UNCHANGED <<page, connected, failedCount, settingUp, worldVars>>

\* executeWaitingRoomCleanup: a call that is not connected yet is let be.
Leave ==
  /\ page = "open"
  /\ ClosePage
  /\ \/ /\ connected
        /\ DisconnectFromCall
     \/ /\ ~connected
        /\ KeepClient(phase)
        /\ Mishap(phase[current] \in Present \/ settingUp \/ dialling)
  /\ UNCHANGED <<waitVars, worldVars, callMissed>>

\* checkIfHearingIsClosed, at a tick of the clock.
LeaveClosedHearing == closed /\ Leave

HearingCloses ==
  /\ ~closed
  /\ closed' = TRUE
  /\ UNCHANGED <<clientVars, pageVars, heartbeatVars, waitVars, visits,
                 mishap, callMissed>>

CallInit ==
  /\ phase = [c \in Clients |-> "none"]
  /\ current = NoClient
  /\ page = "left"
  /\ settingUp = FALSE /\ dialling = FALSE /\ connected = FALSE
  /\ failedCount = 0
  /\ timer = FALSE /\ lostTimer = FALSE
  /\ closed = FALSE
  /\ visits = 0
  /\ heartbeat = NoClient /\ configFor = NoClient /\ initialising = FALSE
  /\ mishap = FALSE /\ heartbeatLost = FALSE /\ callMissed = FALSE

TokenAnswered(c) == TokenGranted(c) \/ TokenRefused(c)
OfferAnswered(c) == CallAnswered(c) \/ CallFails(c, "other")

CallNext ==
  \/ \E c \in Clients :
       \/ TokenAnswered(c) \/ OfferAnswered(c) \/ CallFails(c, "gather")
       \/ RequestFails(c) \/ ServerDisconnects(c)
       \/ ProcessRefer(c) \/ CallElsewhere(c)
  \/ HeartbeatConfigured \/ HeartbeatFails
  \/ Enter \/ SetUp \/ MakePexipCall \/ CallAgain \/ Leave \/ LeaveClosedHearing
  \/ HearingCloses

\* The browser's own steps, and the supplier's answers: it does not refer a
\* call elsewhere for ever before it answers the offer.
CallFairness ==
  /\ WF_callVars(SetUp) /\ WF_callVars(MakePexipCall)
  /\ WF_callVars(CallAgain) /\ WF_callVars(LeaveClosedHearing)
  /\ \A c \in Clients :
       /\ WF_callVars(TokenAnswered(c))
       /\ SF_callVars(OfferAnswered(c))
       /\ WF_callVars(CallElsewhere(c))

CallSpec == CallInit /\ [][CallNext]_callVars /\ CallFairness

-----------------------------------------------------------------------------
(***************************************************************************)
(* Properties.                                                             *)
(***************************************************************************)
CallTypeOK ==
  /\ phase \in [Clients -> Phases]
  /\ current \in 0..MaxClients
  /\ page \in {"left", "open"}
  /\ {settingUp, dialling, connected, timer, lostTimer, closed,
      initialising, heartbeatLost, callMissed} \subseteq BOOLEAN
  /\ failedCount \in 0..ConnectionFailedLimit
  /\ visits \in 0..MaxVisits
  /\ {heartbeat, configFor} \subseteq 0..MaxClients
  /\ mishap \in BOOLEAN

\* A client the service has replaced is out of the conference, unless an error
\* was reported of a call or a request (after which the client keeps its
\* token), the page was left before it was connected, or the call was ended
\* in the half second of a transfer: those four, in whatever order the calls,
\* the errors, the visits of the page and its time-outs come.
StraysHaveACause == Strays # {} => mishap

\* As long as none of the four has happened the page shows itself connected
\* exactly when the client it talks to is in a call or follows a transfer.
ConnectedIsTheCall ==
  page = "open" /\ ~mishap =>
    /\ phase[current] = "live" => connected
    /\ connected => phase[current] \in {"live", "moving", "asked", "connecting"}

\* A connected call has a heartbeat of its own, or is waiting for the
\* configuration of one, unless a configuration was refused, or a call ended
\* before its configuration came.
HeartbeatOfTheCall ==
  page = "open" /\ ~mishap /\ connected /\ ~heartbeatLost =>
    current \in {heartbeat, configFor}

\* A page whose call the server has ended is connected again in the end, or
\* left, unless a call was due while the hub was away or a failed one was
\* passed over.
DroppedCallIsRetried ==
  page = "open" /\ timer ~> connected \/ page = "left" \/ callMissed
=============================================================================
