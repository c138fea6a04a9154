------------------------------ MODULE EventsHub ------------------------------
(***************************************************************************)
(* The browser's connection to the hub (events-hub.service.ts), the check  *)
(* of the network beside it (connection-status.service.ts) and the error   *)
(* page (error.component.ts), for a user of the waiting room.  The client  *)
(* library reconnects a connection that is lost and gives up after a       *)
(* while; the service starts a connection that failed to start.            *)
(***************************************************************************)
EXTENDS Naturals

CONSTANTS
  ReconnectionTimes,   \* how many waits reconnectionTimes has
  GoodPingsRequired,   \* NUMBER_OF_GOOD_PINGS_REQUIRED
  MaxOutages           \* bound on what goes wrong in a behaviour

ASSUME EventsHubAssumption ==
  ReconnectionTimes \in Nat /\ GoodPingsRequired \in Nat /\ MaxOutages \in Nat

VARIABLES
  configured,     \* configureConnection has run
  hub,            \* connection.state
  attempt,        \* reconnectionAttempt
  waiting,        \* there is a reconnectionPromise
  delays,         \* the delays that are running, promised or overwritten
  subscribers,    \* to onUserTriggeredReconnect, for once
  lacking,        \* good pings the status lacks: online when it lacks none
  errorPage,      \* the service error page is shown
  network,        \* "up", "noHub": all but the hub answers, or "down"
  outages,        \* bounded by MaxOutages
  unattended      \* history: the connection closed while the status was
                  \* online, and nobody has started it since

serviceVars == <<configured, hub, attempt, waiting, delays, subscribers,
                 unattended>>
hubVars == <<serviceVars, lacking, errorPage, network, outages>>

online == lacking = 0

StartConnection(tried) ==
  /\ hub' = "connecting"
  /\ attempt' = tried + 1
  /\ unattended' = FALSE

\* start(): not while a delay is promised.
Start ==
  \/ /\ hub = "disconnected" /\ ~waiting
     /\ StartConnection(attempt)
  \/ /\ hub # "disconnected" \/ waiting
     /\ UNCHANGED <<hub, attempt, unattended>>

\* Mutant: whoever asks for another attempt does not promise it.
ReconnectUnpromised(tried, times) ==
  IF tried <= ReconnectionTimes
    THEN /\ UNCHANGED <<delays, waiting, errorPage, subscribers>>
    ELSE /\ errorPage' = TRUE
         /\ subscribers' = subscribers + 1
         /\ UNCHANGED <<delays, waiting>>

\* reconnect(), so many times; the user asks no more often than once for
\* every time the attempts have been used up.
Reconnect(tried, times) ==
  IF tried <= ReconnectionTimes
    THEN /\ delays' = delays + times
         /\ waiting' = TRUE
         /\ UNCHANGED <<errorPage, subscribers>>
    ELSE /\ errorPage' = TRUE
         /\ subscribers' = subscribers + 1
         /\ UNCHANGED <<delays, waiting>>

ConfigureConnection ==
  /\ ~configured
  /\ configured' = TRUE
  /\ Start
  /\ UNCHANGED <<waiting, delays, subscribers, lacking, errorPage, network,
                 outages>>

StartSucceeds ==
  /\ hub = "connecting" /\ network = "up"
  /\ hub' = "connected"
  /\ attempt' = 0
  /\ UNCHANGED <<configured, waiting, delays, subscribers, lacking, errorPage,
                 network, outages, unattended>>

StartFails ==
  /\ hub = "connecting" /\ network # "up"
  /\ hub' = "disconnected"
  /\ Reconnect(attempt, 1)
  /\ UNCHANGED <<configured, attempt, lacking, network, outages, unattended>>

\* Mutant: the promise of a delay that has ended is kept.
DelayEndsPromised ==
  /\ delays > 0
  /\ delays' = delays - 1
  /\ Start
  /\ UNCHANGED <<configured, waiting, subscribers, lacking, errorPage, network,
                 outages>>

\* Whichever delay ends, the promise is forgotten.
DelayEnds ==
  /\ delays > 0
  /\ delays' = delays - 1
  /\ waiting' = FALSE
  /\ \/ hub = "disconnected" /\ StartConnection(attempt)
     \/ hub # "disconnected" /\ UNCHANGED <<hub, attempt, unattended>>
  /\ UNCHANGED <<configured, subscribers, lacking, errorPage, network, outages>>

OnEventHubReconnecting ==
  /\ hub = "connected" /\ network # "up"
  /\ hub' = "reconnecting"
  /\ attempt' = attempt + 1
  /\ UNCHANGED <<configured, waiting, delays, subscribers, lacking, errorPage,
                 network, outages, unattended>>

OnEventHubConnected ==
  /\ hub = "reconnecting" /\ network = "up"
  /\ hub' = "connected"
  /\ attempt' = 0
  /\ UNCHANGED <<configured, waiting, delays, subscribers, lacking, errorPage,
                 network, outages, unattended>>

\* The library gives up: the page is told, and nothing is started.
OnEventHubClose ==
  /\ hub = "reconnecting" /\ network # "up"
  /\ hub' = "disconnected"
  /\ unattended' = online
  /\ UNCHANGED <<configured, attempt, waiting, delays, subscribers, lacking,
                 errorPage, network, outages>>

\* Mutant: every bad ping is counted.
HandleConnectionResultCounting ==
  /\ configured
  /\ \/ /\ network # "down" /\ lacking > 0
        /\ lacking' = lacking - 1
        /\ IF lacking = 1 THEN Start ELSE UNCHANGED <<hub, attempt, unattended>>
     \/ /\ network = "down"
        /\ lacking' = lacking + GoodPingsRequired
        /\ UNCHANGED <<hub, attempt, unattended>>
  /\ UNCHANGED <<configured, waiting, delays, subscribers, errorPage, network,
                 outages>>

\* handleConnectionResult.  A bad ping takes the status offline at once, and
\* those after it are not counted: the good ones need not follow each other.
HandleConnectionResult ==
  /\ configured
  /\ \/ /\ network # "down" /\ lacking > 0
        /\ lacking' = lacking - 1
        /\ IF lacking = 1 THEN Start ELSE UNCHANGED <<hub, attempt, unattended>>
     \/ /\ network = "down" /\ online
        /\ lacking' = GoodPingsRequired
        /\ UNCHANGED <<hub, attempt, unattended>>
  /\ UNCHANGED <<configured, waiting, delays, subscribers, errorPage, network,
                 outages>>

\* The button of the error page, when the status is online: back to the room,
\* and everyone who has subscribed reconnects.
UserTriggeredReconnect ==
  /\ errorPage /\ online
  /\ errorPage' = FALSE
  /\ subscribers' = 0
  /\ attempt' = 1
  /\ delays' = delays + subscribers
  /\ waiting' = TRUE
  /\ UNCHANGED <<configured, hub, lacking, network, outages, unattended>>

NetworkChanges ==
  /\ network = "up" => outages < MaxOutages
  /\ outages' = outages + (IF network = "up" THEN 1 ELSE 0)
  /\ network' \in {"up", "noHub", "down"} \ {network}
  /\ network # "up" => network' = "up"
  /\ UNCHANGED <<serviceVars, lacking, errorPage>>

HubInit ==
  /\ configured = FALSE
  /\ hub = "disconnected" /\ attempt = 0
  /\ waiting = FALSE /\ delays = 0
  /\ subscribers = 0
  /\ lacking = 0
  /\ errorPage = FALSE
  /\ network = "up" /\ outages = 0
  /\ unattended = FALSE

HubNext ==
  \/ ConfigureConnection \/ StartSucceeds \/ StartFails \/ DelayEnds
  \/ OnEventHubReconnecting \/ OnEventHubConnected \/ OnEventHubClose
  \/ HandleConnectionResult \/ UserTriggeredReconnect \/ NetworkChanges

\* The time-outs of the browser and of the library, and the pings.
HubFairness ==
  /\ WF_hubVars(StartSucceeds) /\ WF_hubVars(StartFails)
  /\ WF_hubVars(DelayEnds) /\ WF_hubVars(OnEventHubReconnecting)
  /\ WF_hubVars(OnEventHubConnected) /\ WF_hubVars(OnEventHubClose)
  /\ WF_hubVars(HandleConnectionResult)

HubSpec == HubInit /\ [][HubNext]_hubVars /\ HubFairness

-----------------------------------------------------------------------------
(***************************************************************************)
(* Properties.                                                             *)
(***************************************************************************)
HubTypeOK ==
  /\ hub \in {"disconnected", "connecting", "connected", "reconnecting"}
  /\ {attempt, delays, subscribers} \subseteq Nat
  /\ lacking \in 0..GoodPingsRequired
  /\ {configured, waiting, errorPage, unattended} \subseteq BOOLEAN
  /\ network \in {"up", "noHub", "down"} /\ outages \in 0..MaxOutages

\* A connection that is down is somebody's to start: a delay is running, the
\* network is being waited for or the user is asked to, in whatever order the
\* failures, the pings and the user come - unless it closed while the pings
\* went on coming back, when nobody does.
SomeoneStartsTheHub ==
  configured /\ hub = "disconnected" =>
    delays > 0 \/ ~online \/ errorPage \/ unattended

\* Once the hub can be reached for good the page is connected to it for good,
\* or the user is asked to reconnect, or the connection is unattended.
HubComesBack ==
  <>[](configured /\ network = "up") =>
    <>[](hub = "connected" \/ errorPage \/ unattended)
=============================================================================
