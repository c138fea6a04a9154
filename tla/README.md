# Video web: a model of the conference, its events and its consultations

vh-video-web is the web application through which participants, endpoints
(video equipment in court rooms and prisons), judges and staff take part in a
video hearing. It does not carry the video itself. It keeps, for every
hearing, a *conference*: who is taking part, with which status, in which room,
and how far the hearing is. The truth about these is spread over four places:

    conference supplier --callbacks--> web app instances --raise--> Video API
                                          |        |
                                    read / write   +--SignalR messages--> clients
                                          v
                                     Redis cache

The supplier moves people between rooms and posts a callback for every move.
An instance of the web app turns the callback into events, raises them to the
Video API (the system of record), changes the conference in the shared cache
and sends messages to the browsers. Any instance may handle any callback, at
the same time as any other, and the cache entry of a conference is one JSON
object, read and written as a whole without a lock or a version.

This directory models that system in TLA+, checks the model with TLC and
proves the main safety results with TLAPS. All sources named below are under
`src/VideoWeb/`.

## Inventory

| Component | State | Operations | What is hard | What makes it correct |
|---|---|---|---|---|
| Cached conference (`VideoWeb.Common/Models/Conference.cs`) | statuses, rooms, list of consultation rooms, civilian rooms, countdown | status and room updates, screening checks, allocation | one object, many writers | rooms and membership agree; screened entities never meet |
| Event handlers (`VideoWeb.EventHub/Handlers`) | a copy of the conference | `HandleAsync` and `PublishStatusAsync` per callback type | await between read and write; out-of-order callbacks | the cache follows the supplier; clients follow the cache |
| Callback controller (`VideoEventsController.cs`) | none of its own | raise, publish, civilian rooms, relayed transfers | several calls, each may fail | nothing is shown the Video API has not accepted; relays end |
| Conference service and cache (`ConferenceService.cs`, `Caching`) | Redis entries | read-through, write, forced refresh, remove | failures swallowed, expiry | a fault loses at most an update, never invents one |
| Consultations (`ConsultationsController.cs`, `ConsultationInvitationTracker.cs`, `ConsultationNotifier.cs`) | invitations in the cache | invite, respond, join, leave, lock, start | linked participants answer at once; check, then act; a lock that times out | everyone linked accepts before a transfer; no answer is lost |
| Conference loader (`ConferenceLoaderService.cs`, `CacheLock.cs`) | a lock in the cache | acquire, load, release | read then write; released before taken | at most one instance loads |
| Membership (`InternalEvent*Controller.cs`, `ParticipantsController.cs`, `ParticipantService.cs`) | the conference | add, remove, update, cancel | a handler in progress writes the removed back; the removed are looked up before the refresh | the cached people are the members; everyone is told |
| Hearing management (`ConferenceManagementController.cs`, `ConferenceManagementService.cs`) | the conference, transfers in progress | start, pause, end, call, dismiss, hand, mute | two hosts at once | a dismissed witness is out; precedence of hand and mute |
| Video controls and layout (`HearingLayoutService.cs`, `hearing-layout.service.ts`, `ConferenceStatusController.cs`) | entries of the cache, what a host is shown | read, update, tell, load | written, then told; loads race messages; the hub is cut | hosts are shown the layout that is stored |
| Hub (`EventHubClient.cs`) | connections, groups, user caches | connect, disconnect, messages | several connections of a user; a message is shown before it is stored | messages reach exactly the right groups, and the history has what was shown |
| Client store (`ClientApp/.../conference.reducer.ts`) | the conference a browser shows | one reducer case per action | a load races the messages; lists replace lists | the store catches up with the server; rooms and locks agree |
| Video call (`video-call.service.ts`, `waiting-room-base.component.ts`, `pexrtc.js`, `heartbeat.service.ts`) | the supplier's clients, the page's connection, time-outs, a heartbeat | set up, call, transfer, retry, leave | old clients still call back; time-outs overwrite each other | one client in the conference; a dropped call is made again |
| Microphone and mutes (`video-call.effects.ts`, `video-call-host.effects.ts`) | the microphone, what is shown of it, toggles and waits pending | mute by status, by the host, after the countdown | all effects of an action read before any acts | muted in the hearing; shown as it is |
| Lock of the hearing (`conference.effects.ts`) | remote mutes as the client sees them | lock, unlock, mute all | the client and the supplier react to each other's old news | locked when all are muted; no endless exchange |
| Devices and streams (`user-media*.service.ts`, `media-stream.service.ts`) | devices, the active camera, the stream | plug, choose, create, stop | no request is cancelled by a later one | the stream is of the active camera |
| Hub connection (`events-hub.service.ts`, `connection-status.service.ts`) | the connection, delays, good pings | start, reconnect, give up | three parties who each may start it | somebody always will |
| Chat (`chat-base.component.ts`, `vho-chat.component.ts`, unread counters) | a window, a count | send, show, load | the history and the live messages overlap | every stored message once |
| Officer pages, self test, shared widgets, authentication, contracts | presentation or configuration | | | not modelled |

`PROJECT.json` lists the components with what is modelled of each, the
hazards at the lines where they bite, and the properties that cover them.

## Modules

| Module | What it is |
|---|---|
| `Conference` | the cached conference as a record, and the operations of `Conference.cs` the handlers call, as operators; no state |
| `ConferenceEvents` | the state machine: supplier, requests in progress, cache, Video API, clients |
| `MCConferenceEvents` | its instances for TLC, with four configurations |
| `ConferenceEventsProofs` | `TypeCorrect`, `NeverAhead` and their proofs, for any faults; `OnlyOvertaken`, `OccupiedListed`, `ShownIsCached`, `CachedIsSupplier`, `ShownIsSupplier` and theirs, until the first fault |
| `JointConsent` | what an invitation promises to linked participants, as a state machine of two variables |
| `Consultations` | invitations in the cache, the requests that send and answer them, what the clients are told |
| `MCConsultations` | its instances for TLC, with two configurations |
| `ConsultationsProofs` | `ConsultationsTypeCorrect`, `OnlyTheAskedAreMoved`, `RefusalsCount`, `TransfersAreMade`, `AnswersDoNotOverlap`, `ToldAreMoved`, `PromiseIsKept` and their proofs |
| `ConsultationRooms` | screening as check, then act: joins, invitations, endpoints and started consultations against the cached rooms |
| `MCConsultationRooms` | its instances for TLC, with two configurations |
| `ConsultationRoomsProofs` | `RoomsTypeCorrect`, `CheckedStayApart`, `ToldAreMoved` and their proofs, for any faults |
| `ConferenceLoader` | the daily routine that fills the cache, on several instances, and its lock |
| `MCConferenceLoader` | its instances for TLC, with two configurations |
| `ConferenceLoaderProofs` | `OnlyANewLockStops`, `LocksAreRemoved` and their proofs, for any failures |
| `ConferenceMembership` | who takes part, in the Video API and in the cache: bookings, joins, removals, cancelling, and handlers beside them |
| `VideoCall` | the page, the service, the supplier's clients and the heartbeat of one user |
| `MediaDevices` | the camera of one user and the stream made of it |
| `EventsHub` | the browser's connection to the hub and the check of the network |
| `ConferenceStore` | the reducer of one browser, with loads and messages, beside the server's conference |
| `Microphone` | the microphone of one user and everything that toggles it |
| `ConferenceLock` | the remote mutes of a hearing between the host's client and the supplier |
| `InstantMessages` | sending, showing, storing, loading and counting messages |
| `HearingLayout` | the layout of a hearing, from a host's change to the page of another |
| `MCParts` | the nine modules above for TLC, one to a behaviour, with two configurations |
| `ConferenceMembershipProofs` | `MembershipSpecSafe` and its proof, for any number of requests at once |
| `ConferenceStoreProofs` | `StoreSpecSafe` and its proof, for any losses and loads |
| `InstantMessagesProofs` | `ChatSpecSafe` and its proof, for any messages and components opened |
| `ClientDevicesProofs` | `HubSpecSafe`, `MuteSpecSafe`, `MediaSpecSafe`, `LayoutSpecSafe`, `CallSpecSafe`, `LockSpecSafe` and their proofs; of all nine parts beside each other `PartsImplement`, `PartsTypeCorrect`, `PartsSafe` |

The first three state machines meet in the cached conference. `ConferenceEvents` has
its whole content and every await of a handler; `Consultations` has the
invitation, a cache entry of its own, and sees of the conference only who is
linked to whom; `ConsultationRooms` has of the conference only who is in which
room, and of a handler its read and its writes.

The nine modules `MCParts` is made of share no variable: each has its own part of the
system, and what lies between two parts is an input of both. (A call that
starts is an action of `VideoCall`, and an unconstrained input of `Microphone`
and `MediaDevices`; a message of the hub is received by `ConferenceStore` and
lost while the hub is away, whatever `EventsHub` says of when that is.) So
nothing would be gained by interleaving them, and `MCParts` does not: its first
step chooses a part, and the others stay as they are. The state space is the
sum of theirs, not the product; only the lock begins in several ways, and the
others are chosen from one of these.

### Conference

A consultation room is its label. `rooms` is the list
`Conference.ConsultationRooms`; `pRoom` and `eRoom` hold each party's
`CurrentRoom`. In the code the two are objects that start out shared, but the
cache stores JSON, so after the first read they are separate copies, and so
they are separate here. The civilian room, which linked participants (a witness
and an interpreter, say) share, is the set `vmr`. The labels `WaitingRoom` and
`HearingRoom` are those of `RoomType`.

### ConferenceEvents

Each worker is one HTTP request on some instance. Its program counter names the
next await:

| Step | Code |
|---|---|
| `Receive` | a request reaches a controller |
| `GetHit`, `GetMiss`, `Fill` | `GetConference`: cache hit, or a read of the Video API that is then stored |
| `Plan` | `SendHearingEventAsync` builds the callbacks and updates the civilian room |
| `Raise`, `RaiseFails` | one `RaiseVideoEventAsync`; a failure ends the request |
| `NextCallback` | `PublishEventToUi` starts the next handler, which reads the conference again |
| `PublishRoomTransfer`, `UpdateConsultationRoom` | the first half of a transfer: message, then write |
| `UpdateStatus`, `IgnoreLeave`, `PublishStatus` | the status: change and write, then message |
| `Relay` | `GenerateTransferEventOnVmrParticipantJoining` |
| `ReadFails` | a read of the conference from the Video API fails, on a miss, for a relay or for a refresh: the request ends where it is |
| `CreateConsultation(Fails)` | `StartParticipantConsultation`, whose write follows a Video API call |
| `ForceGet`, `AddConference` | `ForceGetConference`, as the internal events use it |

Supplier callbacks are all raised before any is published; the status a browser
posts (`UpdateParticipantStatusAsync`) is published first and raised after.
`Following` is that order.

The supplier, the browsers and the Video API are not in the repository; they
are modelled from how the code uses them. The supplier keeps `where` everyone
is and the status of the `hearing`, moves linked participants together and only
moves people to the hearing room while the hearing is in session. The Video API
applies an event it accepts to its own conference.

`ui` is what the hub's messages have told a client that was connected all
along. `raised` and `overtaken` are history variables and no guard reads them.

### JointConsent and Consultations

An invitation to a participant with linked participants is a dictionary from
each of them to an answer, in a Redis entry of its own. Every request about it
is a worker, and each step one await:

| Step | Code |
|---|---|
| `Invite`, `StartTrackingInvitation`, `ShowInvitation` | `NotifyConsultationRequestAsync`: track, show it to the invited, then to each linked participant |
| `Answer` | a client sends `RespondToConsultationRequest` |
| `ReadInvitation`, `WriteResponse` | `UpdateConsultationResponse`: read the entry, write the whole back with one answer set |
| `CheckAccepted`, `PublishResponse`, `PublishLinkedResponse` | the rest of `NotifyConsultationResponseAsync` |
| `Decide`, `Call` | the controller reads the entry once more and asks the Video API |
| `CallRefused`, `CallBreaksOff` | a `VideoApiException` is told to all as `Failed`; any other exception is not caught |
| `Expire` | the sliding expiry of the entry |

`NotifyConsultationResponseAsync` runs up to three times in a request: for the
answer itself, for `Transferring` and for `Failed`. `current` says which, and
each of the three writes the invitation: `Transferring` and `Failed` become
answers in the dictionary, which a later answer of somebody else then finds.

`JointConsent` is what the feature means: everybody in the group is asked,
answers may change, and the group is moved when and only when all have
accepted. `KeepsThePromise` is that `Consultations` implements it, with
`Transferring` in the cache read as the acceptance it replaces.

### ConsultationRooms

| Step | Code |
|---|---|
| `Join`, `AddEndpoint`, `Invite` | the checks `CanParticipantJoinConsultationRoom` and `CanEndpointJoinConsultationRoom` of the cached conference |
| `Start` | the check of those to be invited against each other |
| `Accept` | an answer that leads to a call; nothing is checked |
| `TellTransferring`, `Call`, `CallRefused`, `NotifyParticipantTransferring` | the call to the Video API and the messages before and after it |
| `CreateRoom`, `CreateRefused`, `UpdateConference`, `ShowInvitation`, `LinkEndpoint` | `StartParticipantConsultation`, await by await |
| `Leave`, `Disconnect` | `LeaveConsultationAsync`, or the supplier ends a call; an endpoint is gone, and keeps its room in the cache |
| `HandleCallback` | a handler reads the conference |
| `UpdateConsultationRoom`, `UpdateStatus` | the two writes of `TransferEventHandler`, the whole copy each; `EndpointDisconnectedEventHandler` makes the second only |

`place` is where the Video API has somebody, `cached` the room in the cache and
`pending` the callbacks between the two, of which the handler of the first may
hold a copy (`handling`). Whoever starts a consultation does not
invite somebody screened from themselves, as the page does not offer it
(`participantHasInviteRestrictions`); the server does not check it.
`entry` and `overwritten` are history variables: by which request somebody came
to a room, and whom the check of that request could not have seen.

### ConferenceLoader

| Step | Code |
|---|---|
| `Begin` | the hour has come (`ConferenceBackgroundService`) |
| `ReleaseLock` | the first line of `LoadDailyConferencesRoutine` |
| `ReadLock`, `WriteLock` | the two halves of `AcquireLockAsync` |
| `QueryToday`, `AddConference`, `LoadFails` | `PopulateConferenceCacheForToday` |
| `Finally` | the `finally` block |
| `Crash`, `Expire` | an instance is restarted; the entry of the lock expires |

`maybeHeld`, `served` and `disturbed` are history variables: since an
instance's routine removed the lock or began, whether another has taken the
lock, whether a load has been completed, and whether anything has failed.

### ConferenceMembership

A request is a *kind* and a place in the course of awaits of that kind
(`Course`):

| Kind | Code | Awaits |
|---|---|---|
| `participantsUpdated` | `ParticipantsUpdated` | look up the removed, `ForceGetConference` (query, store, read), tell |
| `refresh` | `HearingDetailsUpdated`, `EndpointsUpdated` | query, store, read |
| `add` | `AddParticipantToConferenceCache` | read, write, tell |
| `remove` | `RemoveParticipantFromConferenceAsync` | read, ask the Video API, write, tell |
| `event` | every event handler | read, write |
| `cancel` | `HearingCancelled` | read, remove from the cache |

A read that misses adds `Fill`. `BookIn`, `BookOut`, `AmendBooking` and
`CancelBooking` change the Video API and post an internal event, which
`TakeInternalEvent` takes up at any time and in any order. `behind`,
`overlapped` and `missedOut` are history variables. The conference has a set of
people and nothing else; `MaxBookings` bounds the changes. A visitor joins once:
whoever comes back by the link (`QuickLinksController.cs:86`) or as staff is
another participant, with an id of their own, and a person here is a
participant (`joined`).

### VideoCall

A client of the supplier is one object of `pexrtc.js`, with a phase; the service
makes another whenever a call ends and keeps listening to the old one.

| Step | Code |
|---|---|
| `Enter`, `SetUp`, `MakePexipCall` | the page opens, `connectToPexip`, `makeCall`; each waits for something |
| `TokenGranted`, `TokenRefused`, `CallAnswered`, `CallFails`, `RequestFails` | what the supplier answers a client |
| `ServerDisconnects`, `ProcessRefer`, `CallElsewhere` | the supplier ends a call, or transfers it: the client disconnects and calls again after half a second |
| `HandleCallDisconnect`, `HandleCallError`, `CallAgain` | the page's reaction, and its time-out; one that runs already is overwritten and not cancelled (`lostTimer`) |
| `HeartbeatConfigured`, `HeartbeatFails` | the configuration of the heartbeat comes, or is refused |
| `Leave`, `LeaveClosedHearing`, `HearingCloses` | `executeWaitingRoomCleanup` |

`mishap`, `heartbeatLost` and `callMissed` are history variables: the four ways
in which a client is left behind, the lost configuration, the call not made.

### MediaDevices, EventsHub, ConferenceStore

`MediaDevices`: `making` is the streams being made, in the order they were
asked for; any of them may be made next (`PublishStream(i)`), and `madeLate`
records that one was made before an earlier one. Devices are looked up
(`lookingUp`) when any are plugged in or out. The microphone goes the same way
and is left out.

`EventsHub`: `attempt` and `delays` are the service's own restarts
(`StartFails`, `DelayEnds`), `OnEventHubReconnecting` and the two that follow it
the library's, `lacking` and `HandleConnectionResult` the pings, and
`UserTriggeredReconnect` the error page's button. `unattended` records that a
connection closed while pings were coming back.

`ConferenceStore`: `truth` is the server's conference, `messages` what the hub
has sent and not yet delivered, `load` the one request for the conference that
counts (a later one cancels it, by `switchMap`), with the answer as it was when
the server gave it. `shown`, `listed` and `logged` are the store. A
transfer's two messages are one step of the server and two of the client.
`HearingDetailsUpdatedMessage` carries the whole conference and is a load that
nobody asked for (`ServerUpdatesDetails`, `ReceiveDetails`); a hearing that
closes is loaded again (`refreshConferenceOnClose$`, in `Receive`).
Locking a room is told and not stored; the conference the server has locks a
room when it is first entered (`UpsertConsultationRoom`).

### Microphone, ConferenceLock, InstantMessages

`Microphone`: every action runs all the effects listening to it, and these
dispatch `toggleAudioMute`: an action here adds the toggles its effects ask
for, having all read the same state, and they are carried out before anything
else happens (`Act`). `pendingWaits` are the waits for the end of a countdown
that nothing cancels. `requests` are the host's orders on their way, `echoes`
what the hub tells a host of its own microphone. The end of a countdown also
publishes what the store says (`CountdownCompletes`), which an older echo may
have set: `republished` records that.

`ConferenceLock`: `updates` go from the supplier to the client, `orders` back,
each in order and each as late as it likes. The client orders only while its
host presides, as chair and in the hearing (`Presides`); either may change
(`HostRoleChanges`, `HostMoves`), a hearing may pause and count down again, and
each end of a countdown at which the host did not preside waits until the host
does (`unlockWaits`). `hasty` records that an order was given before the last
was carried out, `unchecked` that the host came to preside by a status and not
by an update of a participant, which are all that the lock listens to.

`InstantMessages`: each user's connection handles one message at a time
(`handling`), through `SendMessage`'s rounds: shown to each, answered, stored.
`pushed` is on the way to one viewer, with one component open, a window or a
count; `loads` are its requests for the history. `disturbed` records that a
message crossed a load, was missed, or could not be stored.

### HearingLayout

A request to change the layout writes the cache (`UpdateLayout`) and tells the
hosts (`TellHosts`); what others do in between makes its message `late`. The
client of one host has the two subscriptions of the service's constructor: a
load at every connection of the hub (`LayoutHubReturns`), and a load of a
hearing when it is first opened (`OpenHearing`), whose answer begins the
listening (`ShowAnswer`, `HearLayout`, `CloseHearing`). `layoutLoads` holds for
each whether it waits for the hearing, has been sent, has an answer on its way
or has failed (`AnswerLayout`, `LayoutLoadFails`). `stale` and `misled` are
history variables. Every change concerns the one hearing.

## What is checked

| Run | Instance | Properties |
|---|---|---|
| `serial` | 2 participants, 1 endpoint, 2 rooms, 1 worker, callbacks in order, 4 requests | `TypeOK`, `CacheMirrorsSupplier`, `UiMirrorsCache` |
| `linked` | 2 linked participants, 1 room, 1 worker, in order, 6 requests | `CacheMirrorsSupplier`, `EveryRequestIsHandled` |
| `overlap` | 1 participant, 1 endpoint, 1 room, 2 workers, any order, 4 requests | `OccupiedRoomsAreListed`, `OnlyOvertakenHandlersLoseUpdates` |
| `faults` | as `overlap`, 3 requests, 1 fault | `NeverAheadOfVideoApi` |
| `invitations` | 3 linked participants, 1 invitation, 1 worker, 5 answers, 1 refused call | `TransferringIsMoved`, `KeepsThePromise` |
| `invitations_overlap` | 2 linked participants, 1 invitation, 2 workers, 3 answers, 1 fault of any kind | `TypeOK`, `NobodyIsMovedUnasked`, `RefusalsAreLostOnlyInARace` |
| `rooms_overlap` | a representative, a defendant and an endpoint screened from the defendant, 1 room, 2 workers alike, 3 requests, 1 refused call | `CheckedMeetOnlyUnseen`, `TransferringIsMoved` |
| `rooms_answers` | 3 participants, an endpoint, 1 room, 1 worker, requests sent only when all is settled | `ScreenedAreApart`, violated |
| `loader_failures` | 3 instances, 2 conferences, 3 routines, 1 failure of any kind | `LockFoundIsAnothers`, `NoLockIsLeft`, `TheDayIsLoaded` |
| `loader_mutex` | 2 instances, 1 conference, 2 routines, no failures | `AtMostOneLoads`, violated |
| `parts` | each of the nine parts, with the bounds below | `PartsTypeOK`; `StraysHaveACause`, `ConnectedIsTheCall`, `HeartbeatOfTheCall`, `DroppedCallIsRetried`; `StreamFollowsTheDevices`; `SomeoneStartsTheHub`, `HubComesBack`; `StoreCatchesUp`, `RoomsAreListed`; `MicrophoneIsShown`, `MicrophoneIsSet`; `LockFollowsTheGuests`, `LockSettles`; `ConversationIsShown`, `UnreadIsCounted`; `CachedAreTheMembers`, `MembersAreTold`; `LayoutIsShown` |
| `host_unmute` | the microphone alone, 5 acts | `HostIsObeyed`, violated |

**Handled one at a time, the system agrees with itself** (`serial`, `linked`).
When nothing is in progress the cache says of the hearing, of everyone's
connection and of every participant's room what is true at the supplier, and
(in `serial`) between any two requests a client that has followed the messages shows what
one that loads now would be given. For linked participants this needs the
relay: one who joins while the others are in a consultation is first put in
the waiting room, or in the consultation without a room, and a second, made-up
transfer of the whole civilian room puts that right.

**Handled at once, it keeps less** (`overlap`). Requests that interleave do
lose updates, and `CacheMirrorsSupplier` is not claimed of them. What is left:
the cache and the clients are never ahead of the Video API (checked with the
faults, and proved); a room somebody is in is listed; and an update is lost only if another request writes between the
*handler's own* read and its write. The last is why the handlers read the
conference again instead of using the controller's, which is older by all the
Video API calls.

**Faults** (`faults`) are a write that fails (swallowed by `RedisCacheBase`), a
read that fails (a miss), the expiry of the entry and a Video API call that
fails, to raise an event or to read the conference. A single fault can lose updates, so only `NeverAheadOfVideoApi` is
claimed. `OccupiedRoomsAreListed` does not survive a refresh or a miss while
people are in rooms, as the object mapped from the Video API starts with an
empty list of rooms, and is claimed without these.

**Consent** (`invitations`, `invitations_overlap`). Answers handled one at a
time keep the promise of `JointConsent`, also when the Video API refuses and
somebody answers again. With two answers at once they do not: an answer can be
lost, and an older one put back. What is left is that nobody is moved who has
not accepted this very invitation at some time, and that a refusal is
overruled only after such a race or a failure of the cache.

**Screening** (`rooms_overlap`). Two screened parties who both came through a
check share a room only if the cache could not tell: one of them was on the way
when the other was checked, or an older copy of the conference had replaced
the room. The last case is real: `StartParticipantConsultation` stores the
conference as it was before its call to the Video API, and whoever moved in
between is then missing from the room until their next callback. Without that
exception the property fails.

**Answers are not checked** (`rooms_answers`, a violation). See the findings.

**The loader** (`loader_failures`). The lock does not keep two from loading
(`loader_mutex`), but the other danger, that nobody loads, is averted: a
routine goes away without loading only if somebody has taken the lock since,
so a lock left by a crash stops nobody, and every routine is followed by a
complete load unless something fails meanwhile. That is what the removal of the
lock at the beginning is for.

**The members** (`parts`). When every change has been handled, the cached
conference has the people the Video API has, and a cancelled hearing is not in
the cache. The exception is `behind`: a request wrote a copy it had read before
somebody else's change, and nobody has asked the Video API since. A forced
refresh that was not overtaken itself ends it; this is why the internal events
refresh and do not amend the cache. Everyone in the hearing was last told
exactly who is in it, unless a list was told that had been overtaken, or while
the cache was behind. Whoever was removed is told because `ParticipantsUpdated`
looks them up *before* the refresh; if another request refreshes the entry
first, they are in neither conference and are not told (`missedOut`).

**The call** (`parts`). A client that was replaced is out of the conference,
but for four causes: an error of a call or a request, a page left before it was
connected, and a call ended within the half second of a transfer. Without them
the page shows itself connected exactly when its client is, and the connected
call has its own heartbeat. A call the server ended is made again, or the page
is left, though time-outs overwrite each other; the exceptions are a call that
was due while the hub was away, and a failed call the page passes over, after
which nothing calls again.

**The camera** (`parts`). Streams that are made in the order they were asked
for leave the stream of the active camera, whatever is plugged in and chosen
between. Streams made in another order do not: nothing cancels the older.

**The hub** (`parts`). A connection that is down is always somebody's to start,
the service's delay, the return of the network or the user, and once the hub
can be reached for good the page is connected for good or says that it is not.
The exception is a connection that closes while the pings are still coming
back: `online` was already reported, the delay was not started, and nobody
starts it.

**The store** (`parts`). After all messages and loads, everyone is shown where
the server has them, unless a message was lost and nothing loaded since, or the
answer to the last load was older than a message applied before it. Whoever is
in a room sees it listed with the same lock, unless the rooms were listed from
the participants alone or the endpoints alone, as `updateParticipantList` and
`updateExistingEndpoints` do, while the others were in another room or saw
theirs locked otherwise: a lock is kept with each of the people of a room, and
a list of some leaves the others what they had. `StoreCatchesUp` asks for an endpoint's room only
while it is in a consultation: its disconnection does not clear the room on the
server.

**The microphone** (`parts`, `host_unmute`). Who comes into the hearing is muted,
who comes into a consultation is not, and a host gets the preference back after
the countdown, unless two of these happen in one action, whose toggles undo
each other. What is shown is what the client does, but for two causes: a client
replaces another, and the new one is not muted and nothing tells the store; or
the end of a countdown publishes, behind a newer echo, what an older one had
made the store say. `host_unmute`: see the findings.

**The lock** (`parts`). With nothing on its way the client sees what the supplier
has, and while its host presides the hearing is locked when all its guests are
muted, and unlocked after none is. The exception is a host who comes into the
hearing as chair already (`unchecked`): the lock listens to updates of
participants, not to the host's own status, so it stays as it is until the next
update. An unlocking that waited for the host is never left waiting. The
exchange of the two ends, unless an order was given before the last was carried
out: then they can answer each other for ever.

**The messages** (`parts`). A window shows each stored message of its
conversation once, and a count is what the server would compute. The
exceptions are a message that comes, or a conversation that is opened, between
the request for the history and its answer, one missed, one not stored, and for
the count messages that cross.

**The layout** (`parts`). A host in the hearing who listens is shown the layout
that is stored once everything is told and answered, also after messages were
lost with the hub: the load at the next connection makes up for them. The
exceptions are `misled`: two changes that were told in the other order, and an
answer that came after a newer message or one the service did not hear yet.
The hearing is started with the layout that is shown (`startHearing$`,
`video-call-host.effects.ts:375`).

**What the exceptions mean.** Several properties name in a history the very
race that would break them: `OnlyOvertakenHandlersLoseUpdates` the overlap,
`RefusalsAreLostOnlyInARace` answers that meet, `CheckedMeetOnlyUnseen` a party
on the way, `StreamFollowsTheDevices` a stream made late, `RoomsAreListed` a
partial list, `MicrophoneIsSet` two toggles in one action,
`ConversationIsShown` and `UnreadIsCounted` a load that was disturbed,
`CachedAreTheMembers` an overtaken copy. They say that nothing else breaks what
they promise, over every interleaving of everything else, and not that it
cannot be broken: the code has these races.

### Findings

`rooms_answers` checks what the comment on `AreEntitiesScreenedFromEachOther`
(`Conference.cs:200-203`) says of screened entities, that they "cannot be in a
consultation together". A representative starts a consultation and invites a
witness; the defendant, who is screened from the witness, joins the room, in
which there is only the representative; the witness accepts. Each request is
made when all earlier ones are settled. The invitation was checked when it was
made, the join against who was in the room, and the answer not at all
(`ConsultationsController.cs:105-139`). The Video API, which is not in the
repository, is modelled as moving whom it is asked to move.

`loader_mutex` checks what the comment in `LoadDailyConferencesRoutine`
(`ConferenceLoaderService.cs:29`), the log entry "Another VideoWeb instance is
already processing the job" and `ICacheLock` say of the lock. The entry is read
and written in two calls, and removed before it is looked for: two instances
load. The load is idempotent, so the cost is the double load.

`host_unmute` checks what `EventHubClient.cs:286-291` says of
`ToggleParticipantLocalMute`, "A host can force a participant's local mute to be
toggled", "true to mute or false to unmute a participant". The effect
`localUnmuteParticipant$` (`video-call-host.effects.ts:201`) listens to the
action of the effect before it, `localMuteParticipant`: a mute from the host's
menu sends `true` and then `false`, so that the guest ends unmuted, and an
unmute sends nothing. The unit test dispatches the wrong action too.

Met while modelling, and not the subject of a run: `renegotiateCall`
(`video-call.service.ts:428`) tests for a state `pexrtc.js` never has. Plugging
in any device ends audio-only (`user-media.service.ts:271`). `initialising` of
the heartbeat stays set when a call ends before its configuration has come, and
no later call has a heartbeat. An error "Failed to gather IP addresses" is
passed over and not retried. A stream may be published after the room was left.
The good pings that count as a connection need not follow each other. The
conference is loaded when the hub is lost, not when it is back, and what was
sent meanwhile is missing until the next load. `updateRoom`
(`conference.reducer.ts:382`) throws when a lock is told before the conference
is loaded. `loadLoggedInParticipantOnConferenceLoadSuccess$` has no
`catchError`. `updateParticipantList` leaves `loggedInParticipant` as it was. A host who leaves
the waiting room and comes back to the same hearing no longer hears of layouts:
`distinctUntilChanged` (`hearing-layout.service.ts:31`) passes the hearing once
in the life of the service, and leaving has ended the listening. A load of the
layout that fails ends its subscription for good. The map of video controls is
read, amended and written without a lock, and no page of the client uses it.

### Bounds

`MaxEvents` bounds the requests sent in a behaviour, `MaxFaults` the faults.
Four requests are enough for connect, start of the hearing, move and one more
event that overlaps or follows; an overlap of two handlers needs two workers
and two requests that concern different parties, so one participant and one
endpoint suffice, and four requests leave two for bringing them into place.
Two linked participants need six: two joins, two transfers, a disconnection and
the join that is relayed. Five answers let three linked participants all
accept, be refused, and try again; three answers of two are the least in which
a refusal is lost between two acceptances. Three requests in `rooms_overlap` are
a start and two that overlap, which is what it takes for two to meet; that the
handlers of their callbacks read, write and write again makes them many, and
both its properties are proved for any number. Its two workers are alike
(`WorkerSymmetry`; it checks no liveness). One consultation room is
enough, since every property is about two parties in the same room. Three
routines are one that crashes, one that finds or removes what it left, and one
beside it.

In `parts`: four clients and two visits let a call be dropped, made again and
dropped while an older client still calls back, and the page be left and opened
in between; two failed calls reach `ConnectionFailedLimit` (3 in the code).
Two cameras, three streams being made and four acts of the user let a choice
overtake another. Two waits (seven in the code), two good pings (as in the code) and four
outages use up the reconnections and begin them again. One participant, one
endpoint and one room suffice for the store, as every property is about one
party or about a room both are in, and three operations of the server are a
transfer in, one out and one more. Five acts are an arrival, two changes of
status, a countdown and an order of the host. Two guests are the least of whom
one is muted and one not, and three acts around the lock are, say, a host who
comes in as chair when both guests have been muted. Two people of the hearing, two messages and two
opened windows let a message and a history of one conversation get into the
other. Two changes of the bookings, two requests at once, one booked person and
one who joins let an addition, a removal, a refresh, a cancellation and an event
be handled beside each other in every pair. Two layouts, two changes and two
cuts (of the hub, by leaving, by a failed load) let changes cross, one be lost
and made up for, and an answer be overtaken; three changes were checked too.

The models really stop when the requests are used up,
so the configurations turn deadlock checking off.

### Fairness

`FairSpec` asks weak fairness of each worker's steps: a request that has been
taken up goes on, since every await in it returns or throws, and a web server
with a free thread takes up a request that has arrived. Nothing is asked of the
supplier, the browsers or the faults. `FairSpec` of `Consultations` is the same
for its workers: "moved when all have accepted" is a promise that something
happens. `JointConsent` states it as `TheAgreedAreMoved`: those who have agreed
are moved, unless one of them changes the answer or the call fails, which shows
as an answer `Failed`. In `ConferenceLoader` a routine that has begun goes on;
nothing makes one begin.

In `MCParts` the parts have their own. `CallFairness`: the page's own awaits and
time-outs end (`SetUp`, `MakePexipCall`, `CallAgain`, `LeaveClosedHearing`,
`CallElsewhere`), the supplier grants or refuses every token asked for, and of
offers made again and again one is answered at last (strong fairness: each
attempt may be interrupted by a disconnection, or a new client). `HubFairness`:
delays, the library's own reconnection and the pings go on, and a start of the
connection succeeds or fails. `LockFairness`: the supplier carries out orders
and the client receives what it was sent, as both connections keep their
order. Nothing is asked of users, hosts, devices or the network, and a part
that is not chosen has no fair action that is enabled.

## What is proved

`ConferenceEventsProofs` proves, for any number of participants, endpoints,
rooms and requests in progress, any order and any number of faults:

* `TypeCorrect`: `Spec => []TypeOK`. `TypeOK` is not inductive: that a handler
  writes an endpoint's status only for an endpoint depends on which events are
  sent. `TypeInv` strengthens it with `SentEvents` (the events that are sent),
  `ProperCallbacks` (the callbacks that come from them) and `ProperRequests`
  (which steps belong to which request).
* `NeverAhead`: `Spec => []NeverAheadOfVideoApi`. The invariant `SafetyInv`
  says that every copy of the conference there is, in the cache, in the Video
  API, at the clients and in the hands of a worker, is backed by what has been
  raised (`BackedBy`), and that a request which publishes a supplier's
  callbacks has raised all of them (`BackedRequest`): `Pending` is the part
  that makes the order of raising and publishing matter.

The others speak of a behaviour until something fails or expires. `faults`
counts what has, so they hold for any `MaxFaults`: of every behaviour up to its
first fault, and of all of one that has none. What else they ask is asked of
the behaviour, never of a constant:

* `OnlyOvertaken`: `Spec /\ [](faults = 0) => OnlyOvertakenHandlersLoseUpdates`,
  for any number of requests at once, in any order. The invariant
  `FreshInv` says that a handler's copy is what the cache holds until somebody
  else writes; every write by another worker marks it `overtaken`.
* `OccupiedListed`: `Spec /\ []NoRefresh => [](faults = 0 =>
  OccupiedRoomsAreListed)`, for any number of requests at once; `NoRefresh`
  says that no request to rebuild the conference is on its way. Every copy of
  the conference lists the rooms its parties are in (`ListedInv`), which needs
  that until the conference is first cached nobody has been moved, so that the
  object made from the Video API's answer has nobody in a room.

Three more are about behaviours in which requests do not overlap
(`OneAtATime`: there may be any number of workers, but two that have a request
are the same): where requests overlap the code promises none of the three (what
it does promise then are `OnlyOvertaken` and `NeverAhead`). They use
`ListedInv`, and so ask for `NoRefresh`.

* `ShownIsCached`: `Spec /\ []OneAtATime /\ []NoRefresh => [](faults = 0 =>
  UiMirrorsCache)`, requests taken up in any order. Of the worker that has the
  request the invariant `ShownInv` compares what the clients show with the
  cached conference at every step of a handler (`ShownInTime`): they differ by
  the room that has been shown and is about to be written, or by the status
  that has been written and is about to be shown, and by nothing else.
* `CachedIsSupplier`: `Spec /\ []OneAtATime /\ [][InTurn]_vars /\ []NoRefresh
  => [](faults = 0 => CacheMirrorsSupplier)`; `InTurn` says that a step which
  takes up a request takes the one sent first. The cache is behind the supplier
  by what is on its way, so the invariant `MirrorInv` says that there is a
  sequence of worlds (`Behind`), one more than there are requests, each the one
  before with what the request in between tells of (`Happens`). The last is the
  supplier as it is; to the first belongs the request in progress (`Working`):
  whatever the cached conference has otherwise, a callback that is still to be
  handled puts right (`PublishDue`), or the relay does (`RelayIsDue`), which in
  turn needs that the Video API's conference is, or by a callback still to be
  raised will be, right about where everybody is (`RaiseDue`). That a new
  request is all that is due when it is taken up (`RequestExpected`) is where
  each kind of event is looked at. The delicate one is a linked participant who
  joins the others in a consultation: the callback writes a status and no room,
  and the relay that follows transfers the whole civilian room again.
* `ShownIsSupplier`: of the same behaviours, `[](faults = 0 =>
  ShownMirrorsSupplier)`, the two put together. With nothing on its way and the
  conference in the cache, a connected client shows the status of the hearing
  and every participant's room as they are at the supplier, and the status of
  all but linked participants (whose status the supplier does not determine).

`ConsultationsProofs` proves, for any participants, links, invitations and
requests in progress and any number of failures of every kind:

* `ConsultationsTypeCorrect`: `Spec => []TypeOK`.
* `OnlyTheAskedAreMoved`: `Spec => []NobodyIsMovedUnasked`. The invariant
  `ConsentInv` says that every acceptance in the cache, and in the copy a
  request holds, was given by that participant (`Backing`), that such a copy
  has an entry for everyone the invitation is for, and that a request about to
  call the Video API with an acceptance has seen one of everybody. The last
  needs `AskedOK`: only somebody the invitation is for can answer it.
* `RefusalsCount`: `Spec => RefusalsAreLostOnlyInARace`. The invariant
  `NothingIsLost` says that, until something fails, an acceptance in the cache
  is its participant's last answer or is about to be replaced by it
  (`AcceptanceIsLatest`), and a request writes over the newest copy and calls
  on everyone's last answer (`HasTheLatest`). Both rest on `OneResponds`: until
  two answers to an invitation meet, one request is about it.

Three more are about behaviours in which nothing fails but calls that the Video
API refuses (`[][OnlyRefusals]_vars`: `faults` changes only when one is), for
any number of workers and any bounds on what fails:

* `TransfersAreMade`: of an invitation no two answers to which met, a
  participant last told Transferring has been moved when no request is about
  it. The invariant is `IsSeenTo`: whoever is told Transferring is moved, or a
  request sees to it, by going on to the call or by telling the same
  participant Failed. It needs `IsWritten`, that a refusal is in the cache when
  the controller looks, so that a request which has said Transferring carries
  an acceptance.
* `ToldAreMoved`: `TransferringIsMoved` as long as no two answers to an
  invitation have met (`NoneOverlapped`). `AnswersDoNotOverlap` shows that they
  never do where requests are handled one at a time, by however many workers.
* `PromiseIsKept`: a behaviour with no answers meeting satisfies `Promise!Init`
  and `[][Promise!Next]_(Promise!vars)`, the refinement of `JointConsent` but
  for its liveness. A stored invitation is `Ask`, a written response `Answer`,
  a call that succeeds `Move`; `IsUpToDate` (a request that says Transferring
  does so while all agree) gives the last its guard.

`ConsultationRoomsProofs` proves, for any parties, screening, rooms and
requests in progress:

* `RoomsTypeCorrect`: `Spec => []TypeOK`.
* `CheckedStayApart`: `Spec => []CheckedMeetOnlyUnseen`. Meeting is not
  inductive: two who have both been checked and not yet moved already will
  meet. `Apart` therefore says of any two of *requests* and *entries* that
  concern one room that one did not see the other or they are not screened.
  `CacheRight` says what the check can rely on: of a party in a consultation
  room with nothing pending and nothing overwritten, the cached room is where
  the party is. While something is pending the cache, and after the read also
  the handler's copy, will be right once the last callback has been handled. An
  endpoint that has gone is in no room, and the room it keeps in the cache can
  only keep others out.
* `ToldAreMoved`: `Spec => []TransferringIsMoved`. Whoever was last told
  Transferring has come to a room, or a request that told them is about to call
  (`ToldRight`); a participant's own join tells only after the move
  (`Announcing`).

`ConferenceLoaderProofs` proves, for any number of instances, conferences,
routines and failures, `OnlyANewLockStops` (`Spec => []LockFoundIsAnothers`)
and `LocksAreRemoved` (`Spec => []NoLockIsLeft`). The two are inductive
together with the types.

The parts of the client, the layout and the membership are proved one by one,
each from its own `Init` and `Next` and, for any constants, without a bound on
what happens. `PartsImplement` then shows that the parts beside each other
(`Spec` of `MCParts`) behave as the specification of each part, fairness
included: every action of one leaves the variables of the others alone, and
what chooses the parts of a run only restricts it. `PartsTypeCorrect` (`Spec =>
[]PartsTypeOK`) and `PartsSafe` (the fifteen invariants below) follow. What the properties say of the moment when
nothing is on its way, the inductive invariants say of every moment, by naming
where the difference is on its way:

* `MembershipSpecSafe`: `CachedAreTheMembers` and `MembersAreTold`.
  `MembershipIInv` says that whomever the cached conference has otherwise than
  the Video API (`DifferencesAreDue`), a posted update, a refresh that has yet
  to ask or has of that person what is so, or a request that is to add or remove
  them will put right; that a copy nobody has overtaken is what it was taken
  from (`CopiesAreFresh`); and who is yet to be told (`ListsAreDue`,
  `FarewellsAreDue`). `RemovedAreGone` is the delicate part: a removal writes
  the cache after the Video API has removed the person, who may be booked again
  meanwhile. It needs `MembersAreKnown`, that nobody is added who is being
  removed, which is true because a visitor joins once.
* `StoreSpecSafe`: `StoreCatchesUp` and `RoomsAreListed`. For every person,
  either the store has what the server has, or a message of theirs is on its
  way after everything older, or a load is, or a message with the whole
  conference.
* `ChatSpecSafe`: `ConversationIsShown` and `UnreadIsCounted`. A message is in
  one queue or in one history (`HandledOnce`), and while a history is loaded
  nothing happens to it, or the load is `disturbed` (`HistoryIsLoaded`). From
  then on the messages in the window and on their way there are those stored and
  those shown but not yet stored (`WindowIsLoaded`), and the count, after what
  is on its way has changed it, is the one the history will give
  (`CountIsLoaded`). The last needs `OneSideSpeaks`: a message of the officer
  clears the count when it is stored and one of the participant adds to it when
  it is shown, so only while one side at a time has messages to be handled does
  their order not matter.
* `CallSpecSafe`: `StraysHaveACause`, `ConnectedIsTheCall`,
  `HeartbeatOfTheCall`. Until a mishap there is one client that has, or is to
  have, a call (`OneIsCurrent`), and the page waits for one thing at a time.
* `LockSpecSafe`: `LockFollowsTheGuests`. The last update on its way about each
  guest, and about the lock, is what the supplier has (`WordsFollow`); guests
  who are all seen muted are about to be locked or one is about not to be muted
  (`LockComes`), and none seen muted conversely (`UnlockComes`).
  `LockedAmidMutes` excludes that a lock is told before the mutes it comes with
  and they are taken back unseen. `LockComes` and
  `UnlockComes` are asked of a host who presides and has been told of somebody
  since (`Watches`), and no wait is left then (`NobodyWaits`).
* `MuteSpecSafe`: `MicrophoneIsShown`, `MicrophoneIsSet`. The last echo on its
  way is the microphone (`LastEcho`), as long as nothing was published again
  behind it, and what an arrival should make of it is
  missing an odd number of toggles exactly if it is not so yet
  (`ToggleMissing`).
* `MediaSpecSafe`: `StreamFollowsTheDevices`. The stream asked for last is of
  the active camera (`LastAskedFor`).
* `LayoutSpecSafe`: `LayoutIsShown`. A host who is not shown the stored layout
  will be told, by a request that has yet to, a message that is not late, or an
  answer (`LayoutOnItsWay`).
* `HubSpecSafe`: `SomeoneStartsTheHub`. A promise is of a delay that runs, and
  the error page is shown while somebody listens.

Each invariant was checked by TLC on small instances before it was proved, and
two of the models were wrong where a proof did not go through. Lists of the
participants alone can also leave two people of a room with two ideas of its
lock, which one more operation of the server than `parts` allows brings about
(`forgotten` now counts it); and a visitor who came back under the same name
while two requests removed them made `CachedAreTheMembers` false with four
bookings, where the code makes another participant.

The assumptions are the named `ASSUME`s of the modules: the kinds of
identifiers are different from each other (a participant is not an endpoint),
the guests of a hearing are some and finitely many, and, in `ConsultationRooms`,
an endpoint is not screened from the participant it is linked to.

Every invariant of the passing runs is stated by a theorem, and so are the
action properties. Model-checked only are, of `KeepsThePromise`, that those who
have agreed are moved, and the liveness properties (`EveryRequestIsHandled`,
`TheDayIsLoaded`, `DroppedCallIsRetried`, `HubComesBack`, `LockSettles`): they
follow from fairness, and what follows from fairness is out of the prover's
reach.

## Plan

In order of importance; each module is to have one configuration and proofs
where the table of hazards asks for them.

1. `Conference`, `ConferenceEvents`: done.
2. `JointConsent`, `Consultations`, `ConsultationRooms`: done, but for the lock
   of the judicial consultation room.
3. `ConferenceLoader`: done. The lock of the judicial consultation room, which
   is looked at, set and left to expire, and which a second comer waits for only
   three seconds, is still to be modelled.
4. `ConferenceMembership`, `ConferenceStore`, `InstantMessages`: done.
5. `VideoCall`, `MediaDevices`, `EventsHub`, `Microphone`, `ConferenceLock`: done.
6. `HubConnections`: connections, groups and the user caches; not begun.
7. `HearingLayout`: done. Of the other controls of a hearing, transfers and the
   hand only forward on the server; not begun.

To be proved next: the safety of what is still to be modelled.

## Not modelled

In `Consultations`, who may be invited (that is `ConsultationRooms`) and the
officers' invitations without an inviter. In `ConsultationRooms`, the joint
answers of linked participants (that is `Consultations`), failures of the cache
and what else a handler changes and tells (that is `ConferenceEvents`); the
callbacks of one party are handled in order there. In `InstantMessages`, the wait
for `getUserData` between receiving a message and showing it: both identity
services answer a subscriber at once, from stored data
(`angular-auth-oidc-client`) or from a `ReplaySubject` that is filled when the
user is found authorised (`quick-link-security.service.ts:40,122`), so nothing
comes in between.

Telephone participants (they have no part in rooms beyond their own list),
allocation to officers, the text of messages, logging, authentication,
equipment checks and presentation; what each component leaves out is in
`PROJECT.json`. Times are left out: that a callback is older than the last
update is logged and otherwise ignored by the code
(`ValidateParticipantEventReceivedAfterLastUpdate`).

Of the server, the map of video controls, the recommended layout, the lock of the
judicial consultation room (looked at, then set; it expires after fifteen
seconds, and a second comer waits three and goes on), the connections and
groups of the hub and the caches of users it clears. In `ConferenceMembership`,
names, roles, endpoints, the Video API failing for another reason than a
removed conference or participant, and the read with which a staff member's
join ends.

Of the client, the audio recording, hands, spotlights and admissions,
notifications, the statuses of consultation calls, endpoints that are added and
removed, the self test, display names, presentations, the microphone's device,
the media negotiation inside `pexrtc.js`, and the pages of officers other than
the chat. Whether a message is shown as failed is left out, as
`checkIfMessageFailed` never marks one. `scripts/vodafoneV36/pexrtc.js` is a
later version of the same library, of which only the first is mapped. The API
clients (`services/clients/api-client.ts`) are generated.
