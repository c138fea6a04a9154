---------------------------- MODULE MediaDevices ----------------------------
(***************************************************************************)
(* The camera of the user: which one is active (user-media.service.ts),    *)
(* the stream made of it (user-media-stream-v2.service.ts,                 *)
(* media-stream.service.ts) and when the video call asks for one.  The     *)
(* microphone goes the same way and is left out.                           *)
(*                                                                         *)
(* Devices are looked up, and streams made, asynchronously, and no request *)
(* in flight is cancelled by a later one: the last to be answered, not the *)
(* last to be asked for, is the stream that stays.                         *)
(***************************************************************************)
EXTENDS Naturals, Sequences

CONSTANTS
  Cameras,
  NoCamera,       \* no camera, or one that is not shown
  MaxRequests,    \* bound on the streams being made at a time
  MaxChanges      \* bound on what the user does in a behaviour

ASSUME MediaDevicesAssumption ==
  NoCamera \notin Cameras /\ MaxRequests \in Nat /\ MaxChanges \in Nat

VARIABLES
  plugged,        \* the cameras there are
  initialised,    \* UserMediaService.initialised
  lookingUp,      \* handleDeviceChange is waiting for the list of devices
  activeCamera,   \* activeVideoDevice
  preferred,      \* vh.preferred.camera in the local storage
  audioOnly,      \* isAudioOnly
  announced,      \* activeVideoDevice$ and isAudioOnly$ have a value
  making,         \* the cameras of the streams being made, oldest first
  stream,         \* the camera of currentStream
  live,           \* its picture has not been stopped
  inRoom,         \* the waiting room is open
  inCall,         \* its call is connected
  changes,        \* bounded by MaxChanges
  madeLate        \* history: a stream was made before one asked for earlier

deviceVars == <<plugged, initialised, lookingUp, activeCamera, preferred,
                audioOnly, announced>>
streamVars == <<making, stream, live, madeLate>>
roomVars == <<inRoom, inCall>>
mediaVars == <<deviceVars, streamVars, roomVars, changes>>

Shown(camera, hidden) == IF hidden THEN NoCamera ELSE camera

UserDoes ==
  /\ changes < MaxChanges
  /\ changes' = changes + 1

-----------------------------------------------------------------------------
(***************************************************************************)
(* The stream.                                                             *)
(***************************************************************************)
\* Mutant: nothing is made while another stream is being made.
CreateAndPublishStreamOnce(requests) ==
  /\ making' = IF making = <<>> THEN requests ELSE making
  /\ live' = (live /\ requests = <<>>)
  /\ UNCHANGED <<stream, madeLate>>

\* createAndPublishStream, for one emission of the devices after the other: the
\* tracks of the current stream are stopped at once, so it is never published
\* again, and the new ones are asked for.
CreateAndPublishStream(requests) ==
  /\ Len(making \o requests) <= MaxRequests
  /\ making' = making \o requests
  /\ live' = (live /\ requests = <<>>)
  /\ UNCHANGED <<stream, madeLate>>

\* Nothing is made before the devices have been announced.
CreateForDevices ==
  CreateAndPublishStream(
    IF announced THEN <<Shown(activeCamera, audioOnly)>> ELSE <<>>)

CloseCurrentStream(requests) ==
  /\ Len(making \o requests) <= MaxRequests
  /\ making' = making \o requests
  /\ live' = FALSE
  /\ stream' = NoCamera
  /\ UNCHANGED madeLate

-----------------------------------------------------------------------------
(***************************************************************************)
(* The devices.                                                            *)
(***************************************************************************)
\* Devices go to the stream service when one of their values has changed.
Announce(camera, hidden, requests) ==
  /\ activeCamera' = camera
  /\ preferred' = IF camera = NoCamera THEN preferred ELSE camera
  /\ audioOnly' = hidden
  /\ announced' = TRUE
  /\ CreateAndPublishStream(requests)
  /\ UNCHANGED <<plugged, initialised>>

InitialiseMedia ==
  /\ initialised' = TRUE
  /\ lookingUp' = (lookingUp \/ ~initialised)
  /\ UNCHANGED <<plugged, activeCamera, preferred, audioOnly, announced>>

PlugOrUnplug ==
  /\ UserDoes
  /\ \E c \in Cameras :
       plugged' = IF c \in plugged THEN plugged \ {c} ELSE plugged \cup {c}
  /\ lookingUp' = initialised
  /\ UNCHANGED <<initialised, activeCamera, preferred, audioOnly, announced,
                 streamVars, roomVars>>

LoadDefaultCamera(available) ==
  IF available = {} THEN NoCamera ELSE CHOOSE c \in available : TRUE

CameraFromCache(available) ==
  IF preferred \in available THEN preferred ELSE LoadDefaultCamera(available)

\* The list comes: a camera is chosen if there was none, audio-only is switched
\* off, and a camera that has gone is replaced.  An access the browser refuses
\* comes as an empty list.
HandleDeviceChange ==
  /\ lookingUp
  /\ lookingUp' = FALSE
  /\ \E available \in {plugged, {}} :
       LET first == IF activeCamera = NoCamera
                      THEN CameraFromCache(available) ELSE activeCamera
           then == IF first \in available
                     THEN first ELSE LoadDefaultCamera(available)
           shownFirst == IF announced /\ first = activeCamera /\ ~audioOnly
                           THEN <<>> ELSE <<first>>
           shownThen == IF then = first THEN <<>> ELSE <<then>>
       IN  Announce(then, FALSE, shownFirst \o shownThen)
  /\ UNCHANGED <<roomVars, changes>>

\* The dialog offers the cameras of the last list.
UpdateActiveCamera(camera) ==
  /\ UserDoes
  /\ announced /\ camera # activeCamera
  /\ camera \in plugged \/ lookingUp
  /\ Announce(camera, audioOnly, <<Shown(camera, audioOnly)>>)
  /\ UNCHANGED <<lookingUp, roomVars>>

UpdateIsAudioOnly ==
  /\ UserDoes
  /\ announced
  /\ Announce(activeCamera, ~audioOnly, <<Shown(activeCamera, ~audioOnly)>>)
  /\ UNCHANGED <<lookingUp, roomVars>>

\* A background filter is chosen or removed.
UpdateFilter ==
  /\ UserDoes
  /\ CreateForDevices
  /\ UNCHANGED <<deviceVars, roomVars>>

-----------------------------------------------------------------------------
(***************************************************************************)
(* The waiting room and its call.                                          *)
(***************************************************************************)
\* A room that is left asks for a stream of its own while it ends the call,
\* and closes the one there is.
LeaveRoom ==
  /\ inRoom
  /\ inRoom' = FALSE
  /\ inCall' = FALSE
  /\ CloseCurrentStream(
       IF inCall /\ announced THEN <<Shown(activeCamera, audioOnly)>> ELSE <<>>)

UserLeaves ==
  /\ LeaveRoom
  /\ UNCHANGED <<deviceVars, changes>>

EnterRoom ==
  /\ ~inRoom
  /\ UserDoes
  /\ inRoom' = TRUE
  /\ InitialiseMedia
  /\ CreateForDevices
  /\ UNCHANGED inCall

ConnectRoom ==
  /\ inRoom /\ ~inCall
  /\ live
  /\ inCall' = TRUE
  /\ UNCHANGED <<deviceVars, streamVars, inRoom, changes>>

\* The client is replaced, and a stream made for the new one.
DropCall ==
  /\ inCall
  /\ inCall' = FALSE
  /\ CreateForDevices
  /\ UNCHANGED <<deviceVars, inRoom, changes>>

\* A stream is there.
PublishStream(i) ==
  /\ making[i] \in plugged \cup {NoCamera}
  /\ making' = SubSeq(making, 1, i - 1) \o SubSeq(making, i + 1, Len(making))
  /\ stream' = making[i]
  /\ live' = TRUE
  /\ madeLate' = (madeLate \/ i > 1)
  /\ UNCHANGED <<deviceVars, roomVars, changes>>

\* The camera cannot be had: an error page, for which the room is left, and a
\* stream without a picture.
PublishWithoutCamera(i) ==
  /\ making[i] \in Cameras \ plugged
  /\ making' = SubSeq(making, 1, i - 1) \o SubSeq(making, i + 1, Len(making))
                 \o (IF inCall THEN <<Shown(activeCamera, audioOnly)>> ELSE <<>>)
  /\ stream' = NoCamera
  /\ live' = FALSE
  /\ madeLate' = (madeLate \/ i > 1)
  /\ inRoom' = FALSE /\ inCall' = FALSE
  /\ UNCHANGED <<deviceVars, changes>>

MediaInit ==
  /\ plugged = Cameras
  /\ initialised = FALSE /\ lookingUp = FALSE
  /\ activeCamera = NoCamera /\ preferred = NoCamera
  /\ audioOnly = TRUE /\ announced = FALSE
  /\ making = <<>> /\ stream = NoCamera /\ live = FALSE
  /\ inRoom = FALSE /\ inCall = FALSE
  /\ changes = 0
  /\ madeLate = FALSE

MediaNext ==
  \/ PlugOrUnplug \/ HandleDeviceChange
  \/ \E c \in Cameras : UpdateActiveCamera(c)
  \/ UpdateIsAudioOnly \/ UpdateFilter
  \/ UserLeaves \/ EnterRoom \/ ConnectRoom \/ DropCall
  \/ \E i \in DOMAIN making : PublishStream(i) \/ PublishWithoutCamera(i)

MediaSpec == MediaInit /\ [][MediaNext]_mediaVars

-----------------------------------------------------------------------------
(***************************************************************************)
(* Properties.                                                             *)
(***************************************************************************)
MediaTypeOK ==
  /\ plugged \subseteq Cameras
  /\ {activeCamera, preferred, stream} \subseteq Cameras \cup {NoCamera}
  /\ making \in Seq(Cameras \cup {NoCamera})
  /\ {initialised, lookingUp, audioOnly, announced, live, inRoom, inCall,
      madeLate} \subseteq BOOLEAN
  /\ changes \in 0..MaxChanges

\* When nothing is in flight a stream that is running is of the camera that is
\* active, and shows none while the user is heard only, whatever was plugged
\* in, chosen, entered and left meanwhile - unless one stream was made before
\* another that had been asked for earlier.
StreamFollowsTheDevices ==
  live /\ making = <<>> /\ ~lookingUp /\ ~madeLate =>
    stream = Shown(activeCamera, audioOnly)
=============================================================================
