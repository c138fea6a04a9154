------------------------ MODULE ClientDevicesProofs ------------------------
(***************************************************************************)
(* The parts of a browser that keep themselves in step with something that *)
(* answers late: the connection to the hub, the microphone, the camera, the*)
(* layout of the hearing, the call and the host's lock.  Each has an       *)
(* inductive invariant that says where what is not yet so is on its way,   *)
(* for any number of cameras, loads, requests, clients and guests and any  *)
(* bounds on what happens.  At the end the parts, with the store, the chat *)
(* and the membership, are put beside each other: MCParts' Spec behaves as *)
(* each of them, and so has the properties of all.                         *)
(*                                                                         *)
(* The flags are apart from the other variables because the provers decide *)
(* them separately.                                                        *)
(***************************************************************************)
EXTENDS MCParts, ConferenceStoreProofs, InstantMessagesProofs,
        ConferenceMembershipProofs, SequenceTheorems, FiniteSetTheorems, TLAPS

-----------------------------------------------------------------------------
(***************************************************************************)
(* The hub: a connection that is down is somebody's to start.              *)
(***************************************************************************)
\* HubTypeOK, its numbers apart from its flags.
HubFlags ==
  /\ configured \in BOOLEAN /\ waiting \in BOOLEAN
  /\ errorPage \in BOOLEAN /\ unattended \in BOOLEAN

HubCounts ==
  /\ hub \in {"disconnected", "connecting", "connected", "reconnecting"}
  /\ attempt \in Nat /\ delays \in Nat /\ subscribers \in Nat
  /\ lacking \in 0..GoodPingsRequired
  /\ network \in {"up", "noHub", "down"} /\ outages \in 0..MaxOutages

\* What keeps a connection somebody's to start: a promise is of a delay that is
\* running, and the error page of attempts somebody will ask for again.
HubInv ==
  /\ HubCounts
  /\ waiting => delays > 0
  /\ errorPage => subscribers > 0
  /\ SomeoneStartsTheHub

LEMMA HubTypes == HubFlags /\ HubInv => HubTypeOK
BY Zenon DEF HubFlags, HubInv, HubCounts, HubTypeOK

LEMMA HubInitInv == HubInit => HubFlags /\ HubInv
<1>1. HubInit => HubFlags
  BY DEF HubInit, HubFlags
<1>2. HubInit => HubInv
  BY EventsHubAssumption
  DEF HubInit, HubInv, HubCounts, SomeoneStartsTheHub, online
<1>3. QED
  BY <1>1, <1>2

LEMMA HubFlagsStep == HubFlags /\ [HubNext]_hubVars => HubFlags'
BY DEF HubFlags, HubNext, hubVars, serviceVars, ConfigureConnection, Start,
       StartConnection, StartSucceeds, StartFails, Reconnect, DelayEnds,
       OnEventHubReconnecting, OnEventHubConnected, OnEventHubClose, online,
       HandleConnectionResult, UserTriggeredReconnect, NetworkChanges

LEMMA HubNextInv == HubFlags /\ HubInv /\ [HubNext]_hubVars => HubInv'
<1> SUFFICES ASSUME HubFlags, HubInv, [HubNext]_hubVars PROVE HubInv'
  OBVIOUS
<1> USE EventsHubAssumption DEF HubFlags, HubInv, HubCounts, SomeoneStartsTheHub, online
<1>1. CASE ConfigureConnection
  BY <1>1 DEF ConfigureConnection, Start, StartConnection
<1>2. CASE StartSucceeds
  BY <1>2 DEF StartSucceeds
<1>3. CASE StartFails
  BY <1>3 DEF StartFails, Reconnect
<1>4. CASE DelayEnds
  BY <1>4 DEF DelayEnds, StartConnection
<1>5. CASE OnEventHubReconnecting
  BY <1>5 DEF OnEventHubReconnecting
<1>6. CASE OnEventHubConnected
  BY <1>6 DEF OnEventHubConnected
<1>7. CASE OnEventHubClose
  BY <1>7 DEF OnEventHubClose
<1>8. CASE HandleConnectionResult
  BY <1>8 DEF HandleConnectionResult, Start, StartConnection
<1>9. CASE UserTriggeredReconnect
  BY <1>9 DEF UserTriggeredReconnect
<1>10. CASE NetworkChanges
  BY <1>10 DEF NetworkChanges, serviceVars
<1>11. CASE UNCHANGED hubVars
  BY <1>11 DEF hubVars, serviceVars
<1>12. QED
  BY <1>1, <1>2, <1>3, <1>4, <1>5, <1>6, <1>7, <1>8, <1>9, <1>10, <1>11
  DEF HubNext

\* In EventsService a configured connection that is down is somebody's to start,
\* whatever the failures, the delays, the pings and the user do, unless it closed
\* while the pings went on coming back.
THEOREM HubSpecSafe == HubSpec => [](HubTypeOK /\ SomeoneStartsTheHub)
<1>1. HubFlags /\ HubInv => HubTypeOK /\ SomeoneStartsTheHub
  BY HubTypes DEF HubInv
<1>2. QED
  BY <1>1, HubInitInv, HubFlagsStep, HubNextInv, PTL DEF HubSpec

-----------------------------------------------------------------------------
(***************************************************************************)
(* The microphone: the last of the echoes is what the client does, and what *)
(* set it last has asked for the toggles that are missing.                 *)
(***************************************************************************)
MuteFlags ==
  /\ prefersMuted \in BOOLEAN /\ chair \in BOOLEAN /\ micCall \in BOOLEAN
  /\ micMuted \in BOOLEAN /\ shownMuted \in BOOLEAN /\ replaced \in BOOLEAN
  /\ republished \in BOOLEAN

MuteSorts ==
  /\ role \in {"nobody", "host", "guest"}
  /\ status \in Statuses
  /\ toggles \in Nat /\ pendingWaits \in Nat
  /\ requests \in Seq(BOOLEAN) /\ echoes \in Seq(BOOLEAN)
  /\ muteActs \in 0..MaxMuteActs
  /\ last \in Statuses \cup {"restored", "other"}
  /\ commanded \in {"nothing", "mute", "unmute"}

\* Of the media statuses on their way back the last says what the client does.
LastEcho ==
  /\ role # "host" => echoes = <<>>
  /\ ~replaced /\ ~republished =>
       IF echoes = <<>> THEN shownMuted = micMuted
                        ELSE echoes[Len(echoes)] = micMuted

\* What has set the microphone last has asked for the one toggle that is
\* missing, and for no other.
ToggleMissing ==
  /\ role = "nobody" => last = "other" /\ toggles = 0 /\ requests = <<>>
  /\ last = "InHearing" => toggles = Toggle(~micMuted)
  /\ last = "InConsultation" => toggles = Toggle(micMuted)
  /\ last = "restored" => toggles = Toggle(micMuted # prefersMuted)

LEMMA EchoSent ==
  ASSUME NEW s \in Seq(BOOLEAN), NEW b \in BOOLEAN
  PROVE  /\ Append(s, b) \in Seq(BOOLEAN) /\ Append(s, b) # <<>>
         /\ Append(s, b)[Len(Append(s, b))] = b
BY AppendProperties

LEMMA EchoHeard ==
  ASSUME NEW s \in Seq(BOOLEAN), s # <<>>
  PROVE  /\ Tail(s) \in Seq(BOOLEAN) /\ Head(s) \in BOOLEAN
         /\ Tail(s) = <<>> => Head(s) = s[Len(s)]
         /\ Tail(s) # <<>> => Tail(s)[Len(Tail(s))] = s[Len(s)]
<1>1. Tail(s) \in Seq(BOOLEAN) /\ Len(Tail(s)) = Len(s) - 1 /\ Head(s) = s[1]
      /\ \A i \in 1..Len(Tail(s)) : Tail(s)[i] = s[i + 1]
  BY HeadTailProperties
<1>2. Len(s) \in Nat /\ Len(s) > 0 /\ s[1] \in BOOLEAN
  BY EmptySeq, ElementOfSeq, LenProperties
<1>3. CASE Tail(s) = <<>>
  <2>1. Len(s) = 1
    BY <1>1, <1>2, <1>3, EmptySeq
  <2>2. QED
    BY <2>1, <1>1, <1>2, <1>3
<1>4. CASE Tail(s) # <<>>
  <2>1. Len(Tail(s)) \in Nat /\ Len(Tail(s)) > 0
    BY <1>1, <1>4, EmptySeq, LenProperties
  <2>2. Tail(s)[Len(Tail(s))] = s[Len(Tail(s)) + 1]
    BY <1>1, <2>1
  <2>3. Len(Tail(s)) + 1 = Len(s)
    BY <1>1, <1>2
  <2>4. QED
    BY <2>2, <2>3, <1>1, <1>2, <1>4
<1>5. QED
  BY <1>3, <1>4

LEMMA MuteFlagsStep ==
  MuteFlags /\ requests \in Seq(BOOLEAN) /\ echoes \in Seq(BOOLEAN)
    /\ [MuteNext]_muteVars => MuteFlags'
<1> SUFFICES ASSUME MuteFlags, requests \in Seq(BOOLEAN), echoes \in Seq(BOOLEAN),
                    [MuteNext]_muteVars
             PROVE  MuteFlags'
  OBVIOUS
<1>1. CASE CountdownCompletes
  <2>1. republished' \in BOOLEAN
    <3>1. CASE status = "InHearing"
      BY <1>1, <3>1 DEF CountdownCompletes
    <3>2. CASE status # "InHearing"
      BY <1>1, <3>2 DEF CountdownCompletes, MuteFlags
    <3>3. QED
      BY <3>1, <3>2
  <2>2. QED
    BY <1>1, <2>1 DEF CountdownCompletes, MuteFlags, userOfMic, callOfMic
<1>2. CASE ReceiveEcho
  BY <1>2, EchoHeard DEF ReceiveEcho, MuteFlags, userOfMic, callOfMic
<1>3. CASE Arrive \/ \E st \in Statuses : StatusChanges(st)
  BY <1>3 DEF MuteFlags, userOfMic, callOfMic, hubOfMic, Arrive, StatusChanges
<1>4. CASE ToggleAudioMute
  BY <1>4 DEF MuteFlags, userOfMic, callOfMic, hubOfMic, ToggleAudioMute
<1>5. ASSUME NEW ch \in BOOLEAN, NEW remoteMuted \in BOOLEAN,
             PexipParticipantChanges(ch, remoteMuted)
      PROVE  MuteFlags'
  BY <1>5 DEF MuteFlags, userOfMic, callOfMic, hubOfMic, PexipParticipantChanges
<1>6. CASE UserTogglesMute \/ HostTogglesLocalMute
             \/ \E muted \in BOOLEAN : HostMutesAll(muted)
  BY <1>6 DEF MuteFlags, userOfMic, callOfMic, hubOfMic, UserTogglesMute,
    HostTogglesLocalMute, HostMutesAll
<1>7. CASE ReceiveLocalMute
  BY <1>7 DEF MuteFlags, userOfMic, callOfMic, hubOfMic, ReceiveLocalMute
<1>8. CASE MicCallStarts \/ MicClientReplaced
  BY <1>8 DEF MuteFlags, userOfMic, callOfMic, hubOfMic, MicCallStarts,
    MicClientReplaced
<1>9. CASE UNCHANGED muteVars
  BY <1>9 DEF MuteFlags, muteVars, userOfMic, callOfMic, hubOfMic
<1>10. QED
  BY <1>1, <1>2, <1>3, <1>4, <1>5, <1>6, <1>7, <1>8, <1>9 DEF MuteNext

MuteInv == MuteSorts /\ LastEcho /\ ToggleMissing

LEMMA MuteInitInv == MuteInit => MuteFlags /\ MuteInv
<1>1. MuteInit => MuteFlags
  BY DEF MuteInit, MuteFlags
<1>2. MuteInit => MuteSorts
  BY MicrophoneAssumption DEF MuteInit, MuteSorts, Statuses
<1>3. MuteInit => LastEcho /\ ToggleMissing
  BY DEF MuteInit, LastEcho, ToggleMissing
<1>4. QED
  BY <1>1, <1>2, <1>3 DEF MuteInv

LEMMA MuteSortsStep ==
  ASSUME MuteFlags, MuteSorts, [MuteNext]_muteVars
  PROVE  MuteSorts'
<1> USE MicrophoneAssumption DEF MuteSorts, Act, Toggle, userOfMic, callOfMic, hubOfMic
<1>1. CASE Arrive
  BY <1>1 DEF Arrive
<1>2. CASE ToggleAudioMute
  <2>1. (~micMuted) \in BOOLEAN
    OBVIOUS
  <2>2. echoes' \in Seq(BOOLEAN)
    BY <1>2, <2>1, EchoSent, Zenon DEF ToggleAudioMute
  <2>3. QED
    BY <1>2, <2>2 DEF ToggleAudioMute
<1>3. ASSUME NEW st \in Statuses, StatusChanges(st) PROVE MuteSorts'
  BY <1>3 DEF StatusChanges
<1>4. ASSUME NEW ch \in BOOLEAN, NEW remoteMuted \in BOOLEAN,
             PexipParticipantChanges(ch, remoteMuted)
      PROVE  MuteSorts'
  BY <1>4 DEF PexipParticipantChanges
<1>5. CASE CountdownCompletes
  <2>1. shownMuted \in BOOLEAN
    BY DEF MuteFlags
  <2>2. echoes' \in Seq(BOOLEAN)
    BY <1>5, <2>1, EchoSent, Zenon DEF CountdownCompletes
  <2>3. QED
    BY <1>5, <2>2 DEF CountdownCompletes
<1>6. CASE UserTogglesMute
  BY <1>6 DEF UserTogglesMute
<1>7. CASE HostTogglesLocalMute
  <2>1. <<TRUE, FALSE>> \in Seq(BOOLEAN)
    OBVIOUS
  <2>2. requests' \in Seq(BOOLEAN)
    BY <1>7, <2>1, ConcatProperties, Zenon DEF HostTogglesLocalMute
  <2>3. QED
    BY <1>7, <2>2 DEF HostTogglesLocalMute
<1>8. ASSUME NEW muted \in BOOLEAN, HostMutesAll(muted) PROVE MuteSorts'
  BY <1>8, EchoSent DEF HostMutesAll
<1>9. CASE ReceiveLocalMute
  BY <1>9, EchoHeard DEF ReceiveLocalMute
<1>10. CASE ReceiveEcho
  BY <1>10, EchoHeard DEF ReceiveEcho
<1>11. CASE MicCallStarts
  BY <1>11 DEF MicCallStarts
<1>12. CASE MicClientReplaced
  BY <1>12 DEF MicClientReplaced
<1>13. CASE UNCHANGED muteVars
  BY <1>13 DEF muteVars
<1>14. QED
  BY <1>1, <1>2, <1>3, <1>4, <1>5, <1>6, <1>7, <1>8, <1>9, <1>10, <1>11,
     <1>12, <1>13 DEF MuteNext

LEMMA LastEchoStep ==
  ASSUME MuteFlags, MuteSorts, LastEcho, [MuteNext]_muteVars
  PROVE  LastEcho'
<1> USE DEF LastEcho, MuteSorts, userOfMic, callOfMic, hubOfMic
<1>1. CASE ToggleAudioMute
  BY <1>1, EchoSent DEF ToggleAudioMute, MuteFlags
<1>2. CASE ReceiveEcho
  BY <1>2, EchoHeard DEF ReceiveEcho
<1>3. CASE MicClientReplaced
  BY <1>3 DEF MicClientReplaced, Act
<1>4. CASE Arrive
  BY <1>4 DEF Arrive
<1>5. CASE CountdownCompletes
  BY <1>5, EchoSent DEF CountdownCompletes, MuteFlags
<1>6. CASE UNCHANGED <<role, echoes, shownMuted, micMuted, replaced, republished>>
  BY <1>6
<1>7. QED
  BY <1>1, <1>2, <1>3, <1>4, <1>5, <1>6
  DEF MuteNext, muteVars, StatusChanges, PexipParticipantChanges,
      UserTogglesMute, HostTogglesLocalMute, HostMutesAll,
      ReceiveLocalMute, MicCallStarts

LEMMA ToggleMissingStep ==
  ASSUME MuteFlags, MuteSorts, ToggleMissing, [MuteNext]_muteVars
  PROVE  ToggleMissing'
<1> USE DEF ToggleMissing, MuteSorts, MuteFlags, Act, Toggle, CallMuted, userOfMic, callOfMic, hubOfMic
<1>1. CASE Arrive
  BY <1>1 DEF Arrive
<1>2. CASE ToggleAudioMute
  <2>1. /\ toggles > 0 /\ toggles' = toggles - 1
        /\ micMuted' <=> ~micMuted
        /\ role' = role /\ last' = last /\ prefersMuted' = prefersMuted
        /\ requests' = requests
    BY <1>2 DEF ToggleAudioMute
  <2>2. role # "nobody"
    BY <2>1
  <2>3. last' = "InHearing" => micMuted' /\ toggles' = 0
    BY <2>1
  <2>4. last' = "InConsultation" => ~micMuted' /\ toggles' = 0
    BY <2>1
  <2>5. last' = "restored" => toggles' = 0 /\ micMuted # prefersMuted
    BY <2>1
  <2>6. micMuted' \in BOOLEAN
    BY MuteFlagsStep, Zenon
  <2>7. micMuted # prefersMuted => micMuted' = prefersMuted'
    BY <2>1, <2>6, Zenon
  <2>8. QED
    BY <2>1, <2>2, <2>3, <2>4, <2>5, <2>7
<1>3. ASSUME NEW st \in Statuses, StatusChanges(st) PROVE ToggleMissing'
  BY <1>3 DEF StatusChanges, Statuses, IsChairInHearing
<1>4. ASSUME NEW ch \in BOOLEAN, NEW remoteMuted \in BOOLEAN,
             PexipParticipantChanges(ch, remoteMuted)
      PROVE  ToggleMissing'
  BY <1>4 DEF PexipParticipantChanges, IsChairInHearing
<1>5. CASE CountdownCompletes
  BY <1>5 DEF CountdownCompletes
<1>6. CASE UserTogglesMute
  BY <1>6 DEF UserTogglesMute
<1>7. CASE HostTogglesLocalMute
  BY <1>7 DEF HostTogglesLocalMute
<1>8. ASSUME NEW muted \in BOOLEAN, HostMutesAll(muted) PROVE ToggleMissing'
  BY <1>8 DEF HostMutesAll
<1>9. CASE ReceiveLocalMute
  <2>1. /\ toggles = 0 /\ toggles' \in {0, 1}
        /\ last' = IF toggles' > 0 THEN "other" ELSE last
        /\ micMuted' = micMuted /\ prefersMuted' = prefersMuted /\ role' = role
        /\ requests # <<>>
    BY <1>9 DEF ReceiveLocalMute
  <2>2. QED
    BY <2>1
<1>10. CASE ReceiveEcho
  BY <1>10 DEF ReceiveEcho
<1>11. CASE MicCallStarts
  BY <1>11 DEF MicCallStarts
<1>12. CASE MicClientReplaced
  BY <1>12 DEF MicClientReplaced
<1>13. CASE UNCHANGED muteVars
  BY <1>13 DEF muteVars
<1>14. QED
  BY <1>1, <1>2, <1>3, <1>4, <1>5, <1>6, <1>7, <1>8, <1>9, <1>10, <1>11,
     <1>12, <1>13 DEF MuteNext

LEMMA MuteNextInv ==
  MuteFlags /\ MuteInv /\ [MuteNext]_muteVars => MuteFlags' /\ MuteInv'
<1>1. MuteInv => requests \in Seq(BOOLEAN) /\ echoes \in Seq(BOOLEAN)
  BY DEF MuteInv, MuteSorts
<1>2. QED
  BY <1>1, MuteFlagsStep, MuteSortsStep, LastEchoStep, ToggleMissingStep
  DEF MuteInv

\* However the statuses, the host's commands, the user's clicks and the echoes of
\* the toggles interleave: with nothing on its way the store says what the client
\* does with the microphone, unless the client was replaced, and the microphone is
\* as the last change of status or the end of the countdown wants it.
THEOREM MuteSpecSafe ==
  MuteSpec => [](MuteTypeOK /\ MicrophoneIsShown /\ MicrophoneIsSet)
<1>1. MuteFlags /\ MuteSorts => MuteTypeOK
  BY Zenon DEF MuteFlags, MuteSorts, MuteTypeOK
<1>2. LastEcho => MicrophoneIsShown
  BY DEF LastEcho, MicrophoneIsShown
<1>3. MuteFlags /\ ToggleMissing => MicrophoneIsSet
  BY DEF MuteFlags, ToggleMissing, MicrophoneIsSet, Toggle
<1>4. QED
  BY <1>1, <1>2, <1>3, MuteInitInv, MuteNextInv, PTL DEF MuteSpec, MuteInv

-----------------------------------------------------------------------------
(***************************************************************************)
(* The camera: the picture asked for last is that of the devices.          *)
(***************************************************************************)
MediaFlags ==
  /\ initialised \in BOOLEAN /\ lookingUp \in BOOLEAN /\ audioOnly \in BOOLEAN
  /\ announced \in BOOLEAN /\ live \in BOOLEAN /\ inRoom \in BOOLEAN
  /\ inCall \in BOOLEAN /\ madeLate \in BOOLEAN

Pictures == Cameras \cup {NoCamera}

MediaSorts ==
  /\ plugged \in SUBSET Cameras
  /\ activeCamera \in Pictures /\ preferred \in Pictures /\ stream \in Pictures
  /\ making \in Seq(Pictures)
  /\ changes \in 0..MaxChanges

\* The picture asked for last is that of the devices, as long as none was made
\* before another that had been asked for earlier, and the stream is it when
\* nothing is asked for any more.
LastAskedFor ==
  /\ ~announced => making = <<>> /\ ~live
  /\ ~madeLate =>
       IF making # <<>>
         THEN making[Len(making)] = Shown(activeCamera, audioOnly)
         ELSE live => stream = Shown(activeCamera, audioOnly)

\* What is asked for now is made after what was.
LEMMA AskedAfter ==
  ASSUME NEW S, NEW s \in Seq(S), NEW t \in Seq(S)
  PROVE  /\ s \o t \in Seq(S)
         /\ t = <<>> => s \o t = s
         /\ t # <<>> => s \o t # <<>> /\ (s \o t)[Len(s \o t)] = t[Len(t)]
<1>1. /\ s \o t \in Seq(S) /\ Len(s \o t) = Len(s) + Len(t)
      /\ \A i \in 1 .. Len(s) + Len(t) :
           (s \o t)[i] = IF i <= Len(s) THEN s[i] ELSE t[i - Len(s)]
  BY ConcatProperties
<1>2. Len(s) \in Nat /\ Len(t) \in Nat /\ (t # <<>> => Len(t) > 0)
  BY EmptySeq, LenProperties
<1>3. t = <<>> => s \o t = s
  BY ConcatEmptySeq
<1>4. ASSUME t # <<>> PROVE s \o t # <<>> /\ (s \o t)[Len(s \o t)] = t[Len(t)]
  <2>1. Len(s \o t) > 0 /\ Len(s \o t) > Len(s) /\ Len(s \o t) - Len(s) = Len(t)
    BY <1>1, <1>2, <1>4
  <2>2. (s \o t)[Len(s \o t)] = t[Len(s \o t) - Len(s)]
    BY <1>1, <1>2, <2>1
  <2>3. QED
    BY <2>1, <2>2, EmptySeq
<1>5. QED
  BY <1>1, <1>3, <1>4

\* The first that was asked for is made: the others stay in their order.
LEMMA MadeFirst ==
  ASSUME NEW S, NEW s \in Seq(S), NEW i \in DOMAIN s
  PROVE  LET rest == SubSeq(s, 1, i - 1) \o SubSeq(s, i + 1, Len(s))
         IN  /\ rest \in Seq(S)
             /\ i = 1 => IF Len(s) = 1 THEN rest = <<>>
                         ELSE rest # <<>> /\ rest[Len(rest)] = s[Len(s)]
<1> DEFINE before == SubSeq(s, 1, i - 1)
           after == SubSeq(s, i + 1, Len(s))
<1>1. Len(s) \in Nat /\ i \in 1 .. Len(s) /\ \A j \in 1 .. Len(s) : s[j] \in S
  BY LenProperties, ElementOfSeq
<1>2. before \in Seq(S) /\ Len(before) = i - 1
  BY <1>1, SubSeqProperties
<1>3. /\ after \in Seq(S) /\ Len(after) = Len(s) - i
      /\ \A j \in 1 .. Len(s) - i : after[j] = s[i + j]
  <2>1. \A j \in i + 1 .. Len(s) : s[j] \in S
    BY <1>1
  <2>2. CASE i < Len(s)
    BY <1>1, <2>1, <2>2, SubSeqProperties
  <2>3. CASE i = Len(s)
    BY <1>1, <2>1, <2>3, SubSeqProperties
  <2>4. QED
    BY <1>1, <2>2, <2>3
<1>4. before \o after \in Seq(S)
  BY <1>2, <1>3, AskedAfter
<1>5. ASSUME i = 1, Len(s) = 1 PROVE before \o after = <<>>
  BY <1>1, <1>2, <1>3, <1>5, EmptySeq, AskedAfter
<1>6. ASSUME i = 1, Len(s) # 1
      PROVE  /\ before \o after # <<>>
             /\ (before \o after)[Len(before \o after)] = s[Len(s)]
  <2> HIDE DEF before, after
  <2>1. Len(after) = Len(s) - 1 /\ Len(after) > 0 /\ Len(after) \in 1 .. Len(s) - i
    BY <1>1, <1>3, <1>6
  <2>2. after # <<>>
    BY <2>1, EmptySeq
  <2>3. after[Len(after)] = s[i + Len(after)] /\ i + Len(after) = Len(s)
    BY <1>1, <1>3, <1>6, <2>1
  <2>4. QED
    BY <2>2, <2>3, <1>2, <1>3, AskedAfter
<1>7. QED
  BY <1>4, <1>5, <1>6

MediaInv == MediaSorts /\ LastAskedFor

LEMMA MediaInitInv == MediaInit => MediaFlags /\ MediaInv
<1>1. MediaInit => MediaFlags
  BY DEF MediaInit, MediaFlags
<1>2. MediaInit => MediaSorts
  BY MediaDevicesAssumption, EmptySeq DEF MediaInit, MediaSorts, Pictures
<1>3. MediaInit => LastAskedFor
  BY DEF MediaInit, LastAskedFor
<1>4. QED
  BY <1>1, <1>2, <1>3 DEF MediaInv

LEMMA MediaFlagsStep == MediaFlags /\ [MediaNext]_mediaVars => MediaFlags'
BY DEF MediaFlags, MediaNext, mediaVars, deviceVars, streamVars, roomVars,
   PlugOrUnplug, HandleDeviceChange, Announce, UpdateActiveCamera,
   UpdateIsAudioOnly, UpdateFilter, UserLeaves, LeaveRoom, EnterRoom,
   ConnectRoom, DropCall, PublishStream, PublishWithoutCamera,
   CreateAndPublishStream, CreateForDevices, CloseCurrentStream, InitialiseMedia

\* A stream that is asked for is one of a picture, and is asked for last.
LEMMA Requested ==
  ASSUME MediaFlags, MediaInv, NEW wanted \in Seq(Pictures),
         activeCamera' \in Pictures, madeLate' = madeLate, announced' = TRUE,
         making' = making \o wanted,
         IF wanted = <<>>
           THEN /\ announced /\ (live' => live) /\ stream' = stream
                /\ activeCamera' = activeCamera /\ audioOnly' = audioOnly
           ELSE wanted[Len(wanted)] = Shown(activeCamera', audioOnly')
  PROVE  making' \in Seq(Pictures) /\ LastAskedFor'
<1>1. making \in Seq(Pictures)
  BY DEF MediaInv, MediaSorts
<1>2. making' \in Seq(Pictures)
  BY <1>1, AskedAfter
<1>3. CASE wanted = <<>>
  <2>1. making' = making
    BY <1>1, <1>3, AskedAfter
  <2>2. Shown(activeCamera', audioOnly') = Shown(activeCamera, audioOnly)
    BY <1>3, Zenon
  <2>3. /\ announced' /\ (madeLate' <=> madeLate) /\ (live' => live)
        /\ stream' = stream
    BY <1>3
  <2>4. ~madeLate => IF making # <<>>
                       THEN making[Len(making)] = Shown(activeCamera, audioOnly)
                       ELSE live => stream = Shown(activeCamera, audioOnly)
    BY DEF MediaInv, LastAskedFor
  <2>5. QED
    BY <1>2, <2>1, <2>2, <2>3, <2>4 DEF LastAskedFor
<1>4. CASE wanted # <<>>
  <2>1. making' # <<>> /\ making'[Len(making')] = wanted[Len(wanted)]
    BY <1>1, <1>4, AskedAfter
  <2>2. QED
    BY <1>2, <1>4, <2>1 DEF LastAskedFor
<1>5. QED
  BY <1>3, <1>4

LEMMA OneRequest ==
  ASSUME NEW S, NEW x \in S
  PROVE  <<x>> \in Seq(S) /\ <<x>> # <<>> /\ <<x>>[Len(<<x>>)] = x
OBVIOUS

\* Another stream of the same devices.
LEMMA AskForDevices ==
  ASSUME MediaFlags, MediaInv, CreateForDevices,
         UNCHANGED <<activeCamera, audioOnly, announced>>
  PROVE  making' \in Seq(Pictures) /\ LastAskedFor' /\ stream' = stream
<1>1. CASE announced
  <2>1. Shown(activeCamera, audioOnly) \in Pictures
    BY DEF MediaInv, MediaSorts, Shown, Pictures
  <2> DEFINE wanted == <<Shown(activeCamera, audioOnly)>>
  <2>2. /\ wanted \in Seq(Pictures) /\ wanted # <<>>
        /\ wanted[Len(wanted)] = Shown(activeCamera, audioOnly)
    BY <2>1, OneRequest
  <2>3. making' = making \o wanted /\ UNCHANGED <<stream, madeLate>>
    BY <1>1 DEF CreateForDevices, CreateAndPublishStream
  <2> HIDE DEF wanted
  <2>4. activeCamera \in Pictures
    BY DEF MediaInv, MediaSorts
  <2>5. announced' = TRUE
    BY <1>1 DEF MediaFlags
  <2>6. QED
    BY <2>2, <2>3, <2>4, <2>5, Requested
<1>2. CASE ~announced
  <2>1. making \in Seq(Pictures) /\ making' = making \o <<>>
        /\ UNCHANGED <<stream, madeLate>> /\ (live' => live)
    BY <1>2 DEF CreateForDevices, CreateAndPublishStream, MediaInv, MediaSorts
  <2>2. making' = making
    BY <2>1, ConcatEmptySeq
  <2>3. QED
    BY <1>2, <2>1, <2>2 DEF MediaInv, LastAskedFor
<1>3. QED
  BY <1>1, <1>2

LEMMA MediaStep ==
  ASSUME MediaFlags, MediaInv, [MediaNext]_mediaVars
  PROVE  MediaInv'
<1> USE DEF MediaInv, MediaSorts
<1> USE MediaDevicesAssumption DEF Pictures, deviceVars, streamVars, roomVars, UserDoes
<1>1. CASE PlugOrUnplug
  BY <1>1 DEF PlugOrUnplug, LastAskedFor
<1>2. CASE HandleDeviceChange
  <2>1. PICK available \in {plugged, {}} :
       LET first == IF activeCamera = NoCamera
                      THEN CameraFromCache(available) ELSE activeCamera
           then == IF first \in available
                     THEN first ELSE LoadDefaultCamera(available)
           shownFirst == IF announced /\ first = activeCamera /\ ~audioOnly
                           THEN <<>> ELSE <<first>>
           shownThen == IF then = first THEN <<>> ELSE <<then>>
       IN  Announce(then, FALSE, shownFirst \o shownThen)
    BY <1>2 DEF HandleDeviceChange
  <2> DEFINE first == IF activeCamera = NoCamera
                        THEN CameraFromCache(available) ELSE activeCamera
             then == IF first \in available
                       THEN first ELSE LoadDefaultCamera(available)
             shownFirst == IF announced /\ first = activeCamera /\ ~audioOnly
                             THEN <<>> ELSE <<first>>
             shownThen == IF then = first THEN <<>> ELSE <<then>>
  <2>2. LoadDefaultCamera(available) \in Pictures
    BY DEF LoadDefaultCamera
  <2>3. first \in Pictures /\ then \in Pictures
    BY <2>2 DEF CameraFromCache
  <2> HIDE DEF first, then
  <2>4. shownFirst \in Seq(Pictures) /\ shownThen \in Seq(Pictures)
    BY <2>3, OneRequest, EmptySeq
  <2>5. Announce(then, FALSE, shownFirst \o shownThen)
    BY <2>1 DEF first, then
  <2>6. shownFirst \o shownThen \in Seq(Pictures)
    BY <2>4, ConcatProperties
  <2>7. IF shownFirst \o shownThen = <<>>
          THEN announced /\ then = activeCamera /\ ~audioOnly
          ELSE (shownFirst \o shownThen)[Len(shownFirst \o shownThen)]
                 = Shown(then, FALSE)
    <3>1. CASE then # first
      <4>1. shownThen = <<then>>
        BY <3>1
      <4>2. QED
        BY <2>3, <2>4, <4>1, AskedAfter, OneRequest DEF Shown
    <3>2. CASE then = first
      <4>1. shownThen = <<>>
        BY <3>2
      <4>2. shownFirst \o shownThen = shownFirst
        BY <2>4, <4>1, AskedAfter
      <4>3. QED
        BY <2>3, <3>2, <4>2, OneRequest DEF Shown
    <3>3. QED
      BY <3>1, <3>2
  <2> HIDE DEF shownFirst, shownThen
  <2>8. making' \in Seq(Pictures) /\ LastAskedFor'
    <3> DEFINE wanted == shownFirst \o shownThen
    <3>1. /\ activeCamera' = then /\ audioOnly' = FALSE /\ announced' = TRUE
          /\ making' = making \o wanted /\ madeLate' = madeLate
          /\ stream' = stream /\ live' = (live /\ wanted = <<>>)
      BY <2>5 DEF Announce, CreateAndPublishStream
    <3>2. wanted \in Seq(Pictures)
      BY <2>6
    <3>3. IF wanted = <<>> THEN announced /\ then = activeCamera /\ ~audioOnly
                             ELSE wanted[Len(wanted)] = Shown(then, FALSE)
      BY <2>7
    <3> HIDE DEF wanted
    <3>4. wanted = <<>> => audioOnly' = audioOnly
      BY <3>1, <3>3 DEF MediaFlags
    <3>5. QED
      BY <2>3, <3>1, <3>2, <3>3, <3>4, Requested
  <2>9. QED
    BY <1>2, <2>3, <2>5, <2>8 DEF HandleDeviceChange, Announce, CreateAndPublishStream
<1>3. ASSUME NEW c \in Cameras, UpdateActiveCamera(c) PROVE MediaInv'
  <2> DEFINE wanted == <<Shown(c, audioOnly)>>
  <2>1. Shown(c, audioOnly) \in Pictures
    BY DEF Shown
  <2>2. wanted \in Seq(Pictures) /\ wanted # <<>>
        /\ wanted[Len(wanted)] = Shown(c, audioOnly)
    BY <2>1, OneRequest
  <2>3. /\ activeCamera' = c /\ audioOnly' = audioOnly /\ announced' = TRUE
        /\ making' = making \o wanted /\ UNCHANGED <<stream, madeLate, plugged>>
        /\ preferred' \in {preferred, c} /\ changes' \in 0..MaxChanges
    BY <1>3 DEF UpdateActiveCamera, Announce, CreateAndPublishStream
  <2> HIDE DEF wanted
  <2>4. making' \in Seq(Pictures) /\ LastAskedFor'
    BY <2>2, <2>3, Requested
  <2>5. QED
    BY <2>3, <2>4
<1>4. CASE UpdateIsAudioOnly
  <2> DEFINE wanted == <<Shown(activeCamera, ~audioOnly)>>
  <2>1. Shown(activeCamera, ~audioOnly) \in Pictures
    BY DEF Shown
  <2>2. wanted \in Seq(Pictures) /\ wanted # <<>>
        /\ wanted[Len(wanted)] = Shown(activeCamera, ~audioOnly)
    BY <2>1, OneRequest
  <2>3. /\ activeCamera' = activeCamera /\ audioOnly' = ~audioOnly
        /\ announced' = TRUE /\ making' = making \o wanted
        /\ UNCHANGED <<stream, madeLate, plugged>>
        /\ preferred' \in {preferred, activeCamera} /\ changes' \in 0..MaxChanges
    BY <1>4 DEF UpdateIsAudioOnly, Announce, CreateAndPublishStream
  <2> HIDE DEF wanted
  <2>4. wanted[Len(wanted)] = Shown(activeCamera', audioOnly')
    BY <2>2, <2>3, Zenon
  <2>5. making' \in Seq(Pictures) /\ LastAskedFor'
    BY <2>2, <2>3, <2>4, Requested
  <2>6. QED
    BY <2>3, <2>5
<1>5. CASE UpdateFilter
  BY <1>5, AskForDevices DEF UpdateFilter
<1>6. CASE UserLeaves
  <2> DEFINE wanted == IF inCall /\ announced THEN <<Shown(activeCamera, audioOnly)>>
                                                ELSE <<>>
  <2>1. Shown(activeCamera, audioOnly) \in Pictures
    BY DEF Shown
  <2>2. /\ wanted \in Seq(Pictures)
        /\ wanted # <<>> => wanted[Len(wanted)] = Shown(activeCamera, audioOnly)
    BY <2>1, OneRequest, EmptySeq
  <2>3. /\ making' = making \o wanted /\ ~live' /\ stream' = NoCamera
        /\ madeLate' = madeLate /\ UNCHANGED <<deviceVars, changes>>
    BY <1>6 DEF UserLeaves, LeaveRoom, CloseCurrentStream
  <2>4. wanted # <<>> => announced
    OBVIOUS
  <2> HIDE DEF wanted
  <2>5. making' \in Seq(Pictures)
    BY <2>2, <2>3, AskedAfter
  <2>6. LastAskedFor'
    BY <2>2, <2>3, <2>4, AskedAfter DEF LastAskedFor
  <2>7. QED
    BY <2>3, <2>5, <2>6
<1>7. CASE EnterRoom
  BY <1>7, AskForDevices DEF EnterRoom, InitialiseMedia
<1>8. CASE ConnectRoom
  BY <1>8 DEF ConnectRoom, LastAskedFor
<1>9. CASE DropCall
  BY <1>9, AskForDevices DEF DropCall
<1>10. ASSUME NEW i \in DOMAIN making, PublishStream(i) PROVE MediaInv'
  <2> DEFINE rest == SubSeq(making, 1, i - 1) \o SubSeq(making, i + 1, Len(making))
  <2>1. /\ rest \in Seq(Pictures)
        /\ i = 1 => IF Len(making) = 1 THEN rest = <<>>
                    ELSE rest # <<>> /\ rest[Len(rest)] = making[Len(making)]
    BY MadeFirst
  <2>2. /\ making' = rest /\ stream' = making[i] /\ live' = TRUE
        /\ madeLate' <=> madeLate \/ i > 1
        /\ UNCHANGED <<deviceVars, changes>>
    BY <1>10 DEF PublishStream
  <2> HIDE DEF rest
  <2>3. i \in 1 .. Len(making) /\ Len(making) \in Nat /\ making[i] \in Pictures
    BY LenProperties, ElementOfSeq
  <2>4. making # <<>> /\ announced
    BY <2>3, EmptySeq DEF LastAskedFor
  <2>5. LastAskedFor'
    <3>1. SUFFICES ASSUME ~madeLate'
                   PROVE  IF rest # <<>>
                            THEN rest[Len(rest)] = Shown(activeCamera, audioOnly)
                            ELSE stream' = Shown(activeCamera, audioOnly)
      BY <2>2, <2>4 DEF LastAskedFor
    <3>2. ~madeLate /\ i = 1
      BY <3>1, <2>2, <2>3
    <3>3. making[Len(making)] = Shown(activeCamera, audioOnly)
      BY <3>2, <2>4 DEF LastAskedFor
    <3>4. QED
      BY <2>1, <2>2, <3>2, <3>3
  <2>6. QED
    BY <2>1, <2>2, <2>3, <2>5
<1>11. ASSUME NEW i \in DOMAIN making, PublishWithoutCamera(i) PROVE MediaInv'
  <2> DEFINE rest == SubSeq(making, 1, i - 1) \o SubSeq(making, i + 1, Len(making))
             again == IF inCall THEN <<Shown(activeCamera, audioOnly)>> ELSE <<>>
  <2>1. /\ rest \in Seq(Pictures)
        /\ i = 1 => IF Len(making) = 1 THEN rest = <<>>
                    ELSE rest # <<>> /\ rest[Len(rest)] = making[Len(making)]
    BY MadeFirst
  <2>2. Shown(activeCamera, audioOnly) \in Pictures
    BY DEF Shown
  <2>3. /\ again \in Seq(Pictures)
        /\ again # <<>> => again[Len(again)] = Shown(activeCamera, audioOnly)
    BY <2>2, OneRequest, EmptySeq
  <2>4. /\ making' = rest \o again /\ stream' = NoCamera /\ ~live'
        /\ madeLate' <=> madeLate \/ i > 1
        /\ UNCHANGED <<deviceVars, changes>>
    BY <1>11 DEF PublishWithoutCamera
  <2> HIDE DEF rest, again
  <2>5. i \in 1 .. Len(making) /\ Len(making) \in Nat
    BY LenProperties
  <2>6. making # <<>> /\ announced
    BY <2>5, EmptySeq DEF LastAskedFor
  <2>7. making' \in Seq(Pictures)
    BY <2>1, <2>3, <2>4, AskedAfter
  <2>8. LastAskedFor'
    <3>1. SUFFICES ASSUME ~madeLate', making' # <<>>
                   PROVE  making'[Len(making')] = Shown(activeCamera, audioOnly)
      BY <2>4, <2>6 DEF LastAskedFor
    <3>2. ~madeLate /\ i = 1
      BY <3>1, <2>4, <2>5
    <3>3. making[Len(making)] = Shown(activeCamera, audioOnly)
      BY <3>2, <2>6 DEF LastAskedFor
    <3>4. CASE again # <<>>
      BY <3>4, <2>1, <2>3, <2>4, AskedAfter
    <3>5. CASE again = <<>>
      BY <3>1, <3>2, <3>3, <3>5, <2>1, <2>3, <2>4, AskedAfter
    <3>6. QED
      BY <3>4, <3>5
  <2>9. QED
    BY <2>4, <2>7, <2>8
<1>12. CASE UNCHANGED mediaVars
  BY <1>12 DEF mediaVars, LastAskedFor
<1>13. QED
  BY <1>1, <1>2, <1>3, <1>4, <1>5, <1>6, <1>7, <1>8, <1>9, <1>10, <1>11, <1>12
  DEF MediaNext

\* However the lookups of the devices, the choices of the user and the streams
\* that are made overlap, the stream of the call shows the camera that is active
\* - unless a stream asked for earlier was made later.
THEOREM MediaSpecSafe == MediaSpec => [](MediaTypeOK /\ StreamFollowsTheDevices)
<1>1. MediaFlags /\ MediaSorts => MediaTypeOK
  BY Zenon DEF MediaFlags, MediaSorts, MediaTypeOK, Pictures
<1>2. LastAskedFor => StreamFollowsTheDevices
  BY DEF LastAskedFor, StreamFollowsTheDevices
<1>3. QED
  BY <1>1, <1>2, MediaInitInv, MediaFlagsStep, MediaStep, PTL DEF MediaSpec, MediaInv

-----------------------------------------------------------------------------
(***************************************************************************)
(* The layout: the one that is shown is the one stored, or word of that is *)
(* on its way.                                                             *)
(***************************************************************************)
LayoutFlags ==
  /\ stale \in [Loads -> BOOLEAN]
  /\ layoutHub \in BOOLEAN /\ hearingOpen \in BOOLEAN
  /\ listening \in BOOLEAN /\ misled \in BOOLEAN

LayoutSorts ==
  /\ layoutStored \in Layouts \cup {NoLayout}
  /\ telling \in [LayoutRequests -> Messages \cup {Quiet}]
  /\ layoutsTold \in Seq(Messages)
  /\ layoutLoads \in [Loads -> Layouts \cup {"idle", "waiting", "sent", "dead"}]
  /\ layoutShown \in Layouts \cup {NoLayout}
  /\ layoutActs \in 0..MaxLayoutActs /\ cuts \in 0..MaxCuts

\* A request that has written the layout that is stored has yet to tell it.
WillTellLayout == \E r \in LayoutRequests : telling[r] # Quiet /\ ~telling[r].late

\* A message that nothing newer was told before is on its way, after the i-th.
ToldAfter(i) == \E j \in i + 1 .. Len(layoutsTold) : ~layoutsTold[j].late

\* A layout that is shown is the one that is stored, or will be.
WillBeShown(l) == l = layoutStored \/ WillTellLayout \/ ToldAfter(0)

LayoutOnItsWay ==
  /\ \A r \in LayoutRequests :
       telling[r] # Quiet /\ ~telling[r].late => telling[r].layout = layoutStored
  /\ \A i \in 1 .. Len(layoutsTold) :
       ~layoutsTold[i].late =>
         layoutsTold[i].layout = layoutStored \/ WillTellLayout \/ ToldAfter(i)
  /\ ~layoutHub => layoutsTold = <<>>
  /\ layoutStored # NoLayout =>
       /\ \A k \in Loads : OnItsWay(k) /\ ~stale[k] => WillBeShown(layoutLoads[k])
       /\ layoutHub /\ listening /\ layoutLoads["reload"] = "idle" /\ ~misled =>
            WillBeShown(layoutShown)

LayoutInv == LayoutSorts /\ LayoutOnItsWay

LEMMA LayoutMessages ==
  /\ \A m \in Messages : m.layout \in Layouts /\ m.late \in BOOLEAN /\ m # Quiet
  /\ \A m \in Messages : [m EXCEPT !.late = TRUE] \in Messages
                         /\ [m EXCEPT !.late = TRUE].late
  /\ \A l \in Layouts : [layout |-> l, late |-> FALSE] \in Messages
<1>1. ASSUME NEW m \in Messages
      PROVE  m.layout \in Layouts /\ m.late \in BOOLEAN
  BY DEF Messages
<1>2. Quiet.layout = NoLayout
  BY DEF Quiet
<1>3. ASSUME NEW m \in Messages PROVE m # Quiet
  BY <1>1, <1>2, HearingLayoutAssumption
<1>4. ASSUME NEW m \in Messages
      PROVE  [m EXCEPT !.late = TRUE] \in Messages
  BY DEF Messages
<1>5. ASSUME NEW m \in Messages
      PROVE  [m EXCEPT !.late = TRUE].late
  BY DEF Messages
<1>6. ASSUME NEW l \in Layouts
      PROVE  [layout |-> l, late |-> FALSE] \in Messages
  BY DEF Messages
<1>7. QED
  BY <1>1, <1>3, <1>4, <1>5, <1>6

LEMMA LayoutFlagsStep == LayoutFlags /\ LayoutInv /\ [LayoutNext]_layoutVars => LayoutFlags'
<1> SUFFICES ASSUME LayoutFlags, LayoutInv, [LayoutNext]_layoutVars
             PROVE  LayoutFlags'
  OBVIOUS
<1> USE DEF LayoutFlags, MarkStale, serverLayout, serviceLayout
<1>1. CASE HearLayout
  <2>1. Head(layoutsTold) \in Messages
    BY <1>1, HeadTailProperties DEF HearLayout, LayoutInv, LayoutSorts
  <2>2. Head(layoutsTold).late \in BOOLEAN
    BY <2>1, LayoutMessages
  <2>3. QED
    BY <1>1, <2>2 DEF HearLayout
<1>2. CASE UNCHANGED layoutVars
  BY <1>2 DEF layoutVars
<1>3. ASSUME NEW r \in LayoutRequests, NEW l \in Layouts, UpdateLayout(r, l)
      PROVE  LayoutFlags'
  BY <1>3 DEF UpdateLayout
<1>4. ASSUME NEW r \in LayoutRequests, TellHosts(r)
      PROVE  LayoutFlags'
  BY <1>4 DEF TellHosts
<1>5. ASSUME NEW k \in Loads, AnswerLayout(k) \/ ShowAnswer(k) \/ LayoutLoadFails(k)
      PROVE  LayoutFlags'
  BY <1>5 DEF AnswerLayout, ShowAnswer, LayoutLoadFails
<1>6. CASE LayoutHubFails
  BY <1>6 DEF LayoutHubFails
<1>7. CASE LayoutHubReturns
  BY <1>7 DEF LayoutHubReturns
<1>8. CASE OpenHearing
  BY <1>8 DEF OpenHearing
<1>9. CASE CloseHearing
  BY <1>9 DEF CloseHearing
<1>10. QED
  BY <1>1, <1>2, <1>3, <1>4, <1>5, <1>6, <1>7, <1>8, <1>9 DEF LayoutNext

LEMMA LayoutSortsStep ==
  ASSUME LayoutInv, [LayoutNext]_layoutVars PROVE LayoutSorts'
<1> USE HearingLayoutAssumption
    DEF LayoutInv, LayoutSorts, serverLayout, serviceLayout, Loads
<1>1. CASE HearLayout
  BY <1>1, HeadTailProperties, LayoutMessages DEF HearLayout
<1>2. CASE UNCHANGED layoutVars
  BY <1>2 DEF layoutVars
<1>3. ASSUME NEW r \in LayoutRequests, NEW l \in Layouts, UpdateLayout(r, l)
      PROVE  LayoutSorts'
  BY <1>3, LayoutMessages DEF UpdateLayout
<1>4. ASSUME NEW r \in LayoutRequests, TellHosts(r)
      PROVE  LayoutSorts'
  BY <1>4, AppendProperties DEF TellHosts
<1>5. ASSUME NEW k \in Loads, AnswerLayout(k) \/ ShowAnswer(k) \/ LayoutLoadFails(k)
      PROVE  LayoutSorts'
  BY <1>5 DEF AnswerLayout, ShowAnswer, LayoutLoadFails, OnItsWay
<1>6. CASE LayoutHubFails
  BY <1>6, EmptySeq DEF LayoutHubFails
<1>7. CASE LayoutHubReturns
  BY <1>7 DEF LayoutHubReturns
<1>8. CASE OpenHearing
  BY <1>8 DEF OpenHearing
<1>9. CASE CloseHearing
  BY <1>9 DEF CloseHearing
<1>10. QED
  BY <1>1, <1>2, <1>3, <1>4, <1>5, <1>6, <1>7, <1>8, <1>9 DEF LayoutNext

\* As soon as a request has written a layout every page will be shown it.
LEMMA WrittenIsTold ==
  ASSUME LayoutInv, NEW r \in LayoutRequests, NEW l \in Layouts, UpdateLayout(r, l)
  PROVE  LayoutOnItsWay'
<1>1. /\ telling' = [q \in LayoutRequests |->
                       IF q = r THEN [layout |-> l, late |-> FALSE]
                       ELSE IF telling[q] = Quiet THEN Quiet
                       ELSE [telling[q] EXCEPT !.late = TRUE]]
      /\ layoutStored' = l
      /\ UNCHANGED <<layoutsTold, layoutHub>>
  BY DEF UpdateLayout
<1>2. telling'[r] = [layout |-> l, late |-> FALSE]
  BY <1>1
<1>3. telling'[r] # Quiet /\ ~telling'[r].late /\ telling'[r].layout = l
  BY <1>2, LayoutMessages
<1>4. WillTellLayout'
  BY <1>3 DEF WillTellLayout
<1>5. ASSUME NEW q \in LayoutRequests, telling'[q] # Quiet, ~telling'[q].late
      PROVE  telling'[q].layout = l
  <2>1. CASE q = r
    BY <1>3, <2>1
  <2>2. CASE q # r
    <3>1. telling[q] \in Messages /\ telling'[q] = [telling[q] EXCEPT !.late = TRUE]
      BY <1>1, <1>5, <2>2 DEF LayoutInv, LayoutSorts
    <3>2. QED
      BY <3>1, <1>5, LayoutMessages
  <2>3. QED
    BY <2>1, <2>2
<1>6. QED
  BY <1>1, <1>4, <1>5 DEF LayoutInv, LayoutOnItsWay, WillBeShown

LEMMA TellStep ==
  ASSUME LayoutFlags, LayoutInv, NEW r \in LayoutRequests, TellHosts(r)
  PROVE  LayoutOnItsWay'
<1>1. /\ telling[r] # Quiet /\ telling[r] \in Messages
      /\ telling' = [telling EXCEPT ![r] = Quiet]
      /\ UNCHANGED <<layoutStored, layoutHub, layoutLoads, listening, layoutShown, misled>>
  BY DEF TellHosts, LayoutInv, LayoutSorts
<1>2. /\ \A q \in LayoutRequests : telling'[q] = IF q = r THEN Quiet ELSE telling[q]
      /\ layoutsTold \in Seq(Messages)
  BY <1>1 DEF LayoutInv, LayoutSorts
<1>3. \A q \in LayoutRequests :
         telling'[q] # Quiet /\ ~telling'[q].late => telling'[q].layout = layoutStored'
  BY <1>1, <1>2 DEF LayoutInv, LayoutOnItsWay
<1>4. CASE layoutHub
  <2>1. layoutsTold' = Append(layoutsTold, telling[r]) /\ stale' = stale
    BY <1>4 DEF TellHosts
  <2> DEFINE n == Len(layoutsTold)
  <2>2. /\ n \in Nat /\ Len(layoutsTold') = n + 1
        /\ layoutsTold'[n + 1] = telling[r]
        /\ \A i \in 1 .. n : layoutsTold'[i] = layoutsTold[i]
    BY <1>1, <1>2, <2>1, AppendProperties, LenProperties
  <2> HIDE DEF n
  <2>3. ASSUME NEW i \in 0 .. n, WillTellLayout \/ ToldAfter(i)
        PROVE  WillTellLayout' \/ ToldAfter(i)'
    <3>1. CASE ToldAfter(i)
      BY <2>2, <3>1 DEF ToldAfter, n
    <3>2. CASE WillTellLayout
      <4>1. PICK q \in LayoutRequests : telling[q] # Quiet /\ ~telling[q].late
        BY <3>2 DEF WillTellLayout
      <4>2. CASE q = r
        <5>1. ~layoutsTold'[n + 1].late /\ n + 1 \in i + 1 .. Len(layoutsTold')
          BY <2>2, <4>1, <4>2
        <5>2. QED
          BY <5>1 DEF ToldAfter
      <4>3. CASE q # r
        BY <1>2, <4>1, <4>3 DEF WillTellLayout
      <4>4. QED
        BY <4>2, <4>3
    <3>3. QED
      BY <2>3, <3>1, <3>2
  <2>4. ASSUME NEW i \in 1 .. Len(layoutsTold'), ~layoutsTold'[i].late
        PROVE  layoutsTold'[i].layout = layoutStored' \/ WillTellLayout' \/ ToldAfter(i)'
    <3>1. CASE i = n + 1
      BY <1>1, <2>2, <2>4, <3>1 DEF LayoutInv, LayoutOnItsWay
    <3>2. CASE i \in 1 .. n
      BY <1>1, <2>2, <2>3, <2>4, <3>2 DEF LayoutInv, LayoutOnItsWay, n
    <3>3. QED
      BY <2>2, <3>1, <3>2
  <2>5. \A l : WillBeShown(l) => WillBeShown(l)'
    BY <1>1, <2>2, <2>3 DEF WillBeShown
  <2>6. QED
    BY <1>1, <1>3, <1>4, <2>1, <2>4, <2>5 DEF LayoutInv, LayoutOnItsWay, OnItsWay
<1>5. CASE ~layoutHub
  <2>1. layoutsTold' = layoutsTold /\ layoutsTold = <<>>
        /\ stale' = [k \in Loads |-> stale[k] \/ OnItsWay(k)]
    BY <1>5 DEF TellHosts, MarkStale, LayoutInv, LayoutOnItsWay
  <2>2. \A k \in Loads : OnItsWay(k)' => stale'[k]
    BY <1>1, <2>1 DEF OnItsWay
  <2>3. 1 .. Len(layoutsTold') = {}
    BY <2>1, EmptySeq
  <2>4. QED
    BY <1>1, <1>3, <1>5, <2>1, <2>2, <2>3 DEF LayoutOnItsWay
<1>6. QED
  BY <1>4, <1>5

LEMMA HearStep ==
  ASSUME LayoutFlags, LayoutInv, HearLayout
  PROVE  LayoutOnItsWay'
<1>1. /\ layoutsTold # <<>> /\ layoutsTold' = Tail(layoutsTold)
      /\ layoutsTold \in Seq(Messages)
      /\ UNCHANGED <<layoutStored, telling, layoutHub, layoutLoads, listening>>
  BY DEF HearLayout, LayoutInv, LayoutSorts, serverLayout
<1>2. /\ Len(layoutsTold) \in Nat \ {0} /\ Len(layoutsTold') = Len(layoutsTold) - 1
      /\ \A i \in 1 .. Len(layoutsTold') : layoutsTold'[i] = layoutsTold[i + 1]
      /\ Head(layoutsTold) = layoutsTold[1]
  BY <1>1, HeadTailProperties, EmptySeq
<1>3. ASSUME NEW i \in 0 .. Len(layoutsTold'), ToldAfter(i + 1)
      PROVE  ToldAfter(i)'
  <2>1. PICK j \in i + 2 .. Len(layoutsTold) : ~layoutsTold[j].late
    BY <1>2, <1>3 DEF ToldAfter
  <2>2. j - 1 \in i + 1 .. Len(layoutsTold') /\ layoutsTold'[j - 1] = layoutsTold[j]
    BY <1>2, <2>1
  <2>3. QED
    BY <2>1, <2>2 DEF ToldAfter
<1>4. WillTellLayout' <=> WillTellLayout
  BY <1>1 DEF WillTellLayout
<1>5. ASSUME NEW i \in 1 .. Len(layoutsTold'), ~layoutsTold'[i].late
      PROVE  layoutsTold'[i].layout = layoutStored' \/ WillTellLayout' \/ ToldAfter(i)'
  <2>1. layoutsTold[i + 1].layout = layoutStored \/ WillTellLayout \/ ToldAfter(i + 1)
    BY <1>2, <1>5 DEF LayoutInv, LayoutOnItsWay
  <2>2. QED
    BY <1>1, <1>2, <1>3, <1>4, <1>5, <2>1
<1>6. \A k \in Loads : OnItsWay(k)' => stale'[k]
  BY <1>1 DEF OnItsWay, HearLayout, MarkStale
<1>7. ASSUME listening, ~misled' PROVE WillBeShown(layoutShown)'
  <2>1. layoutShown' = layoutsTold[1].layout /\ ~layoutsTold[1].late
    BY <1>2, <1>7 DEF HearLayout
  <2>2. layoutsTold[1].layout = layoutStored \/ WillTellLayout \/ ToldAfter(1)
    BY <1>2, <2>1 DEF LayoutInv, LayoutOnItsWay
  <2>3. QED
    BY <1>1, <1>2, <1>3, <1>4, <2>1, <2>2 DEF WillBeShown
<1>8. ~layoutHub' => layoutsTold' = <<>>
  BY <1>1 DEF LayoutInv, LayoutOnItsWay
<1>9. \A r \in LayoutRequests :
         telling'[r] # Quiet /\ ~telling'[r].late => telling'[r].layout = layoutStored'
  BY <1>1 DEF LayoutInv, LayoutOnItsWay
<1>10. QED
  BY <1>1, <1>5, <1>6, <1>7, <1>8, <1>9 DEF LayoutOnItsWay

\* The steps of the client that neither tell nor hear leave what is on its way
\* as it is.
LEMMA ClientStep ==
  ASSUME LayoutFlags, LayoutInv, layoutHub' \in BOOLEAN,
         UNCHANGED <<layoutStored, telling>>,
         layoutsTold' = layoutsTold,
         ~layoutHub' => layoutsTold = <<>>
  PROVE  /\ \A l : WillBeShown(l)' <=> WillBeShown(l)
         /\ (/\ layoutStored # NoLayout =>
                /\ \A k \in Loads :
                     OnItsWay(k)' /\ ~stale'[k] => WillBeShown(layoutLoads'[k])
                /\ layoutHub' /\ listening' /\ layoutLoads'["reload"] = "idle" /\ ~misled' =>
                     WillBeShown(layoutShown'))
            => LayoutOnItsWay'
<1>1. (WillTellLayout' <=> WillTellLayout) /\ \A i : ToldAfter(i)' <=> ToldAfter(i)
  BY DEF WillTellLayout, ToldAfter
<1>2. \A l : WillBeShown(l)' <=> WillBeShown(l)
  BY <1>1 DEF WillBeShown
<1>3. \A i \in 1 .. Len(layoutsTold') :
         ~layoutsTold'[i].late =>
           layoutsTold'[i].layout = layoutStored' \/ WillTellLayout' \/ ToldAfter(i)'
  BY <1>1 DEF LayoutInv, LayoutOnItsWay
<1>4. \A r \in LayoutRequests :
         telling'[r] # Quiet /\ ~telling'[r].late => telling'[r].layout = layoutStored'
  BY DEF LayoutInv, LayoutOnItsWay
<1>5. QED
  BY <1>2, <1>3, <1>4 DEF LayoutOnItsWay

LEMMA LayoutNextStep ==
  ASSUME LayoutFlags, LayoutInv, [LayoutNext]_layoutVars
  PROVE  LayoutOnItsWay'
<1> USE DEF serverLayout, serviceLayout
<1>0. layoutHub' \in BOOLEAN
  BY LayoutFlagsStep DEF LayoutFlags
<1>1. ASSUME NEW k \in Loads, AnswerLayout(k) PROVE LayoutOnItsWay'
  <2>1. /\ layoutLoads[k] = "sent"
        /\ UNCHANGED <<layoutStored, telling, layoutsTold, layoutHub, listening, layoutShown, misled>>
        /\ \A j \in Loads \ {k} : layoutLoads'[j] = layoutLoads[j] /\ stale'[j] = stale[j]
        /\ layoutLoads'[k] \in Layouts
        /\ layoutStored \in {layoutLoads'[k], NoLayout}
    BY <1>1 DEF AnswerLayout, LayoutInv, LayoutSorts, LayoutFlags
  <2>2. layoutLoads'["reload"] = "idle" => layoutLoads["reload"] = "idle"
    BY <2>1, HearingLayoutAssumption DEF Loads
  <2>3. ASSUME NEW j \in Loads, layoutStored # NoLayout, OnItsWay(j)', ~stale'[j]
        PROVE  WillBeShown(layoutLoads'[j])
    <3>1. CASE j = k
      BY <2>1, <2>3, <3>1 DEF WillBeShown
    <3>2. CASE j # k
      BY <2>1, <2>3, <3>2 DEF LayoutInv, LayoutOnItsWay, OnItsWay
    <3>3. QED
      BY <3>1, <3>2
  <2>4. QED
    BY <1>0, <2>1, <2>2, <2>3, ClientStep DEF LayoutInv, LayoutOnItsWay
<1>2. ASSUME NEW k \in Loads, ShowAnswer(k) PROVE LayoutOnItsWay'
  <2>1. /\ OnItsWay(k) /\ layoutShown' = layoutLoads[k] /\ misled' = stale[k]
        /\ UNCHANGED <<layoutStored, telling, layoutsTold, layoutHub>>
        /\ \A j \in Loads \ {k} : layoutLoads'[j] = layoutLoads[j] /\ stale'[j] = stale[j]
        /\ layoutLoads'[k] = "idle"
    BY <1>2 DEF ShowAnswer, LayoutInv, LayoutSorts, LayoutFlags
  <2>2. ~OnItsWay(k)'
    BY <2>1, HearingLayoutAssumption DEF OnItsWay
  <2>3. \A j \in Loads : OnItsWay(j)' /\ ~stale'[j] /\ layoutStored # NoLayout =>
                            WillBeShown(layoutLoads'[j])
    BY <2>1, <2>2 DEF LayoutInv, LayoutOnItsWay, OnItsWay
  <2>4. layoutStored # NoLayout /\ ~misled' => WillBeShown(layoutShown')
    BY <2>1 DEF LayoutInv, LayoutOnItsWay
  <2>5. QED
    BY <1>0, <2>1, <2>3, <2>4, ClientStep DEF LayoutInv, LayoutOnItsWay
<1>3. ASSUME NEW k \in Loads, LayoutLoadFails(k) PROVE LayoutOnItsWay'
  <2>1. /\ layoutLoads[k] = "sent"
        /\ UNCHANGED <<layoutStored, telling, layoutsTold, layoutHub, stale, listening, layoutShown, misled>>
        /\ \A j \in Loads \ {k} : layoutLoads'[j] = layoutLoads[j]
        /\ layoutLoads'[k] = "dead"
    BY <1>3 DEF LayoutLoadFails, LayoutInv, LayoutSorts
  <2>2. \A j \in Loads : OnItsWay(j)' => layoutLoads'[j] = layoutLoads[j] /\ OnItsWay(j)
    BY <2>1, HearingLayoutAssumption DEF OnItsWay
  <2>3. layoutLoads'["reload"] = "idle" => layoutLoads["reload"] = "idle"
    BY <2>1 DEF Loads
  <2>4. QED
    BY <1>0, <2>1, <2>2, <2>3, ClientStep DEF LayoutInv, LayoutOnItsWay
<1>4. CASE LayoutHubFails
  <2>1. /\ layoutHub' = FALSE /\ layoutsTold' = <<>>
        /\ UNCHANGED <<layoutStored, telling, layoutLoads>>
    BY <1>4 DEF LayoutHubFails
  <2>2. CASE layoutsTold = <<>>
    <3>1. stale' = stale /\ layoutsTold' = layoutsTold
      BY <1>4, <2>1, <2>2 DEF LayoutHubFails
    <3>2. QED
      BY <1>0, <2>1, <2>2, <3>1, ClientStep DEF LayoutInv, LayoutOnItsWay, OnItsWay
  <2>3. CASE layoutsTold # <<>>
    <3>1. stale' = [k \in Loads |-> stale[k] \/ OnItsWay(k)]
      BY <1>4, <2>3 DEF LayoutHubFails, MarkStale
    <3>2. \A k \in Loads : OnItsWay(k)' => stale'[k]
      BY <2>1, <3>1 DEF OnItsWay
    <3>3. 1 .. Len(layoutsTold') = {}
      BY <2>1, EmptySeq
    <3>4. QED
      BY <2>1, <3>2, <3>3 DEF LayoutInv, LayoutOnItsWay
  <2>4. QED
    BY <2>2, <2>3
<1>5. CASE LayoutHubReturns
  <2>1. /\ ~layoutHub
        /\ UNCHANGED <<layoutStored, telling, layoutsTold, stale>>
        /\ layoutLoads'["watch"] = layoutLoads["watch"]
        /\ layoutLoads'["reload"] \in {"dead", "sent", "waiting"}
    BY <1>5 DEF LayoutHubReturns, LayoutInv, LayoutSorts, Loads
  <2>2. \A j \in Loads : OnItsWay(j)' => layoutLoads'[j] = layoutLoads[j] /\ OnItsWay(j)
    BY <2>1, HearingLayoutAssumption DEF OnItsWay, Loads
  <2>3. layoutLoads'["reload"] # "idle"
    BY <2>1
  <2>4. QED
    BY <1>0, <2>1, <2>2, <2>3, ClientStep DEF LayoutInv, LayoutOnItsWay
<1>6. CASE OpenHearing
  <2>1. /\ UNCHANGED <<layoutStored, telling, layoutsTold, layoutHub, stale,
                       listening, layoutShown, misled>>
        /\ \A k \in Loads : layoutLoads'[k] = IF layoutLoads[k] = "waiting" THEN "sent"
                                              ELSE layoutLoads[k]
    BY <1>6 DEF OpenHearing
  <2>2. \A j \in Loads : OnItsWay(j)' => layoutLoads'[j] = layoutLoads[j] /\ OnItsWay(j)
    BY <2>1, HearingLayoutAssumption DEF OnItsWay
  <2>3. layoutLoads'["reload"] = "idle" => layoutLoads["reload"] = "idle"
    BY <2>1 DEF Loads
  <2>4. QED
    BY <1>0, <2>1, <2>2, <2>3, ClientStep DEF LayoutInv, LayoutOnItsWay
<1>7. CASE CloseHearing
  BY <1>0, <1>7, ClientStep DEF CloseHearing, LayoutInv, LayoutOnItsWay, OnItsWay
<1>8. CASE UNCHANGED layoutVars
  BY <1>0, <1>8, ClientStep DEF layoutVars, LayoutInv, LayoutOnItsWay, OnItsWay
<1>9. QED
  BY <1>1, <1>2, <1>3, <1>4, <1>5, <1>6, <1>7, <1>8, WrittenIsTold, TellStep, HearStep
  DEF LayoutNext

LEMMA LayoutInitInv == LayoutInit => LayoutFlags /\ LayoutInv
<1> SUFFICES ASSUME LayoutInit PROVE LayoutFlags /\ LayoutInv
  OBVIOUS
<1>1. LayoutFlags
  BY DEF LayoutInit, LayoutFlags
<1>2. LayoutSorts
  BY HearingLayoutAssumption, EmptySeq DEF LayoutInit, LayoutSorts, Loads
<1>3. LayoutOnItsWay
  BY DEF LayoutInit, LayoutOnItsWay
<1>4. QED
  BY <1>1, <1>2, <1>3 DEF LayoutInv

\* Whatever order the requests that change the layout, the messages that tell it
\* and the loads of it take, a browser that listens, with nothing on its way,
\* shows the layout the server has - unless an older one overtook a newer one.
THEOREM LayoutSpecSafe == LayoutSpec => [](LayoutTypeOK /\ LayoutIsShown)
<1>1. LayoutFlags /\ LayoutSorts => LayoutTypeOK
  BY Zenon DEF LayoutFlags, LayoutSorts, LayoutTypeOK
<1>2. LayoutInv => LayoutIsShown
  <2> SUFFICES ASSUME LayoutInv, layoutHub, listening, layoutStored # NoLayout,
                      layoutsTold = <<>>, \A r \in LayoutRequests : telling[r] = Quiet,
                      layoutLoads["reload"] = "idle", ~misled
               PROVE  layoutShown = layoutStored
    BY DEF LayoutIsShown
  <2>1. WillBeShown(layoutShown)
    BY DEF LayoutInv, LayoutOnItsWay
  <2>2. ~WillTellLayout /\ ~ToldAfter(0)
    BY EmptySeq DEF WillTellLayout, ToldAfter
  <2>3. QED
    BY <2>1, <2>2 DEF WillBeShown
<1>3. LayoutFlags /\ LayoutInv /\ [LayoutNext]_layoutVars => LayoutFlags' /\ LayoutInv'
  BY LayoutFlagsStep, LayoutSortsStep, LayoutNextStep DEF LayoutInv
<1>4. QED
  BY <1>1, <1>2, <1>3, LayoutInitInv, PTL DEF LayoutSpec, LayoutInv

-----------------------------------------------------------------------------
(***************************************************************************)
(* The call: what a client has with the supplier, and what the page says of*)
(* it.                                                                     *)
(***************************************************************************)
\* A call is being set up, or waited for.
CallAwaited == settingUp \/ dialling \/ timer

\* Until a mishap only the current client has a call, or is to have one, and
\* who left the page has none.
OneIsCurrent ==
  /\ page = "open" => current \in Clients
  /\ page = "left" => ~CallAwaited /\ ~connected
  /\ \A c \in Clients :
       \/ phase[c] \in {"none", "idle", "gone"}
       \/ /\ c = current /\ page = "open" /\ ~CallAwaited
          /\ phase[c] \in {"asked", "connecting", "live", "moving"}
  /\ ~lostTimer
  /\ settingUp => ~dialling /\ ~timer
  /\ dialling => ~timer
  /\ connected => phase[current] \in {"live", "moving", "asked", "connecting"}
  /\ \A c \in Clients : phase[c] = "live" => connected

\* One heartbeat is asked for at a time.
HeartbeatIsRequestedOnce ==
  /\ configFor # NoClient => initialising /\ heartbeat = NoClient
  /\ heartbeat # NoClient => initialising

\* The heartbeat is of the current client, or will be when its configuration
\* comes.
HeartbeatIsCurrent ==
  initialising /\ ~heartbeatLost =>
    /\ connected
    /\ current \in {heartbeat, configFor}

\* What the properties of a call need: while there is a call there is a
\* heartbeat, or one is on its way.
CallSafe ==
  /\ HeartbeatIsRequestedOnce
  /\ ~mishap => OneIsCurrent /\ HeartbeatIsCurrent
  /\ ~mishap /\ connected => initialising

\* CallTypeOK, its flags apart from the rest.
CallFlags ==
  /\ settingUp \in BOOLEAN /\ dialling \in BOOLEAN /\ connected \in BOOLEAN
  /\ timer \in BOOLEAN /\ lostTimer \in BOOLEAN /\ closed \in BOOLEAN
  /\ initialising \in BOOLEAN /\ heartbeatLost \in BOOLEAN
  /\ callMissed \in BOOLEAN /\ mishap \in BOOLEAN

CallSorts ==
  /\ phase \in [Clients -> Phases]
  /\ current \in 0..MaxClients
  /\ page \in {"left", "open"}
  /\ failedCount \in 0..ConnectionFailedLimit
  /\ visits \in 0..MaxVisits
  /\ heartbeat \in 0..MaxClients /\ configFor \in 0..MaxClients


LEMMA CallFlagsStep == CallFlags /\ [CallNext]_callVars => CallFlags'
<1> SUFFICES ASSUME CallFlags, [CallNext]_callVars PROVE CallFlags'
  OBVIOUS
<1> USE DEF CallFlags
<1>1. ASSUME NEW c \in Clients, TokenGranted(c) PROVE CallFlags'
  BY <1>1 DEF TokenGranted, Connect, KeepClient, HandleConnect, InitialiseHeartbeat, pageVars, heartbeatVars, waitVars, worldVars
<1>2. ASSUME NEW c \in Clients, TokenRefused(c) PROVE CallFlags'
  BY <1>2 DEF TokenRefused, CleanUpConnection, StopHeartbeat, HandleCallError, HandlePexipError, ClosePage, pageVars, waitVars, worldVars
<1>3. ASSUME NEW c \in Clients, CallAnswered(c) PROVE CallFlags'
  BY <1>3 DEF CallAnswered, HandleConnect, InitialiseHeartbeat, heartbeatVars, waitVars, worldVars
<1>4. ASSUME NEW c \in Clients, NEW r \in {"other", "gather"}, CallFails(c, r) PROVE CallFlags'
  BY <1>4 DEF CallFails, CleanUpConnection, StopHeartbeat, HandleCallError, HandlePexipError, ClosePage, Mishap, pageVars, waitVars, worldVars
<1>5. ASSUME NEW c \in Clients, RequestFails(c) PROVE CallFlags'
  BY <1>5 DEF RequestFails, CleanUpConnection, StopHeartbeat, HandleCallError, HandlePexipError, ClosePage, Mishap, pageVars, waitVars, worldVars
<1>6. ASSUME NEW c \in Clients, ServerDisconnects(c) PROVE CallFlags'
  BY <1>6 DEF ServerDisconnects, CleanUpConnection, StopHeartbeat, HandleCallDisconnect, pageVars, waitVars, worldVars
<1>7. ASSUME NEW c \in Clients, ProcessRefer(c) \/ CallElsewhere(c) PROVE CallFlags'
  BY <1>7 DEF ProcessRefer, CallElsewhere, KeepClient, pageVars, heartbeatVars, waitVars, worldVars
<1>8. ASSUME HeartbeatConfigured \/ HeartbeatFails PROVE CallFlags'
  BY <1>8 DEF HeartbeatConfigured, HeartbeatFails, pageVars, waitVars, worldVars
<1>9. ASSUME Enter PROVE CallFlags'
  BY <1>9 DEF Enter, heartbeatVars
<1>10. ASSUME PageCalls PROVE /\ dialling' \in BOOLEAN /\ callMissed' \in BOOLEAN /\ mishap' \in BOOLEAN
                              /\ initialising' \in BOOLEAN /\ heartbeatLost' \in BOOLEAN
  BY <1>10 DEF PageCalls, DisconnectFromCall, KeepClient, CleanUpConnection, StopHeartbeat, Mishap, heartbeatVars
<1>11. ASSUME SetUp PROVE CallFlags'
  BY <1>10, <1>11 DEF SetUp, pageVars, worldVars
<1>12. ASSUME CallAgain PROVE CallFlags'
  BY <1>10, <1>12 DEF CallAgain, worldVars
<1>13. ASSUME MakePexipCall PROVE CallFlags'
  BY <1>13 DEF MakePexipCall, KeepClient, pageVars, heartbeatVars, worldVars
<1>14. ASSUME Leave PROVE CallFlags'
  BY <1>14 DEF Leave, ClosePage, DisconnectFromCall, CleanUpConnection, StopHeartbeat, Mishap, KeepClient, waitVars, worldVars, heartbeatVars
<1>15. ASSUME HearingCloses PROVE CallFlags'
  BY <1>15 DEF HearingCloses, pageVars, heartbeatVars, waitVars
<1>16. CASE UNCHANGED callVars
  BY <1>16 DEF callVars, clientVars, pageVars, heartbeatVars, waitVars, worldVars
<1> QED
  BY <1>1, <1>2, <1>3, <1>4, <1>5, <1>6, <1>7, <1>8, <1>9, <1>11, <1>12, <1>13, <1>14, <1>15, <1>16
  DEF CallNext, TokenAnswered, OfferAnswered, LeaveClosedHearing

LEMMA CallSortsStep == CallFlags /\ CallSorts /\ [CallNext]_callVars => CallSorts'
<1> SUFFICES ASSUME CallSorts, [CallNext]_callVars PROVE CallSorts'
  OBVIOUS
<1> USE VideoCallAssumption DEF CallSorts, Clients, NoClient, Phases
<1>0. ASSUME NEW c \in Clients, NEW p \in Phases PROVE After(c, p) \in [Clients -> Phases]
  BY DEF After
<1>a. ASSUME NEW ph \in [Clients -> Phases], CleanUpConnection(ph)
      PROVE  /\ phase' \in [Clients -> Phases] /\ current' \in 0..MaxClients
             /\ heartbeat' \in 0..MaxClients /\ configFor' \in 0..MaxClients
  BY <1>a DEF CleanUpConnection, SetupClient, StopHeartbeat
<1>b. ASSUME NEW ph \in [Clients -> Phases], KeepClient(ph)
      PROVE  /\ phase' \in [Clients -> Phases] /\ current' \in 0..MaxClients
             /\ heartbeat' \in 0..MaxClients /\ configFor' \in 0..MaxClients
  BY <1>b DEF KeepClient, heartbeatVars
<1>c. ASSUME HandleConnect
      PROVE  /\ heartbeat' \in 0..MaxClients /\ configFor' \in 0..MaxClients
             /\ page' \in {"left", "open"} /\ failedCount' \in 0..ConnectionFailedLimit
  BY <1>c DEF HandleConnect, InitialiseHeartbeat, heartbeatVars
<1>d. ASSUME NEW r \in {"other", "gather"}, HandleCallError(r)
      PROVE  page' \in {"left", "open"} /\ failedCount' \in 0..ConnectionFailedLimit
  BY <1>d DEF HandleCallError, HandlePexipError, ClosePage, pageVars
<1>e. ASSUME HandleCallDisconnect
      PROVE  page' \in {"left", "open"} /\ failedCount' \in 0..ConnectionFailedLimit
  BY <1>e DEF HandleCallDisconnect, pageVars
<1>f. Disconnected \in [Clients -> Phases]
  BY DEF Disconnected, After
<1>g. ASSUME PageCalls
      PROVE  /\ phase' \in [Clients -> Phases] /\ current' \in 0..MaxClients
             /\ heartbeat' \in 0..MaxClients /\ configFor' \in 0..MaxClients
  BY <1>a, <1>b, <1>f, <1>g DEF PageCalls, DisconnectFromCall
<1>1. ASSUME NEW c \in Clients, TokenGranted(c) PROVE CallSorts'
  <2>1. After(c, "setup") \in [Clients -> Phases]
    BY <1>0
  <2>2. [After(c, "setup") EXCEPT ![current] = "connecting"] \in [Clients -> Phases]
    BY <2>1
  <2> QED
    BY <1>1, <1>b, <1>c, <2>1, <2>2 DEF TokenGranted, Connect, pageVars, worldVars
<1>2. ASSUME NEW c \in Clients, TokenRefused(c) PROVE CallSorts'
  BY <1>0, <1>2, <1>a, <1>d DEF TokenRefused, worldVars
<1>3. ASSUME NEW c \in Clients, CallAnswered(c) PROVE CallSorts'
  BY <1>0, <1>3, <1>c DEF CallAnswered, worldVars
<1>4. ASSUME NEW c \in Clients, NEW r \in {"other", "gather"}, CallFails(c, r) PROVE CallSorts'
  BY <1>0, <1>4, <1>a, <1>d DEF CallFails, worldVars
<1>5. ASSUME NEW c \in Clients, RequestFails(c) PROVE CallSorts'
  BY <1>0, <1>5, <1>a, <1>d DEF RequestFails, worldVars
<1>6. ASSUME NEW c \in Clients, ServerDisconnects(c) PROVE CallSorts'
  BY <1>0, <1>6, <1>a, <1>e DEF ServerDisconnects, worldVars
<1>7. ASSUME NEW c \in Clients, ProcessRefer(c) \/ CallElsewhere(c) PROVE CallSorts'
  BY <1>0, <1>7, <1>b DEF ProcessRefer, CallElsewhere, pageVars, worldVars
<1>8. ASSUME HeartbeatConfigured \/ HeartbeatFails PROVE CallSorts'
  BY <1>8 DEF HeartbeatConfigured, HeartbeatFails, clientVars, pageVars, worldVars
<1>9. ASSUME Enter PROVE CallSorts'
  BY <1>9 DEF Enter, SetupClient, heartbeatVars
<1>11. ASSUME SetUp PROVE CallSorts'
  BY <1>g, <1>11 DEF SetUp, pageVars, worldVars
<1>12. ASSUME CallAgain PROVE CallSorts'
  BY <1>g, <1>12 DEF CallAgain, worldVars
<1>13. ASSUME MakePexipCall PROVE CallSorts'
  <2>1. After(current, "asked") \in [Clients -> Phases]
    BY DEF After
  <2> QED
    BY <1>13, <1>b, <2>1 DEF MakePexipCall, pageVars, worldVars
<1>14. ASSUME Leave PROVE CallSorts'
  BY <1>14, <1>a, <1>b, <1>f DEF Leave, ClosePage, DisconnectFromCall, worldVars
<1>15. ASSUME HearingCloses PROVE CallSorts'
  BY <1>15 DEF HearingCloses, clientVars, pageVars, heartbeatVars
<1>16. CASE UNCHANGED callVars
  BY <1>16 DEF callVars, clientVars, pageVars, heartbeatVars, waitVars, worldVars
<1> QED
  BY <1>1, <1>2, <1>3, <1>4, <1>5, <1>6, <1>7, <1>8, <1>9, <1>11, <1>12, <1>13, <1>14, <1>15, <1>16
  DEF CallNext, TokenAnswered, OfferAnswered, LeaveClosedHearing

LEMMA HeartbeatIsRequestedOnceStep ==
  CallFlags /\ CallSorts /\ HeartbeatIsRequestedOnce /\ [CallNext]_callVars
    => HeartbeatIsRequestedOnce'
<1> SUFFICES ASSUME CallFlags, CallSorts, HeartbeatIsRequestedOnce, [CallNext]_callVars
             PROVE  HeartbeatIsRequestedOnce'
  OBVIOUS
<1> USE VideoCallAssumption DEF HeartbeatIsRequestedOnce, CallFlags, CallSorts, Clients, NoClient
<1>a. ASSUME StopHeartbeat PROVE HeartbeatIsRequestedOnce'
  BY <1>a DEF StopHeartbeat
<1>b. ASSUME UNCHANGED heartbeatVars PROVE HeartbeatIsRequestedOnce'
  BY <1>b DEF heartbeatVars
<1>c. ASSUME HandleConnect PROVE HeartbeatIsRequestedOnce'
  BY <1>c, <1>b DEF HandleConnect, InitialiseHeartbeat
<1>g. ASSUME PageCalls PROVE HeartbeatIsRequestedOnce'
  BY <1>a, <1>b, <1>g DEF PageCalls, DisconnectFromCall, CleanUpConnection, KeepClient
<1>1. ASSUME NEW c \in Clients, TokenGranted(c) PROVE HeartbeatIsRequestedOnce'
  BY <1>1, <1>b, <1>c DEF TokenGranted, Connect, KeepClient
<1>2. ASSUME NEW c \in Clients, NEW r \in {"other", "gather"},
             \/ TokenRefused(c) \/ CallFails(c, r) \/ RequestFails(c)
             \/ ServerDisconnects(c)
      PROVE HeartbeatIsRequestedOnce'
  BY <1>2, <1>a DEF TokenRefused, CallFails, RequestFails, ServerDisconnects, CleanUpConnection
<1>3. ASSUME NEW c \in Clients, CallAnswered(c) PROVE HeartbeatIsRequestedOnce'
  BY <1>3, <1>c DEF CallAnswered
<1>7. ASSUME NEW c \in Clients, ProcessRefer(c) \/ CallElsewhere(c) PROVE HeartbeatIsRequestedOnce'
  BY <1>7, <1>b DEF ProcessRefer, CallElsewhere, KeepClient
<1>8. ASSUME HeartbeatConfigured \/ HeartbeatFails PROVE HeartbeatIsRequestedOnce'
  BY <1>8 DEF HeartbeatConfigured, HeartbeatFails
<1>9. ASSUME Enter \/ HearingCloses PROVE HeartbeatIsRequestedOnce'
  BY <1>9, <1>b DEF Enter, HearingCloses
<1>11. ASSUME SetUp \/ CallAgain PROVE HeartbeatIsRequestedOnce'
  BY <1>g, <1>11 DEF SetUp, CallAgain
<1>13. ASSUME MakePexipCall PROVE HeartbeatIsRequestedOnce'
  BY <1>b, <1>13 DEF MakePexipCall, KeepClient
<1>14. ASSUME Leave PROVE HeartbeatIsRequestedOnce'
  BY <1>14, <1>a, <1>b DEF Leave, DisconnectFromCall, CleanUpConnection, KeepClient
<1>16. CASE UNCHANGED callVars
  BY <1>16, <1>b DEF callVars
<1> QED
  BY <1>1, <1>2, <1>3, <1>7, <1>8, <1>9, <1>11, <1>13, <1>14, <1>16
  DEF CallNext, TokenAnswered, OfferAnswered, LeaveClosedHearing

LEMMA MishapStays == CallFlags /\ mishap /\ [CallNext]_callVars => mishap'
<1> SUFFICES ASSUME CallFlags, mishap, [CallNext]_callVars PROVE mishap'
  OBVIOUS
<1>1. CASE CallNext
  BY <1>1 DEF CallNext, TokenAnswered, OfferAnswered, LeaveClosedHearing, TokenGranted,
    TokenRefused, CallAnswered, CallFails, RequestFails, ServerDisconnects, ProcessRefer,
    CallElsewhere, HeartbeatConfigured, HeartbeatFails, Enter, SetUp, MakePexipCall,
    CallAgain, Leave, HearingCloses, PageCalls, DisconnectFromCall, Mishap
<1>2. CASE UNCHANGED callVars
  BY <1>2 DEF callVars
<1> QED
  BY <1>1, <1>2


LEMMA OneIsCurrentStep ==
  CallFlags /\ CallSorts /\ OneIsCurrent /\ [CallNext]_callVars /\ ~mishap'
    => OneIsCurrent'
<1> SUFFICES ASSUME CallFlags, CallSorts, OneIsCurrent, [CallNext]_callVars, ~mishap'
             PROVE  OneIsCurrent'
  OBVIOUS
<1>m. ~mishap
  BY MishapStays
<1> USE VideoCallAssumption DEF OneIsCurrent, CallAwaited, CallFlags, CallSorts, Clients,
    NoClient, Phases, HasCall, HasToken, Present
<1>a. ASSUME NEW c \in Clients, phase[c] \in HasToken \cup {"asked"},
             CleanUpConnection(After(c, "gone"))
      PROVE  /\ c = current /\ page = "open" /\ ~CallAwaited
             /\ current' \in Clients
             /\ \A d \in Clients : phase'[d] \in {"none", "idle", "gone"}
  BY <1>a DEF CleanUpConnection, SetupClient, After
<1>1. ASSUME NEW c \in Clients, TokenGranted(c) PROVE OneIsCurrent'
  <2>1. phase[c] = "asked" /\ c = current /\ page = "open" /\ ~CallAwaited
    BY <1>1 DEF TokenGranted
  <2>2. Connect(After(c, "setup"))
    BY <1>1, <2>1 DEF TokenGranted
  <2>3. KeepClient([After(c, "setup") EXCEPT ![current] = "connecting"]) /\ UNCHANGED pageVars
    BY <2>1, <2>2 DEF Connect, After
  <2>4. phase' = [phase EXCEPT ![c] = "connecting"]
    BY <2>1, <2>3 DEF KeepClient, After
  <2> QED
    BY <1>1, <2>1, <2>3, <2>4 DEF TokenGranted, KeepClient, pageVars, waitVars
<1>2. ASSUME NEW c \in Clients, TokenRefused(c) PROVE OneIsCurrent'
  BY <1>2, <1>a DEF TokenRefused, HandleCallError, HandlePexipError, ClosePage, waitVars
<1>3. ASSUME NEW c \in Clients, CallAnswered(c) PROVE OneIsCurrent'
  BY <1>3 DEF CallAnswered, After, HandleConnect, waitVars
<1>4. ASSUME NEW c \in Clients, NEW r \in {"other", "gather"}, CallFails(c, r) \/ RequestFails(c)
      PROVE OneIsCurrent'
  BY <1>4 DEF CallFails, RequestFails, Mishap
<1>6. ASSUME NEW c \in Clients, ServerDisconnects(c) PROVE OneIsCurrent'
  BY <1>6, <1>a DEF ServerDisconnects, HandleCallDisconnect, waitVars
<1>7. ASSUME NEW c \in Clients, ProcessRefer(c) \/ CallElsewhere(c) PROVE OneIsCurrent'
  BY <1>7 DEF ProcessRefer, CallElsewhere, KeepClient, After, pageVars, waitVars
<1>8. ASSUME HeartbeatConfigured \/ HeartbeatFails \/ HearingCloses \/ UNCHANGED callVars
      PROVE OneIsCurrent'
  BY <1>8 DEF HeartbeatConfigured, HeartbeatFails, HearingCloses, callVars, clientVars, pageVars, waitVars
<1>9. ASSUME Enter PROVE OneIsCurrent'
  BY <1>9 DEF Enter, SetupClient
<1>g. ASSUME PageCalls, CallAwaited
      PROVE  phase' = phase /\ current' = current
  BY <1>g DEF PageCalls, KeepClient
<1>11. ASSUME SetUp PROVE OneIsCurrent'
  BY <1>11, <1>g DEF SetUp, pageVars
<1>12. ASSUME CallAgain PROVE OneIsCurrent'
  BY <1>12, <1>g DEF CallAgain
<1>13. ASSUME MakePexipCall PROVE OneIsCurrent'
  BY <1>13 DEF MakePexipCall, KeepClient, After, pageVars
<1>14. ASSUME Leave PROVE OneIsCurrent'
  <2>1. CASE connected
    BY <1>14, <2>1 DEF Leave, ClosePage, DisconnectFromCall, CleanUpConnection, SetupClient,
      Disconnected, After, Mishap, waitVars
  <2>2. CASE ~connected
    BY <1>14, <2>2 DEF Leave, ClosePage, KeepClient, Mishap, waitVars
  <2> QED
    BY <2>1, <2>2
<1> QED
  BY <1>1, <1>2, <1>3, <1>4, <1>6, <1>7, <1>8, <1>9, <1>11, <1>12, <1>13, <1>14
  DEF CallNext, TokenAnswered, OfferAnswered, LeaveClosedHearing

LEMMA HeartbeatIsCurrentStep ==
  /\ CallFlags /\ CallSorts /\ OneIsCurrent /\ HeartbeatIsRequestedOnce
  /\ HeartbeatIsCurrent /\ (connected => initialising)
  /\ [CallNext]_callVars /\ ~mishap'
  => HeartbeatIsCurrent' /\ (connected' => initialising')
<1> DEFINE Goal == HeartbeatIsCurrent' /\ (connected' => initialising')
<1> SUFFICES ASSUME CallFlags, CallSorts, OneIsCurrent, HeartbeatIsRequestedOnce,
                    HeartbeatIsCurrent, connected => initialising,
                    [CallNext]_callVars, ~mishap'
             PROVE  Goal
  OBVIOUS
<1>m. ~mishap
  BY MishapStays
<1> USE VideoCallAssumption DEF HeartbeatIsCurrent, HeartbeatIsRequestedOnce, CallFlags,
    CallSorts, Clients, NoClient
<1>a. ASSUME StopHeartbeat PROVE ~initialising' \/ heartbeatLost'
  BY <1>a DEF StopHeartbeat
<1>b. ASSUME NEW ph, CleanUpConnection(ph), ~connected' PROVE Goal
  BY <1>a, <1>b DEF CleanUpConnection
<1>c. ASSUME UNCHANGED <<current, heartbeatVars, connected>> PROVE Goal
  BY <1>c DEF heartbeatVars
<1>d. ASSUME HandleConnect, page = "open", current' = current, current \in Clients PROVE Goal
  <2>1. connected' <=> TRUE
    BY <1>d DEF HandleConnect
  <2>2. CASE heartbeat = NoClient /\ ~initialising
    <3>1. initialising' /\ configFor' = current
      BY <1>d, <2>2 DEF HandleConnect, InitialiseHeartbeat
    <3> QED
      BY <1>d, <2>1, <3>1
  <2>3. CASE heartbeat # NoClient \/ initialising
    <3>1. UNCHANGED heartbeatVars
      BY <1>d, <2>3 DEF HandleConnect, InitialiseHeartbeat
    <3> QED
      BY <1>d, <2>1, <2>3, <3>1 DEF heartbeatVars
  <2> QED
    BY <2>2, <2>3
<1>1. ASSUME NEW c \in Clients, TokenGranted(c) PROVE Goal
  <2>1. phase[c] = "asked" /\ c = current /\ page = "open"
    BY <1>1 DEF TokenGranted, OneIsCurrent
  <2>2. Connect(After(c, "setup"))
    BY <1>1, <2>1 DEF TokenGranted
  <2> QED
    BY <2>1, <2>2, <1>c, <1>d DEF Connect, KeepClient, pageVars
<1>p. ASSUME NEW c \in Clients, phase[c] \in HasToken \cup {"asked"}
      PROVE page = "open" /\ current \in Clients /\ c = current
  BY <1>p DEF OneIsCurrent, HasToken, HasCall
<1>2. ASSUME NEW c \in Clients, TokenRefused(c) PROVE Goal
  BY <1>2, <1>b, <1>p DEF TokenRefused, HandleCallError, HandlePexipError, ClosePage
<1>3. ASSUME NEW c \in Clients, CallAnswered(c) PROVE Goal
  BY <1>3, <1>p, <1>d DEF CallAnswered, HasToken, HasCall
<1>4. ASSUME NEW c \in Clients, NEW r \in {"other", "gather"}, CallFails(c, r) \/ RequestFails(c)
      PROVE Goal
  BY <1>4 DEF CallFails, RequestFails, Mishap
<1>6. ASSUME NEW c \in Clients, ServerDisconnects(c) PROVE Goal
  BY <1>6, <1>b, <1>p DEF ServerDisconnects, HandleCallDisconnect
<1>7. ASSUME NEW c \in Clients, ProcessRefer(c) \/ CallElsewhere(c) PROVE Goal
  BY <1>7, <1>c DEF ProcessRefer, CallElsewhere, KeepClient, pageVars
<1>8. ASSUME HeartbeatConfigured \/ HeartbeatFails PROVE Goal
  BY <1>8 DEF HeartbeatConfigured, HeartbeatFails, clientVars, pageVars
<1>8a. ASSUME HearingCloses \/ UNCHANGED callVars PROVE Goal
  BY <1>8a, <1>c DEF HearingCloses, callVars, clientVars, pageVars
<1>9. ASSUME Enter PROVE Goal
  BY <1>9 DEF Enter, OneIsCurrent, heartbeatVars
<1>g. ASSUME PageCalls, CallAwaited PROVE current' = current /\ UNCHANGED heartbeatVars
  BY <1>g DEF PageCalls, KeepClient, OneIsCurrent, HasCall
<1>11. ASSUME SetUp \/ CallAgain PROVE Goal
  BY <1>11, <1>g, <1>c DEF SetUp, CallAgain, CallAwaited, OneIsCurrent, pageVars
<1>13. ASSUME MakePexipCall PROVE Goal
  BY <1>13, <1>c DEF MakePexipCall, KeepClient, pageVars
<1>14. ASSUME Leave PROVE Goal
  <2>1. CASE connected
    BY <1>14, <2>1, <1>b DEF Leave, ClosePage, DisconnectFromCall
  <2>2. CASE ~connected
    BY <1>14, <2>2, <1>c DEF Leave, ClosePage, KeepClient
  <2> QED
    BY <2>1, <2>2
<1> QED
  BY <1>1, <1>2, <1>3, <1>4, <1>6, <1>7, <1>8, <1>8a, <1>9, <1>11, <1>13, <1>14
  DEF CallNext, TokenAnswered, OfferAnswered, LeaveClosedHearing

LEMMA CallSafeInit == CallInit => CallFlags /\ CallSorts /\ CallSafe
<1> SUFFICES ASSUME CallInit PROVE CallFlags /\ CallSorts /\ CallSafe
  OBVIOUS
<1>1. CallFlags
  BY DEF CallInit, CallFlags
<1>2. CallSorts
  BY VideoCallAssumption DEF CallInit, CallSorts, Clients, Phases, NoClient
<1>3. CallSafe
  BY VideoCallAssumption DEF CallInit, CallSafe, OneIsCurrent, HeartbeatIsRequestedOnce,
    HeartbeatIsCurrent, CallAwaited, NoClient
<1> QED
  BY <1>1, <1>2, <1>3

LEMMA CallSafeStep ==
  CallFlags /\ CallSorts /\ CallSafe /\ [CallNext]_callVars => CallSafe'
<1> SUFFICES ASSUME CallFlags, CallSorts, CallSafe, [CallNext]_callVars PROVE CallSafe'
  OBVIOUS
<1>1. HeartbeatIsRequestedOnce'
  BY HeartbeatIsRequestedOnceStep DEF CallSafe
<1>2. ASSUME ~mishap'
      PROVE OneIsCurrent' /\ HeartbeatIsCurrent' /\ (connected' => initialising')
  <2>1. ~mishap
    BY <1>2, MishapStays
  <2>2. OneIsCurrent /\ HeartbeatIsRequestedOnce /\ HeartbeatIsCurrent /\ (connected => initialising)
    BY <2>1 DEF CallSafe
  <2> QED
    BY <1>2, <2>2, OneIsCurrentStep, HeartbeatIsCurrentStep
<1> QED
  BY <1>1, <1>2 DEF CallSafe

LEMMA CallSafeImplies ==
  CallFlags /\ CallSorts /\ CallSafe
    => CallTypeOK /\ StraysHaveACause /\ ConnectedIsTheCall /\ HeartbeatOfTheCall
<1> SUFFICES ASSUME CallFlags, CallSorts, CallSafe
             PROVE  CallTypeOK /\ StraysHaveACause /\ ConnectedIsTheCall /\ HeartbeatOfTheCall
  OBVIOUS
<1>1. CallTypeOK
  BY Zenon DEF CallFlags, CallSorts, CallTypeOK
<1>2. StraysHaveACause
  BY DEF CallSafe, OneIsCurrent, StraysHaveACause, Strays, Present, HasToken, HasCall
<1>3. ConnectedIsTheCall
  BY DEF CallSafe, OneIsCurrent, ConnectedIsTheCall
<1>4. HeartbeatOfTheCall
  BY DEF CallSafe, HeartbeatIsCurrent, HeartbeatOfTheCall
<1> QED
  BY <1>1, <1>2, <1>3, <1>4

\* For any number of clients and visits: a call nobody holds any more comes of a
\* mishap that is counted; otherwise the page says it is connected only while
\* the current client has the call, and the heartbeat is of that client.
THEOREM CallSpecSafe ==
  CallSpec => [](CallTypeOK /\ StraysHaveACause /\ ConnectedIsTheCall /\ HeartbeatOfTheCall)
<1> DEFINE IInv == CallFlags /\ CallSorts /\ CallSafe
<1>1. CallInit => IInv
  BY CallSafeInit
<1>2. IInv /\ [CallNext]_callVars => IInv'
  BY CallFlagsStep, CallSortsStep, CallSafeStep
<1>3. IInv => CallTypeOK /\ StraysHaveACause /\ ConnectedIsTheCall /\ HeartbeatOfTheCall
  BY CallSafeImplies
<1> QED
  BY <1>1, <1>2, <1>3, PTL DEF CallSpec

-----------------------------------------------------------------------------
(***************************************************************************)
(* The host's lock: the client and the supplier tell each other, each in   *)
(* turn, who is muted.                                                     *)
(***************************************************************************)
\* Of whom an update or an order speaks.
Who == Guests \cup {"all"}
Words == [who : Who, muted : BOOLEAN]

\* LockTypeOK, its flags apart from the rest.
LockFlags ==
  /\ guestsMuted \in BOOLEAN /\ seenLocked \in BOOLEAN
  /\ countdownDone \in BOOLEAN /\ hasty \in BOOLEAN
  /\ hostIsChair \in BOOLEAN /\ hostInHearing \in BOOLEAN /\ unchecked \in BOOLEAN

LockSorts ==
  /\ remoteMutes \in SUBSET Guests /\ seenMutes \in SUBSET Guests
  /\ updates \in Seq(Words) /\ orders \in Seq(Words)
  /\ unlockWaits \in Nat /\ hostActs \in 0..MaxHostActs

\* What the supplier has of somebody, and what the client sees.
Truth(w) == IF w = "all" THEN guestsMuted ELSE w \in remoteMutes
Seen(w) == IF w = "all" THEN seenLocked ELSE w \in seenMutes

\* No update of w is on its way.
NoWord(w) == \A i \in 1 .. Len(updates) : updates[i].who # w

\* The i-th update is the last of w.
LastWord(w, i) ==
  /\ updates[i].who = w
  /\ \A j \in i + 1 .. Len(updates) : updates[j].who # w

\* The last update of everyone says what the supplier has.
WordsFollow ==
  \A w \in Who :
    \/ NoWord(w) /\ (Seen(w) <=> Truth(w))
    \/ \E i \in 1 .. Len(updates) :
         LastWord(w, i) /\ (updates[i].muted <=> Truth(w))

\* The client will see the guest muted when the i-th update comes.
MutedBefore(g, i) ==
  \/ g \in seenMutes /\ \A j \in 1 .. i - 1 : updates[j].who # g
  \/ \E j \in 1 .. i - 1 :
       /\ updates[j].who = g /\ updates[j].muted
       /\ \A k \in j + 1 .. i - 1 : updates[k].who # g

MutedAfter(g, i) ==
  \E j \in i + 1 .. Len(updates) : updates[j].who = g /\ updates[j].muted

\* The client is told of a lock while it sees somebody muted, or before it does.
LockedAmidMutes ==
  \A i \in 1 .. Len(updates) : updates[i].who = "all" /\ updates[i].muted =>
    \E g \in Guests : MutedBefore(g, i) \/ MutedAfter(g, i)

\* Somebody's update, or order, of w is on its way.
Said(w, b) ==
  \E i \in 1 .. Len(updates) : updates[i].who = w /\ (updates[i].muted <=> b)
Ordered(w, b) ==
  \E i \in 1 .. Len(orders) : orders[i].who = w /\ (orders[i].muted <=> b)

\* A host who presides, and has been told of somebody since.
Watches == Presides /\ ~unchecked

\* Guests who are all seen muted are about to be locked, or not to be muted.
LockComes ==
  Watches /\ seenMutes = Guests /\ ~seenLocked =>
    \/ Ordered("all", TRUE) \/ Said("all", TRUE)
    \/ \E g \in Guests : Ordered(g, FALSE) \/ Said(g, FALSE)

\* Guests of whom none is seen muted are about to be unlocked, or one is muted.
UnlockComes ==
  Watches /\ seenMutes = {} /\ seenLocked /\ countdownDone =>
    \/ Ordered("all", FALSE) \/ Said("all", FALSE)
    \/ \E g \in Guests : Said(g, TRUE)

\* A host who presides has acted on the end of every countdown.
NobodyWaits == Presides => unlockWaits = 0

\* Whatever the client and the supplier have otherwise, an update says; and the
\* lock follows the guests once nothing is on its way.
LockInv ==
  /\ LockSorts /\ WordsFollow /\ LockedAmidMutes /\ LockComes /\ UnlockComes
  /\ NobodyWaits

LEMMA NobodyIsAll == \A g \in Guests : g # "all"
BY ConferenceLockAssumption

\* One sequence of words after another.
LEMMA Joined ==
  ASSUME NEW u \in Seq(Words), NEW v \in Seq(Words)
  PROVE  /\ u \o v \in Seq(Words)
         /\ Len(u) \in Nat /\ Len(v) \in Nat /\ Len(u \o v) = Len(u) + Len(v)
         /\ \A i \in 1 .. Len(u) : (u \o v)[i] = u[i] /\ u[i] \in Words
         /\ \A i \in 1 .. Len(v) : (u \o v)[Len(u) + i] = v[i] /\ v[i] \in Words
         /\ \A i \in Len(u) + 1 .. Len(u \o v) :
              i - Len(u) \in 1 .. Len(v) /\ (u \o v)[i] = v[i - Len(u)]
<1>1. /\ u \o v \in Seq(Words) /\ Len(u \o v) = Len(u) + Len(v)
      /\ \A i \in 1 .. Len(u) + Len(v) :
           (u \o v)[i] = IF i <= Len(u) THEN u[i] ELSE v[i - Len(u)]
  BY ConcatProperties
<1>2. /\ Len(u) \in Nat /\ Len(v) \in Nat
      /\ \A i \in 1 .. Len(u) : u[i] \in Words
      /\ \A i \in 1 .. Len(v) : v[i] \in Words
  BY LenProperties, ElementOfSeq
<1>3. \A i \in 1 .. Len(u) : (u \o v)[i] = u[i]
  BY <1>1, <1>2
<1>4. ASSUME NEW i \in 1 .. Len(v) PROVE (u \o v)[Len(u) + i] = v[i]
  <2>1. /\ Len(u) + i \in 1 .. Len(u) + Len(v) /\ ~(Len(u) + i <= Len(u))
        /\ Len(u) + i - Len(u) = i
    BY <1>2
  <2>2. QED
    BY <1>1, <2>1
<1>5. ASSUME NEW i \in Len(u) + 1 .. Len(u \o v)
      PROVE  i - Len(u) \in 1 .. Len(v) /\ (u \o v)[i] = v[i - Len(u)]
  BY <1>1, <1>2
<1>6. QED
  BY <1>1, <1>2, <1>3, <1>4, <1>5

\* The first is taken.
LEMMA Taken ==
  ASSUME NEW u \in Seq(Words), u # <<>>
  PROVE  /\ Tail(u) \in Seq(Words) /\ Head(u) = u[1] /\ Head(u) \in Words
         /\ Len(u) \in Nat /\ Len(u) > 0 /\ Len(Tail(u)) = Len(u) - 1
         /\ \A i \in 1 .. Len(u) - 1 : Tail(u)[i] = u[i + 1]
         /\ \A i \in 2 .. Len(u) : Tail(u)[i - 1] = u[i]
<1>1. /\ Tail(u) \in Seq(Words) /\ Head(u) = u[1] /\ Head(u) \in Words
      /\ Len(Tail(u)) = Len(u) - 1
      /\ \A i \in 1 .. Len(Tail(u)) : Tail(u)[i] = u[i + 1]
  BY HeadTailProperties
<1>2. Len(u) \in Nat /\ Len(u) > 0
  BY EmptySeq, LenProperties
<1>3. ASSUME NEW i \in 2 .. Len(u) PROVE Tail(u)[i - 1] = u[i]
  <2>1. i - 1 \in 1 .. Len(Tail(u)) /\ (i - 1) + 1 = i
    BY <1>1, <1>2
  <2>2. QED
    BY <1>1, <2>1
<1>4. QED
  BY <1>1, <1>2, <1>3

\* Updates of some guests: each is told of once.
ToldOf(some, b) == SetToSeq({[who |-> g, muted |-> b] : g \in some})

LEMMA ToldOnce ==
  ASSUME NEW some \in SUBSET Guests, NEW b \in BOOLEAN
  PROVE  /\ ToldOf(some, b) \in Seq(Words)
         /\ \A i \in 1 .. Len(ToldOf(some, b)) :
              ToldOf(some, b)[i].who \in some /\ ToldOf(some, b)[i].muted = b
         /\ \A g \in some : \E i \in 1 .. Len(ToldOf(some, b)) :
              /\ ToldOf(some, b)[i].who = g
              /\ \A j \in 1 .. Len(ToldOf(some, b)) :
                   j # i => ToldOf(some, b)[j].who # g
<1> DEFINE said == {[who |-> g, muted |-> b] : g \in some}
           told == SetToSeq(said)
<1>1. IsFiniteSet(some)
  BY ConferenceLockAssumption, FS_Subset
<1>2. IsFiniteSet(said)
  <2> DEFINE f == [g \in some |-> [who |-> g, muted |-> b]]
  <2>1. f \in Surjection(some, said)
    BY DEF Surjection
  <2>2. QED
    BY <1>1, <2>1, FS_Surjection
<1>3. said \subseteq Words
  BY DEF Words, Who
<1>4. \A m \in said : m.who \in some /\ m.muted = b
  OBVIOUS
<1>5. \A g \in some : [who |-> g, muted |-> b] \in said
  OBVIOUS
<1>6. \A m \in said : m = [who |-> m.who, muted |-> b]
  OBVIOUS
<1> HIDE DEF said
<1>7. Cardinality(said) \in Nat /\ \E f : f \in Bijection(1 .. Cardinality(said), said)
  BY <1>2, FS_CardinalityType DEF ExistsBijection
<1>8. told \in [1 .. Cardinality(said) -> said] /\ IsInjective(told)
  <2>1. \E f \in [1 .. Cardinality(said) -> said] : IsInjective(f)
    BY <1>7 DEF Bijection, Injection
  <2>2. QED
    BY <2>1 DEF SetToSeq
<1>9. told \in Surjection(1 .. Cardinality(said), said)
  <2>1. told \in Injection(1 .. Cardinality(said), said)
    BY <1>8 DEF Injection
  <2>2. Cardinality(1 .. Cardinality(said)) = Cardinality(said)
    BY <1>7, FS_Interval
  <2>3. QED
    BY <1>2, <2>1, <2>2, FS_Injection
<1> HIDE DEF told
<1>10. told \in Seq(said) /\ Len(told) = Cardinality(said) /\ DOMAIN told = 1 .. Len(told)
  BY <1>7, <1>8, SeqDef, LenProperties
<1>11. told \in Seq(Words)
  BY <1>3, <1>7, <1>8, SeqDef
<1>12. \A i \in 1 .. Len(told) : told[i] \in said
  BY <1>8, <1>10
<1>13. ASSUME NEW g \in some
       PROVE  \E i \in 1 .. Len(told) :
                /\ told[i].who = g
                /\ \A j \in 1 .. Len(told) : j # i => told[j].who # g
  <2>1. PICK i \in 1 .. Len(told) : told[i] = [who |-> g, muted |-> b]
    BY <1>5, <1>9, <1>10 DEF Surjection
  <2>2. ASSUME NEW j \in 1 .. Len(told), told[j].who = g PROVE j = i
    <3>1. told[j] = [who |-> g, muted |-> b]
      BY <1>6, <1>12, <2>2
    <3>2. QED
      BY <1>8, <1>10, <2>1, <3>1 DEF IsInjective
  <2>3. QED
    BY <2>1, <2>2
<1>14. QED
  <2>1. told = ToldOf(some, b)
    BY DEF ToldOf, told, said
  <2>2. QED
    BY <1>4, <1>11, <1>12, <1>13, <2>1

\* What the supplier tells of a change: of everyone it changes, once.
SupplierSays(new) ==
  \A w \in Who :
    \/ /\ \A i \in 1 .. Len(new) : new[i].who # w
       /\ Truth(w)' <=> Truth(w)
    \/ \E i \in 1 .. Len(new) :
         /\ new[i].who = w /\ (new[i].muted <=> Truth(w)')
         /\ \A j \in 1 .. Len(new) : j # i => new[j].who # w

LEMMA ToldStep ==
  ASSUME LockSorts, WordsFollow, LockedAmidMutes, UNCHANGED seenLock,
         NEW new \in Seq(Words), updates' = updates \o new, SupplierSays(new),
         \A i \in 1 .. Len(new) :
           new[i].who = "all" /\ new[i].muted => remoteMutes' = Guests
  PROVE  /\ updates' \in Seq(Words) /\ WordsFollow' /\ LockedAmidMutes'
         /\ \A w, b : Said(w, b) => Said(w, b)'
<1>0. PICK n, k : n = Len(updates) /\ k = Len(new)
  OBVIOUS
<1>1. /\ updates' \in Seq(Words)
      /\ n \in Nat /\ k \in Nat /\ Len(updates') = n + k
      /\ \A i \in 1 .. n : updates'[i] = updates[i] /\ updates[i] \in Words
      /\ \A i \in 1 .. k : updates'[n + i] = new[i] /\ new[i] \in Words
      /\ \A i \in n + 1 .. n + k : i - n \in 1 .. k /\ updates'[i] = new[i - n]
  BY <1>0, Joined DEF LockSorts
<1>2. \A w \in Who : Seen(w)' <=> Seen(w)
  BY DEF Seen, seenLock
<1>3. ASSUME NEW w \in Who
      PROVE  \/ NoWord(w)' /\ (Seen(w)' <=> Truth(w)')
             \/ \E i \in 1 .. Len(updates') :
                  LastWord(w, i)' /\ (updates'[i].muted <=> Truth(w)')
  <2>1. CASE \E i \in 1 .. k :
               /\ new[i].who = w /\ (new[i].muted <=> Truth(w)')
               /\ \A j \in 1 .. k : j # i => new[j].who # w
    <3>1. PICK i \in 1 .. k :
            /\ new[i].who = w /\ (new[i].muted <=> Truth(w)')
            /\ \A j \in 1 .. k : j # i => new[j].who # w
      BY <2>1
    <3>2. n + i \in 1 .. Len(updates') /\ updates'[n + i] = new[i]
      BY <1>1, <3>1
    <3>3. ASSUME NEW j \in n + i + 1 .. Len(updates') PROVE updates'[j].who # w
      <4>1. j - n \in 1 .. k /\ updates'[j] = new[j - n] /\ j - n # i
        BY <1>1, <3>3
      <4>2. QED
        BY <3>1, <4>1
    <3>4. LastWord(w, n + i)'
      BY <3>1, <3>2, <3>3 DEF LastWord
    <3>5. QED
      BY <3>1, <3>2, <3>4
  <2>2. CASE (\A i \in 1 .. k : new[i].who # w) /\ (Truth(w)' <=> Truth(w))
    <3>1. \A j \in n + 1 .. n + k : updates'[j].who # w
      BY <1>1, <2>2
    <3>2. CASE NoWord(w) /\ (Seen(w) <=> Truth(w))
      <4>1. ASSUME NEW i \in 1 .. Len(updates') PROVE updates'[i].who # w
        <5>1. i \in 1 .. n \/ i \in n + 1 .. n + k
          BY <1>1
        <5>2. QED
          BY <1>0, <1>1, <3>1, <3>2, <5>1 DEF NoWord
      <4>2. NoWord(w)'
        BY <4>1 DEF NoWord
      <4>3. QED
        BY <1>2, <2>2, <3>2, <4>2
    <3>3. CASE \E i \in 1 .. n : LastWord(w, i) /\ (updates[i].muted <=> Truth(w))
      <4>1. PICK i \in 1 .. n : LastWord(w, i) /\ (updates[i].muted <=> Truth(w))
        BY <3>3
      <4>2. i \in 1 .. Len(updates') /\ updates'[i] = updates[i]
        BY <1>1
      <4>3. ASSUME NEW j \in i + 1 .. Len(updates') PROVE updates'[j].who # w
        <5>1. j \in i + 1 .. n \/ j \in n + 1 .. n + k
          BY <1>1, <4>2
        <5>2. CASE j \in i + 1 .. n
          <6>1. j \in 1 .. n
            BY <1>1, <5>2
          <6>2. QED
            BY <1>0, <1>1, <4>1, <5>2, <6>1 DEF LastWord
        <5>3. QED
          BY <3>1, <5>1, <5>2
      <4>4. LastWord(w, i)'
        BY <4>1, <4>2, <4>3 DEF LastWord
      <4>5. QED
        BY <2>2, <4>1, <4>2, <4>4
    <3>4. QED
      BY <1>0, <3>2, <3>3 DEF WordsFollow
  <2>3. QED
    BY <1>0, <2>1, <2>2 DEF SupplierSays
<1>4. WordsFollow'
  BY <1>3 DEF WordsFollow
<1>5. ASSUME NEW i \in 1 .. n, updates[i].who = "all", updates[i].muted
      PROVE  \E g \in Guests : MutedBefore(g, i)' \/ MutedAfter(g, i)'
  <2>1. PICK g \in Guests : MutedBefore(g, i) \/ MutedAfter(g, i)
    BY <1>0, <1>5 DEF LockedAmidMutes
  <2>2. \A j \in 1 .. i - 1 : updates'[j] = updates[j]
    BY <1>1
  <2>3. MutedBefore(g, i) => MutedBefore(g, i)'
    <3>1. CASE g \in seenMutes /\ \A j \in 1 .. i - 1 : updates[j].who # g
      BY <2>2, <3>1 DEF MutedBefore, seenLock
    <3>2. ASSUME NEW j \in 1 .. i - 1, updates[j].who = g, updates[j].muted,
                 \A l \in j + 1 .. i - 1 : updates[l].who # g
          PROVE  MutedBefore(g, i)'
      <4>1. \A l \in j + 1 .. i - 1 : updates'[l].who # g
        BY <1>1, <2>2, <3>2
      <4>2. updates'[j].who = g /\ updates'[j].muted
        BY <2>2, <3>2
      <4>3. QED
        BY <4>1, <4>2, Zenon DEF MutedBefore
    <3>3. QED
      BY <3>1, <3>2 DEF MutedBefore
  <2>4. MutedAfter(g, i) => MutedAfter(g, i)'
    BY <1>0, <1>1 DEF MutedAfter
  <2>5. QED
    BY <2>1, <2>3, <2>4
<1>6. ASSUME NEW i \in n + 1 .. n + k, updates'[i].who = "all", updates'[i].muted
      PROVE  \E g \in Guests : MutedBefore(g, i)' \/ MutedAfter(g, i)'
  <2>1. PICK g \in Guests : TRUE
    BY ConferenceLockAssumption
  <2>2. remoteMutes' = Guests
    BY <1>0, <1>1, <1>6
  <2>3. Truth(g)' /\ (Seen(g)' <=> g \in seenMutes') /\ g \in Who
    BY <2>2, NobodyIsAll DEF Truth, Seen, Who
  <2>4. CASE NoWord(g)' /\ (Seen(g)' <=> Truth(g)')
    <3>1. \A j \in 1 .. i - 1 : j \in 1 .. Len(updates')
      BY <1>1
    <3>2. QED
      BY <2>3, <2>4, <3>1 DEF NoWord, MutedBefore
  <2>5. CASE \E j \in 1 .. Len(updates') :
               LastWord(g, j)' /\ (updates'[j].muted <=> Truth(g)')
    <3>1. PICK j \in 1 .. Len(updates') : LastWord(g, j)' /\ updates'[j].muted
      BY <2>3, <2>5
    <3>2. j # i
      BY <1>6, <3>1, NobodyIsAll DEF LastWord
    <3>3. CASE j > i
      BY <1>1, <3>1, <3>3 DEF LastWord, MutedAfter
    <3>4. CASE j < i
      <4>1. j \in 1 .. i - 1 /\ \A l \in j + 1 .. i - 1 : l \in j + 1 .. Len(updates')
        BY <1>1, <3>4
      <4>2. \A l \in j + 1 .. i - 1 : updates'[l].who # g
        BY <3>1, <4>1 DEF LastWord
      <4>3. updates'[j].who = g /\ updates'[j].muted
        BY <3>1 DEF LastWord
      <4>4. QED
        BY <4>1, <4>2, <4>3, Zenon DEF MutedBefore
    <3>5. QED
      BY <1>1, <3>2, <3>3, <3>4
  <2>6. QED
    BY <1>3, <2>3, <2>4, <2>5
<1>7. LockedAmidMutes'
  <2> SUFFICES ASSUME NEW i \in 1 .. Len(updates'), updates'[i].who = "all",
                      updates'[i].muted
               PROVE  \E g \in Guests : MutedBefore(g, i)' \/ MutedAfter(g, i)'
    BY DEF LockedAmidMutes
  <2>1. i \in 1 .. n \/ i \in n + 1 .. n + k
    BY <1>1
  <2>2. QED
    BY <1>1, <1>5, <1>6, <2>1
<1>8. \A w, b : Said(w, b) => Said(w, b)'
  BY <1>0, <1>1 DEF Said
<1>9. QED
  BY <1>1, <1>4, <1>7, <1>8

\* The client takes the first update.
LEMMA SeenStep ==
  ASSUME LockSorts, WordsFollow, LockedAmidMutes, UNCHANGED supplierLock,
         updates # <<>>, updates' = Tail(updates),
         \A w \in Who : Seen(w)' <=> IF w = Head(updates).who THEN Head(updates).muted
                                                              ELSE Seen(w)
  PROVE  /\ updates' \in Seq(Words) /\ Head(updates) \in Words
         /\ WordsFollow' /\ LockedAmidMutes'
         /\ \A w, b : Said(w, b) => \/ Said(w, b)'
                                    \/ Head(updates).who = w /\ (Head(updates).muted <=> b)
<1>0. PICK n : n = Len(updates)
  OBVIOUS
<1>1. /\ updates' \in Seq(Words) /\ Head(updates) = updates[1] /\ Head(updates) \in Words
      /\ n \in Nat /\ n > 0 /\ Len(updates') = n - 1
      /\ \A i \in 1 .. n - 1 : updates'[i] = updates[i + 1]
      /\ \A i \in 2 .. n : updates'[i - 1] = updates[i]
  BY <1>0, Taken DEF LockSorts
<1>2. \A w \in Who : Truth(w)' <=> Truth(w)
  BY DEF Truth, supplierLock
<1>3. ASSUME NEW w \in Who
      PROVE  \/ NoWord(w)' /\ (Seen(w)' <=> Truth(w)')
             \/ \E i \in 1 .. Len(updates') :
                  LastWord(w, i)' /\ (updates'[i].muted <=> Truth(w)')
  <2>1. CASE NoWord(w) /\ (Seen(w) <=> Truth(w))
    <3>1. Head(updates).who # w
      BY <1>0, <1>1, <2>1 DEF NoWord
    <3>2. NoWord(w)'
      <4>1. \A i \in 1 .. n - 1 : i + 1 \in 1 .. n
        BY <1>1
      <4>2. QED
        BY <1>0, <1>1, <2>1, <4>1 DEF NoWord
    <3>3. QED
      BY <1>2, <2>1, <3>1, <3>2
  <2>2. CASE \E i \in 1 .. n : LastWord(w, i) /\ (updates[i].muted <=> Truth(w))
    <3>1. PICK i \in 1 .. n : LastWord(w, i) /\ (updates[i].muted <=> Truth(w))
      BY <2>2
    <3>2. CASE i = 1
      <4>1. Head(updates).who = w /\ (Head(updates).muted <=> Truth(w))
        BY <1>1, <3>1, <3>2 DEF LastWord
      <4>2. ASSUME NEW j \in 1 .. n - 1 PROVE updates'[j].who # w
        <5>1. j + 1 \in i + 1 .. Len(updates)
          BY <1>0, <1>1, <3>2
        <5>2. QED
          BY <1>1, <3>1, <5>1 DEF LastWord
      <4>3. NoWord(w)'
        BY <1>1, <4>2 DEF NoWord
      <4>4. QED
        BY <1>2, <4>1, <4>3
    <3>3. CASE i # 1
      <4>1. i - 1 \in 1 .. Len(updates') /\ updates'[i - 1] = updates[i]
        BY <1>1, <3>3
      <4>2. ASSUME NEW j \in (i - 1) + 1 .. Len(updates') PROVE updates'[j].who # w
        <5>1. j + 1 \in i + 1 .. Len(updates) /\ j \in 1 .. n - 1
          BY <1>0, <1>1, <4>1
        <5>2. QED
          BY <1>1, <3>1, <5>1 DEF LastWord
      <4>3. LastWord(w, i - 1)'
        BY <3>1, <4>1, <4>2 DEF LastWord
      <4>4. QED
        BY <1>2, <3>1, <4>1, <4>3
    <3>4. QED
      BY <3>2, <3>3
  <2>3. QED
    BY <1>0, <2>1, <2>2 DEF WordsFollow
<1>4. ASSUME NEW i \in 1 .. n - 1, updates'[i].who = "all", updates'[i].muted
      PROVE  \E g \in Guests : MutedBefore(g, i)' \/ MutedAfter(g, i)'
  <2>1. i + 1 \in 1 .. n /\ updates'[i] = updates[i + 1]
    BY <1>1
  <2>2. PICK g \in Guests : MutedBefore(g, i + 1) \/ MutedAfter(g, i + 1)
    BY <1>0, <1>4, <2>1 DEF LockedAmidMutes
  <2>3. g \in Who /\ (Seen(g) <=> g \in seenMutes) /\ (Seen(g)' <=> g \in seenMutes')
    BY NobodyIsAll DEF Who, Seen
  <2>4. CASE MutedAfter(g, i + 1)
    <3>1. PICK j \in i + 2 .. n : updates[j].who = g /\ updates[j].muted
      BY <1>0, <1>1, <2>4 DEF MutedAfter
    <3>2. j - 1 \in i + 1 .. Len(updates') /\ updates'[j - 1] = updates[j]
      BY <1>1, <3>1
    <3>3. QED
      BY <3>1, <3>2 DEF MutedAfter
  <2>5. CASE g \in seenMutes /\ \A j \in 1 .. i : updates[j].who # g
    <3>1. Head(updates).who # g
      BY <1>1, <2>5
    <3>2. \A j \in 1 .. i - 1 : updates'[j].who # g
      BY <1>1, <2>5
    <3>3. QED
      BY <2>3, <2>5, <3>1, <3>2 DEF MutedBefore
  <2>6. CASE \E j \in 1 .. i : /\ updates[j].who = g /\ updates[j].muted
                              /\ \A l \in j + 1 .. i : updates[l].who # g
    <3>1. PICK j \in 1 .. i : /\ updates[j].who = g /\ updates[j].muted
                              /\ \A l \in j + 1 .. i : updates[l].who # g
      BY <2>6
    <3>2. \A l \in j .. i - 1 : updates'[l].who # g
      BY <1>1, <3>1
    <3>3. CASE j = 1
      <4>1. g \in seenMutes'
        BY <1>1, <2>3, <3>1, <3>3
      <4>2. \A l \in 1 .. i - 1 : updates'[l].who # g
        BY <3>2, <3>3
      <4>3. QED
        BY <4>1, <4>2 DEF MutedBefore
    <3>4. CASE j # 1
      <4>1. j - 1 \in 1 .. i - 1 /\ updates'[j - 1] = updates[j] /\ (j - 1) + 1 = j
        BY <1>1, <3>4
      <4>2. \A l \in (j - 1) + 1 .. i - 1 : updates'[l].who # g
        BY <3>2, <4>1
      <4>3. updates'[j - 1].who = g /\ updates'[j - 1].muted
        BY <3>1, <4>1
      <4>4. QED
        BY <4>1, <4>2, <4>3, Zenon DEF MutedBefore
    <3>5. QED
      BY <3>3, <3>4
  <2>7. (i + 1) - 1 = i
    OBVIOUS
  <2>8. QED
    BY <2>2, <2>4, <2>5, <2>6, <2>7 DEF MutedBefore
<1>5. ASSUME NEW w, NEW b, Said(w, b)
      PROVE  Said(w, b)' \/ (Head(updates).who = w /\ (Head(updates).muted <=> b))
  <2>1. PICK i \in 1 .. n : updates[i].who = w /\ (updates[i].muted <=> b)
    BY <1>0, <1>5 DEF Said
  <2>2. CASE i # 1
    <3>1. i - 1 \in 1 .. Len(updates') /\ updates'[i - 1] = updates[i]
      BY <1>1, <2>2
    <3>2. QED
      BY <2>1, <3>1 DEF Said
  <2>3. QED
    BY <1>1, <2>1, <2>2
<1>6. QED
  BY <1>1, <1>3, <1>4, <1>5 DEF WordsFollow, LockedAmidMutes

\* Orders are added to those there are.
LEMMA OrderedStep ==
  ASSUME LockSorts, NEW new \in Seq(Words), orders' = orders \o new
  PROVE  /\ orders' \in Seq(Words)
         /\ \A w, b : Ordered(w, b) => Ordered(w, b)'
         /\ \A i \in 1 .. Len(new) : Ordered(new[i].who, new[i].muted)'
<1>0. PICK n, k : n = Len(orders) /\ k = Len(new)
  OBVIOUS
<1>1. /\ orders' \in Seq(Words)
      /\ n \in Nat /\ k \in Nat /\ Len(orders') = n + k
      /\ \A i \in 1 .. n : orders'[i] = orders[i]
      /\ \A i \in 1 .. k : orders'[n + i] = new[i]
  BY <1>0, Joined DEF LockSorts
<1>2. \A w, b : Ordered(w, b) => Ordered(w, b)'
  BY <1>0, <1>1 DEF Ordered
<1>3. ASSUME NEW i \in 1 .. k PROVE Ordered(new[i].who, new[i].muted)'
  <2>1. n + i \in 1 .. Len(orders') /\ orders'[n + i] = new[i]
    BY <1>1
  <2>2. QED
    BY <2>1 DEF Ordered
<1>4. QED
  BY <1>0, <1>1, <1>2, <1>3

LEMMA OneWord ==
  ASSUME NEW w \in Who, NEW b \in BOOLEAN
  PROVE  /\ <<[who |-> w, muted |-> b]>> \in Seq(Words)
         /\ Len(<<[who |-> w, muted |-> b]>>) = 1
         /\ <<[who |-> w, muted |-> b]>>[1] = [who |-> w, muted |-> b]
BY DEF Words

LEMMA NoWordAtAll == <<>> \in Seq(Words) /\ Len(<<>>) = 0
BY EmptySeq

\* Orders of the host's own and of the end of a countdown, while the client sees
\* the same: whether it watches and is past the countdown as before, or orders
\* what it now has to.
LEMMA OrderStep ==
  ASSUME LockInv, NEW new \in Seq(Words), orders' = orders \o new,
         UNCHANGED <<supplierLock, updates, seenLock>>, hostActs' \in 0..MaxHostActs,
         unlockWaits' \in Nat, NobodyWaits',
         \/ Watches' => Watches
         \/ seenMutes = Guests /\ ~seenLocked =>
              \E i \in 1 .. Len(new) : new[i].who = "all" /\ new[i].muted,
         \/ Watches' /\ countdownDone' => Watches /\ countdownDone
         \/ seenMutes = {} /\ seenLocked =>
              \E i \in 1 .. Len(new) : new[i].who = "all" /\ ~new[i].muted
  PROVE  LockInv'
<1>1. /\ orders' \in Seq(Words)
      /\ \A w, b : Ordered(w, b) => Ordered(w, b)'
      /\ \A i \in 1 .. Len(new) : Ordered(new[i].who, new[i].muted)'
  BY OrderedStep DEF LockInv
<1>2. \A i \in 1 .. Len(new) : Ordered(new[i].who, new[i].muted)'
  BY <1>1
<1>3. LockSorts'
  BY <1>1 DEF LockInv, LockSorts, supplierLock, seenLock
<1>4. WordsFollow' /\ LockedAmidMutes'
  BY DEF LockInv, WordsFollow, LockedAmidMutes, MutedBefore, MutedAfter, NoWord, LastWord,
         Seen, Truth, supplierLock, seenLock
<1>5. \A w, b : Said(w, b)' <=> Said(w, b)
  BY DEF Said
<1>6. LockComes'
  <2> SUFFICES ASSUME Watches', seenMutes = Guests, ~seenLocked
               PROVE  \/ Ordered("all", TRUE)' \/ Said("all", TRUE)'
                      \/ \E g \in Guests : Ordered(g, FALSE)' \/ Said(g, FALSE)'
    BY DEF LockComes, seenLock
  <2>1. CASE Watches
    BY <1>1, <1>5, <2>1 DEF LockInv, LockComes
  <2>2. CASE \E i \in 1 .. Len(new) : new[i].who = "all" /\ new[i].muted
    <3>1. PICK i \in 1 .. Len(new) : new[i].who = "all" /\ new[i].muted
      BY <2>2
    <3>2. new[i] \in Words
      BY <3>1, ElementOfSeq
    <3>3. Ordered(new[i].who, new[i].muted)' /\ new[i].who = "all" /\ new[i].muted = TRUE
      BY <1>2, <3>1, <3>2 DEF Words
    <3>4. QED
      BY <3>3
  <2>3. QED
    BY <2>1, <2>2
<1>7. UnlockComes'
  <2> SUFFICES ASSUME Watches', countdownDone', seenMutes = {}, seenLocked
               PROVE  \/ Ordered("all", FALSE)' \/ Said("all", FALSE)'
                      \/ \E g \in Guests : Said(g, TRUE)'
    BY DEF UnlockComes, seenLock
  <2>1. CASE Watches /\ countdownDone
    BY <1>1, <1>5, <2>1 DEF LockInv, UnlockComes
  <2>2. CASE \E i \in 1 .. Len(new) : new[i].who = "all" /\ ~new[i].muted
    <3>1. PICK i \in 1 .. Len(new) : new[i].who = "all" /\ ~new[i].muted
      BY <2>2
    <3>2. new[i] \in Words
      BY <3>1, ElementOfSeq
    <3>3. Ordered(new[i].who, new[i].muted)' /\ new[i].who = "all" /\ new[i].muted = FALSE
      BY <1>2, <3>1, <3>2 DEF Words
    <3>4. QED
      BY <3>3
  <2>3. QED
    BY <2>1, <2>2
<1>8. QED
  BY <1>3, <1>4, <1>6, <1>7 DEF LockInv

LEMMA HostOrdersStep ==
  ASSUME LockInv, NEW w \in Who, NEW muted \in BOOLEAN,
         HostOrders(<<[who |-> w, muted |-> muted]>>)
  PROVE  LockInv'
<1> DEFINE new == <<[who |-> w, muted |-> muted]>>
<1>1. /\ hostActs' \in 0..MaxHostActs /\ orders' = orders \o new
      /\ UNCHANGED <<supplierLock, updates, seenLock, countdownDone, hostOfLock,
                     unlockWaits, unchecked>>
  BY ConferenceLockAssumption DEF HostOrders, HostActs, Order, LockInv, LockSorts
<1>2. new \in Seq(Words)
  BY OneWord
<1> HIDE DEF new
<1>3. (Watches' <=> Watches) /\ NobodyWaits' /\ unlockWaits' \in Nat
  BY <1>1 DEF LockInv, LockSorts, NobodyWaits, Watches, Presides, hostOfLock
<1>4. QED
  BY <1>1, <1>2, <1>3, OrderStep

LEMMA CountdownStep ==
  ASSUME LockInv, LockCountdownCompletes
  PROVE  LockInv'
<1>1. /\ UNCHANGED <<supplierLock, updates, seenLock, hostOfLock, hostActs, unchecked>>
      /\ unlockWaits' \in Nat /\ hostActs' \in 0..MaxHostActs
      /\ Watches' <=> Watches
      /\ NobodyWaits'
  BY DEF LockCountdownCompletes, LockInv, LockSorts, NobodyWaits, Watches, Presides,
         hostOfLock
<1>2. CASE Presides
  <2> DEFINE new == <<[who |-> "all", muted |-> FALSE]>>
  <2>1. orders' = orders \o new
    BY <1>2 DEF LockCountdownCompletes, Order, MuteAll
  <2>2. "all" \in Who
    BY DEF Who
  <2>3. new \in Seq(Words) /\ Len(new) = 1 /\ new[1] = [who |-> "all", muted |-> FALSE]
    BY <2>2, OneWord
  <2> HIDE DEF new
  <2>4. 1 \in 1 .. Len(new) /\ new[1].who = "all" /\ ~new[1].muted
    BY <2>3
  <2>5. QED
    BY <1>1, <2>1, <2>3, <2>4, OrderStep
<1>3. CASE ~Presides
  <2>1. orders' = orders \o <<>>
    BY <1>3 DEF LockCountdownCompletes, Order
  <2>2. ~Watches'
    BY <1>1, <1>3 DEF Watches
  <2>3. QED
    BY <1>1, <2>1, <2>2, NoWordAtAll, OrderStep
<1>4. QED
  BY <1>2, <1>3

LEMMA PausesStep ==
  ASSUME LockInv, HearingPauses
  PROVE  LockInv'
<1>1. /\ UNCHANGED <<supplierLock, updates, orders, seenLock, hostOfLock, unlockWaits,
                     unchecked>>
      /\ ~countdownDone' /\ hostActs' \in 0..MaxHostActs
  BY ConferenceLockAssumption DEF HearingPauses, HostActs, LockInv, LockSorts
<1>2. orders' = orders \o <<>>
  BY <1>1, ConcatEmptySeq DEF LockInv, LockSorts
<1>3. (Watches' <=> Watches) /\ NobodyWaits' /\ unlockWaits' \in Nat
  BY <1>1 DEF LockInv, LockSorts, NobodyWaits, Watches, Presides, hostOfLock
<1>4. QED
  BY <1>1, <1>2, <1>3, NoWordAtAll, OrderStep

\* What an update of a participant asks for.
LEMMA CheckOfLock ==
  ASSUME LockFlags, LockSorts, NEW mutes \in SUBSET Guests
  PROVE  LET new == LockOrUnlock(seenLocked, mutes, countdownDone)
         IN  /\ new \in Seq(Words)
             /\ ~seenLocked /\ mutes = Guests =>
                  \E i \in 1 .. Len(new) : new[i].who = "all" /\ new[i].muted
             /\ seenLocked /\ countdownDone /\ mutes = {} =>
                  \E i \in 1 .. Len(new) : new[i].who = "all" /\ ~new[i].muted
<1>0. PICK new : new = LockOrUnlock(seenLocked, mutes, countdownDone)
  OBVIOUS
<1>1. \A b \in BOOLEAN : MuteAll(b) \in Seq(Words) /\ Len(MuteAll(b)) = 1
                         /\ MuteAll(b)[1] = [who |-> "all", muted |-> b]
  BY OneWord DEF MuteAll, Who
<1>2. new \in {<<>>, MuteAll(TRUE), MuteAll(FALSE)}
  BY <1>0 DEF LockOrUnlock
<1>3. new \in Seq(Words)
  BY <1>1, <1>2, NoWordAtAll
<1>4. ~seenLocked /\ mutes = Guests => new = MuteAll(TRUE)
  BY <1>0 DEF LockOrUnlock
<1>5. seenLocked /\ countdownDone /\ mutes = {} => new = MuteAll(FALSE)
  BY <1>0, ConferenceLockAssumption DEF LockOrUnlock
<1>6. \A b \in BOOLEAN : new = MuteAll(b) =>
        1 \in 1 .. Len(new) /\ new[1].who = "all" /\ (new[1].muted <=> b)
  <2>1. ASSUME NEW b \in BOOLEAN, new = MuteAll(b)
        PROVE  1 \in 1 .. Len(new) /\ new[1].who = "all" /\ (new[1].muted <=> b)
    <3>1. Len(new) = 1 /\ new[1] = [who |-> "all", muted |-> b]
      BY <1>1, <2>1
    <3>2. QED
      BY <3>1
  <2>2. QED
    BY <2>1
<1>7. QED
  BY <1>0, <1>3, <1>4, <1>5, <1>6

\* Every wait that is over unlocks.
LEMMA UnlocksInOrder ==
  ASSUME NEW n \in Nat
  PROVE  UnlockTimes(n) \in Seq(Words)
<1>1. [who |-> "all", muted |-> FALSE] \in Words
  BY DEF Words, Who
<1>2. QED
  BY <1>1 DEF UnlockTimes

\* Orders that begin with what the update of a participant asks for.
LEMMA FirstTheCheck ==
  ASSUME NEW u \in Seq(Words), NEW v \in Seq(Words), NEW b \in BOOLEAN,
         \E i \in 1 .. Len(u) : u[i].who = "all" /\ (u[i].muted <=> b)
  PROVE  \E i \in 1 .. Len(u \o v) :
           (u \o v)[i].who = "all" /\ ((u \o v)[i].muted <=> b)
<1>1. PICK i \in 1 .. Len(u) : u[i].who = "all" /\ (u[i].muted <=> b)
  OBVIOUS
<1>2. i \in 1 .. Len(u \o v) /\ (u \o v)[i] = u[i]
  BY Joined
<1>3. QED
  BY <1>1, <1>2

LEMMA RoleStep ==
  ASSUME LockFlags, LockInv, NEW isChair \in BOOLEAN, HostRoleChanges(isChair)
  PROVE  LockInv'
<1> DEFINE asked == LockOrUnlock(seenLocked, seenMutes, countdownDone)
           check == IF Presides' THEN asked ELSE <<>>
           over == IF Presides' THEN unlockWaits ELSE 0
           new == check \o UnlockTimes(over)
<1>1. /\ orders' = orders \o new /\ unlockWaits' = unlockWaits - over
      /\ UNCHANGED <<supplierLock, updates, seenLock, countdownDone>>
      /\ hostActs' \in 0..MaxHostActs
  BY ConferenceLockAssumption
  DEF HostRoleChanges, Preside, Order, HostActs, LockInv, LockSorts
<1>2. /\ asked \in Seq(Words)
      /\ ~seenLocked /\ seenMutes = Guests =>
           \E i \in 1 .. Len(asked) : asked[i].who = "all" /\ (asked[i].muted <=> TRUE)
      /\ seenLocked /\ countdownDone /\ seenMutes = {} =>
           \E i \in 1 .. Len(asked) : asked[i].who = "all" /\ (asked[i].muted <=> FALSE)
  <2>1. seenMutes \in SUBSET Guests /\ LockSorts
    BY DEF LockInv, LockSorts
  <2>2. QED
    BY <2>1, CheckOfLock
<1>3. /\ over \in Nat /\ unlockWaits' \in Nat /\ NobodyWaits'
  BY <1>1 DEF LockInv, LockSorts, NobodyWaits
<1> HIDE DEF asked, over
<1>4. check \in Seq(Words) /\ UnlockTimes(over) \in Seq(Words)
  BY <1>2, <1>3, NoWordAtAll, UnlocksInOrder
<1>5. Presides' => check = asked
  OBVIOUS
<1> HIDE DEF check
<1>6. new \in Seq(Words)
  BY <1>4, Joined
<1>7. Presides' /\ ~seenLocked /\ seenMutes = Guests =>
        \E i \in 1 .. Len(new) : new[i].who = "all" /\ (new[i].muted <=> TRUE)
  BY <1>2, <1>4, <1>5, FirstTheCheck
<1>8. Presides' /\ seenLocked /\ countdownDone /\ seenMutes = {} =>
        \E i \in 1 .. Len(new) : new[i].who = "all" /\ (new[i].muted <=> FALSE)
  BY <1>2, <1>4, <1>5, FirstTheCheck
<1> HIDE DEF new
<1>9. Watches' => Presides'
  BY DEF Watches
<1>10. countdownDone' = countdownDone
  BY <1>1
<1>11. \/ Watches' => Watches
       \/ seenMutes = Guests /\ ~seenLocked =>
            \E i \in 1 .. Len(new) : new[i].who = "all" /\ new[i].muted
  BY <1>7, <1>9
<1>12. \/ Watches' /\ countdownDone' => Watches /\ countdownDone
       \/ seenMutes = {} /\ seenLocked =>
            \E i \in 1 .. Len(new) : new[i].who = "all" /\ ~new[i].muted
  BY <1>8, <1>9, <1>10
<1>13. QED
  BY <1>1, <1>3, <1>6, <1>11, <1>12, OrderStep

LEMMA MovesStep ==
  ASSUME LockFlags, LockInv, NEW inHearing \in BOOLEAN, HostMoves(inHearing)
  PROVE  LockInv'
<1> DEFINE over == IF Presides' THEN unlockWaits ELSE 0
           new == <<>> \o UnlockTimes(over)
<1>1. /\ orders' = orders \o new /\ unlockWaits' = unlockWaits - over
      /\ UNCHANGED <<supplierLock, updates, seenLock, countdownDone>>
      /\ hostActs' \in 0..MaxHostActs
      /\ unchecked' = (Presides' /\ (unchecked \/ ~Presides))
  BY ConferenceLockAssumption
  DEF HostMoves, Preside, Order, HostActs, LockInv, LockSorts
<1>2. /\ over \in Nat /\ unlockWaits' \in Nat /\ NobodyWaits'
  BY <1>1 DEF LockInv, LockSorts, NobodyWaits
<1>3. Watches' => Watches
  BY <1>1 DEF Watches
<1> HIDE DEF over
<1>4. new \in Seq(Words)
  BY <1>2, NoWordAtAll, UnlocksInOrder, Joined
<1> HIDE DEF new
<1>5. QED
  BY <1>1, <1>2, <1>3, <1>4, OrderStep

LEMMA UpdatedStep ==
  ASSUME LockInv, NEW g \in Guests, GuestIsUpdated(g)
  PROVE  LockInv'
<1> DEFINE b == g \in remoteMutes
           new == <<[who |-> g, muted |-> b]>>
<1>1. /\ updates' = updates \o new
      /\ UNCHANGED <<supplierLock, orders, seenLock, countdownDone, hostOfLock,
                     unlockWaits, unchecked>>
      /\ hostActs' \in 0..MaxHostActs
  BY ConferenceLockAssumption DEF GuestIsUpdated, HostActs, LockInv, LockSorts
<1>2. g \in Who /\ b \in BOOLEAN /\ (Truth(g) <=> b) /\ g # "all"
  BY NobodyIsAll DEF Who, Truth
<1> HIDE DEF b
<1>3. new \in Seq(Words) /\ Len(new) = 1 /\ new[1] = [who |-> g, muted |-> b]
  BY <1>2, OneWord
<1> HIDE DEF new
<1>4. \A w \in Who : Truth(w)' <=> Truth(w)
  BY <1>1 DEF Truth, supplierLock
<1>5. SupplierSays(new)
  BY <1>2, <1>3, <1>4 DEF SupplierSays
<1>6. \A i \in 1 .. Len(new) : new[i].who # "all"
  BY <1>2, <1>3
<1>7. /\ updates' \in Seq(Words) /\ WordsFollow' /\ LockedAmidMutes'
      /\ \A w, c : Said(w, c) => Said(w, c)'
  BY <1>1, <1>3, <1>5, <1>6, ToldStep DEF LockInv
<1>8. LockSorts'
  BY <1>1, <1>7 DEF LockInv, LockSorts, supplierLock, seenLock
<1>9. \A w, c : Ordered(w, c)' <=> Ordered(w, c)
  BY <1>1 DEF Ordered
<1>10. (Watches' <=> Watches) /\ NobodyWaits'
  BY <1>1 DEF LockInv, NobodyWaits, Watches, Presides, hostOfLock
<1>11. LockComes' /\ UnlockComes'
  BY <1>1, <1>7, <1>9, <1>10 DEF LockInv, LockComes, UnlockComes, seenLock
<1>12. QED
  BY <1>7, <1>8, <1>10, <1>11 DEF LockInv

\* The supplier tells everyone it changes of it.
LEMMA SupplierTells ==
  ASSUME LockFlags, LockInv, SupplierObeys
  PROVE  \E new \in Seq(Words) :
           /\ updates' = updates \o new /\ SupplierSays(new)
           /\ \A i \in 1 .. Len(new) :
                new[i].who = "all" /\ new[i].muted => remoteMutes' = Guests
<1> DEFINE o == Head(orders)
           some == IF o.who = "all" THEN Guests ELSE {o.who}
           changed == IF o.muted THEN some \ remoteMutes ELSE some \cap remoteMutes
           told == SetToSeq({[who |-> g, muted |-> o.muted] : g \in changed})
           all == MuteAll(o.muted)
<1>1. o \in Words
  BY Taken DEF SupplierObeys, LockInv, LockSorts
<1>2. o.who \in Who /\ o.muted \in BOOLEAN
  BY <1>1 DEF Words
<1>3. some \subseteq Guests /\ changed \in SUBSET Guests
  BY <1>2 DEF Who
<1>4. /\ remoteMutes' = IF o.muted THEN remoteMutes \cup some ELSE remoteMutes \ some
      /\ guestsMuted' = IF o.who = "all" THEN o.muted ELSE guestsMuted
      /\ IF guestsMuted' = guestsMuted
           THEN updates' = updates \o told
           ELSE updates' = updates \o all \o told \/ updates' = updates \o told \o all
  BY DEF SupplierObeys
<1>5. \A g \in Guests :
        /\ g \in changed => (Truth(g)' <=> o.muted)
        /\ g \notin changed => (Truth(g)' <=> Truth(g))
  BY <1>3, <1>4, NobodyIsAll DEF Truth
<1>6. o.who = "all" /\ o.muted => remoteMutes' = Guests
  BY <1>4 DEF LockInv, LockSorts
<1> HIDE DEF o, changed
<1>7. /\ told \in Seq(Words)
      /\ \A i \in 1 .. Len(told) : told[i].who \in changed /\ told[i].muted = o.muted
      /\ \A g \in changed : \E i \in 1 .. Len(told) :
           /\ told[i].who = g
           /\ \A j \in 1 .. Len(told) : j # i => told[j].who # g
  <2>1. told = ToldOf(changed, o.muted)
    BY DEF ToldOf
  <2> HIDE DEF told
  <2>2. QED
    BY <1>2, <1>3, <2>1, ToldOnce
<1>8. /\ all \in Seq(Words) /\ Len(all) = 1
      /\ all[1].who = "all" /\ all[1].muted = o.muted
  BY <1>2, OneWord DEF MuteAll, Who
<1>9. \A g \in changed : g \in Guests /\ g # "all"
  BY <1>3, NobodyIsAll
<1> HIDE DEF told, all
<1>10. CASE guestsMuted' = guestsMuted
  <2>1. ASSUME NEW w \in Who
        PROVE  \/ /\ \A i \in 1 .. Len(told) : told[i].who # w
                  /\ Truth(w)' <=> Truth(w)
               \/ \E i \in 1 .. Len(told) :
                    /\ told[i].who = w /\ (told[i].muted <=> Truth(w)')
                    /\ \A j \in 1 .. Len(told) : j # i => told[j].who # w
    <3>1. CASE w \in changed
      BY <1>7, <1>5, <1>9, <3>1
    <3>2. CASE w = "all"
      BY <1>7, <1>9, <1>10, <3>2 DEF Truth
    <3>3. CASE w \notin changed /\ w \in Guests
      BY <1>7, <1>5, <3>3
    <3>4. QED
      BY <3>1, <3>2, <3>3 DEF Who
  <2>2. SupplierSays(told)
    BY <2>1 DEF SupplierSays
  <2>3. \A i \in 1 .. Len(told) : told[i].who # "all"
    BY <1>7, <1>9
  <2>4. QED
    BY <1>7, <1>4, <1>10, <2>2, <2>3
<1>11. ASSUME guestsMuted' # guestsMuted, NEW new \in Seq(Words),
              new = all \o told \/ new = told \o all
       PROVE  /\ SupplierSays(new)
              /\ \A i \in 1 .. Len(new) :
                   new[i].who = "all" /\ new[i].muted => remoteMutes' = Guests
  <2>1. o.who = "all" /\ (Truth("all")' <=> o.muted)
    BY <1>4, <1>11 DEF Truth
  <2>2. PICK p, q : /\ p \in Nat /\ q \in 1 .. Len(new)
                    /\ Len(told) \in Nat /\ Len(new) = Len(told) + 1
                    /\ new[q] = all[1]
                    /\ \A i \in 1 .. Len(told) :
                         p + i \in 1 .. Len(new) /\ p + i # q /\ new[p + i] = told[i]
                    /\ \A i \in 1 .. Len(new) : i # q => i - p \in 1 .. Len(told)
    <3>1. CASE new = all \o told
      <4>1. /\ Len(told) \in Nat /\ Len(new) = 1 + Len(told) /\ new[1] = all[1]
            /\ \A i \in 1 .. Len(told) : new[1 + i] = told[i]
        <5>0. all \in Seq(Words) /\ told \in Seq(Words)
          BY <1>7, <1>8
        <5>1. /\ Len(told) \in Nat /\ Len(all \o told) = Len(all) + Len(told)
              /\ \A i \in 1 .. Len(all) : (all \o told)[i] = all[i]
              /\ \A i \in 1 .. Len(told) : (all \o told)[Len(all) + i] = told[i]
          BY <5>0, Joined
        <5>2. QED
          BY <1>8, <3>1, <5>1
      <4>2. \A i \in 1 .. Len(new) : i # 1 => i - 1 \in 1 .. Len(told)
        BY <4>1
      <4>3. 1 \in Nat /\ 1 \in 1 .. Len(new)
            /\ \A i \in 1 .. Len(told) : 1 + i \in 1 .. Len(new) /\ 1 + i # 1
        BY <4>1
      <4> DEFINE One(p, q) ==
            /\ p \in Nat /\ q \in 1 .. Len(new)
            /\ Len(told) \in Nat /\ Len(new) = Len(told) + 1
            /\ new[q] = all[1]
            /\ \A i \in 1 .. Len(told) :
                 p + i \in 1 .. Len(new) /\ p + i # q /\ new[p + i] = told[i]
            /\ \A i \in 1 .. Len(new) : i # q => i - p \in 1 .. Len(told)
      <4>4. One(1, 1)
        BY <4>1, <4>2, <4>3
      <4>5. QED
        BY <4>4, Zenon
    <3>2. CASE new = told \o all
      <4>0. PICK k : k = Len(told)
        OBVIOUS
      <4>1. /\ k \in Nat /\ Len(new) = k + 1 /\ new[k + 1] = all[1]
            /\ \A i \in 1 .. k : new[i] = told[i]
        <5>0. all \in Seq(Words) /\ told \in Seq(Words)
          BY <1>7, <1>8
        <5>1. /\ Len(told) \in Nat /\ Len(told \o all) = Len(told) + Len(all)
              /\ \A i \in 1 .. Len(told) : (told \o all)[i] = told[i]
              /\ \A i \in 1 .. Len(all) : (told \o all)[Len(told) + i] = all[i]
          BY <5>0, Joined
        <5>2. QED
          BY <1>8, <3>2, <4>0, <5>1
      <4>2. /\ k + 1 \in 1 .. Len(new)
            /\ \A i \in 1 .. k : 0 + i \in 1 .. Len(new) /\ 0 + i # k + 1 /\ 0 + i = i
            /\ \A i \in 1 .. Len(new) : i # k + 1 => i - 0 \in 1 .. k
        BY <4>1
      <4>3. 0 \in Nat /\ \A i \in 1 .. k : new[0 + i] = told[i]
        BY <4>1, <4>2
      <4>4. QED
        BY <4>0, <4>1, <4>2, <4>3
    <3>3. QED
      BY <1>11, <3>1, <3>2
  <2>3. \A i \in 1 .. Len(new) :
          i # q => /\ i - p \in 1 .. Len(told) /\ new[i] = told[i - p]
                   /\ new[i].who \in changed
    <3>1. ASSUME NEW i \in 1 .. Len(new), i # q
          PROVE  i - p \in 1 .. Len(told) /\ new[i] = told[i - p]
      <4>1. p + (i - p) = i /\ i - p \in 1 .. Len(told)
        BY <2>2, <3>1
      <4>2. new[p + (i - p)] = told[i - p]
        BY <2>2, <4>1
      <4>3. QED
        BY <4>1, <4>2
    <3>2. QED
      BY <1>7, <3>1
  <2>4. ASSUME NEW w \in Who
        PROVE  \/ /\ \A i \in 1 .. Len(new) : new[i].who # w
                  /\ Truth(w)' <=> Truth(w)
               \/ \E i \in 1 .. Len(new) :
                    /\ new[i].who = w /\ (new[i].muted <=> Truth(w)')
                    /\ \A j \in 1 .. Len(new) : j # i => new[j].who # w
    <3>1. CASE w = "all"
      <4>1. new[q].who = w /\ (new[q].muted <=> Truth(w)')
        BY <1>8, <2>1, <2>2, <3>1
      <4>2. \A j \in 1 .. Len(new) : j # q => new[j].who # w
        BY <1>9, <2>3, <3>1
      <4>3. QED
        BY <2>2, <4>1, <4>2
    <3>2. CASE w \in changed
      <4>1. PICK i \in 1 .. Len(told) :
              /\ told[i].who = w
              /\ \A j \in 1 .. Len(told) : j # i => told[j].who # w
        BY <1>7, <3>2
      <4>2. PICK l \in 1 .. Len(new) : l = p + i
        BY <2>2
      <4>3. new[l].who = w /\ (new[l].muted <=> Truth(w)')
        BY <1>7, <1>5, <1>9, <2>2, <3>2, <4>1, <4>2
      <4>4. ASSUME NEW j \in 1 .. Len(new), j # l PROVE new[j].who # w
        <5>1. CASE j = q
          BY <1>8, <1>9, <2>2, <3>2, <5>1
        <5>2. CASE j # q
          <6>1. j - p \in 1 .. Len(told) /\ new[j] = told[j - p]
            BY <2>3, <5>2
          <6>2. j - p # i
            BY <2>2, <4>2, <4>4, <6>1
          <6>3. QED
            BY <4>1, <6>1, <6>2
        <5>3. QED
          BY <5>1, <5>2
      <4>5. QED
        BY <4>3, <4>4
    <3>3. CASE w \notin changed /\ w \in Guests
      <4>1. Truth(w)' <=> Truth(w)
        BY <1>5, <3>3
      <4>2. \A i \in 1 .. Len(new) : new[i].who # w
        BY <1>8, <2>2, <2>3, <3>3, NobodyIsAll
      <4>3. QED
        BY <4>1, <4>2
    <3>4. QED
      BY <3>1, <3>2, <3>3 DEF Who
  <2>5. ASSUME NEW i \in 1 .. Len(new), new[i].who = "all", new[i].muted
        PROVE  remoteMutes' = Guests
    <3>1. i = q
      BY <1>9, <2>3, <2>5
    <3>2. QED
      BY <1>8, <1>6, <2>1, <2>2, <2>5, <3>1
  <2>6. QED
    BY <2>4, <2>5 DEF SupplierSays
<1>12. CASE guestsMuted' # guestsMuted
  <2>1. /\ all \o told \in Seq(Words) /\ told \o all \in Seq(Words)
        /\ updates \o all \o told = updates \o (all \o told)
        /\ updates \o told \o all = updates \o (told \o all)
    <3>1. updates \in Seq(Words)
      BY DEF LockInv, LockSorts
    <3>2. told \in Seq(Words) /\ all \in Seq(Words)
      BY <1>7, <1>8
    <3>3. /\ updates \o all \o told = updates \o (all \o told)
          /\ updates \o told \o all = updates \o (told \o all)
      <4>1. ASSUME NEW s1 \in Seq(Words), NEW s2 \in Seq(Words), NEW s3 \in Seq(Words)
            PROVE  (s1 \o s2) \o s3 = s1 \o (s2 \o s3)
        BY ConcatAssociative, SMTT(30)
      <4>2. QED
        BY <3>1, <3>2, <4>1, Zenon
    <3>4. all \o told \in Seq(Words) /\ told \o all \in Seq(Words)
      BY <3>2
    <3>5. QED
      BY <3>3, <3>4
  <2>2. QED
    BY <1>4, <1>11, <1>12, <2>1
<1>13. QED
  BY <1>10, <1>12

LEMMA ObeyStep ==
  ASSUME LockFlags, LockInv, SupplierObeys
  PROVE  LockInv'
<1>1. PICK new \in Seq(Words) :
        /\ updates' = updates \o new /\ SupplierSays(new)
        /\ \A i \in 1 .. Len(new) :
             new[i].who = "all" /\ new[i].muted => remoteMutes' = Guests
  BY SupplierTells
<1>2. /\ orders # <<>> /\ orders' = Tail(orders)
      /\ UNCHANGED <<seenLock, countdownDone, hostActs, unlockWaits>>
      /\ (Watches' <=> Watches) /\ (Presides' <=> Presides)
  BY DEF SupplierObeys, Watches, Presides, hostOfLock
<1>3. /\ updates' \in Seq(Words) /\ WordsFollow' /\ LockedAmidMutes'
      /\ \A w, b : Said(w, b) => Said(w, b)'
  BY <1>1, <1>2, ToldStep DEF LockInv
<1>4. /\ orders' \in Seq(Words) /\ Head(orders) = orders[1] /\ Head(orders) \in Words
      /\ Len(orders) \in Nat /\ Len(orders') = Len(orders) - 1
      /\ \A i \in 2 .. Len(orders) : orders'[i - 1] = orders[i]
  BY <1>2, Taken DEF LockInv, LockSorts
<1>5. Head(orders).who \in Who /\ Head(orders).muted \in BOOLEAN
  BY <1>4 DEF Words
<1>6. LockSorts'
  <2>1. remoteMutes' \in SUBSET Guests
    <3>1. remoteMutes' \subseteq remoteMutes \cup Guests
      BY <1>5 DEF SupplierObeys, Who
    <3>2. QED
      BY <3>1 DEF LockInv, LockSorts
  <2>2. QED
    BY <1>2, <1>3, <1>4, <2>1 DEF LockInv, LockSorts, seenLock
\* The order that is obeyed has come true; the others are still to come.
<1>7. ASSUME NEW w, NEW b, Ordered(w, b)
      PROVE  Ordered(w, b)' \/ (w \in Who /\ (Truth(w)' <=> b))
  <2>1. PICK i \in 1 .. Len(orders) : orders[i].who = w /\ (orders[i].muted <=> b)
    BY <1>7 DEF Ordered
  <2>2. CASE i # 1
    <3>1. i - 1 \in 1 .. Len(orders') /\ orders'[i - 1] = orders[i]
      BY <1>4, <2>2
    <3>2. QED
      BY <2>1, <3>1 DEF Ordered
  <2>3. CASE i = 1
    <3>1. w = Head(orders).who /\ (b <=> Head(orders).muted) /\ w \in Who
      BY <1>4, <1>5, <2>1, <2>3
    <3>2. Truth(w)' <=> Head(orders).muted
      BY <1>5, <3>1 DEF SupplierObeys, Truth, Who
    <3>3. QED
      BY <3>1, <3>2
  <2>4. QED
    BY <2>2, <2>3
\* What is so and is not seen is told.
<1>8. ASSUME NEW w \in Who, NEW b, Truth(w)' <=> b, ~(Seen(w) <=> b)
      PROVE  Said(w, b)'
  <2>1. Seen(w)' <=> Seen(w)
    BY <1>2 DEF Seen, seenLock
  <2>2. PICK i \in 1 .. Len(updates') :
          LastWord(w, i)' /\ (updates'[i].muted <=> Truth(w)')
    BY <1>3, <1>8, <2>1 DEF WordsFollow
  <2>3. QED
    BY <1>8, <2>2 DEF LastWord, Said
<1>9. ASSUME NEW w \in Who, NEW b, ~(Seen(w) <=> b), Ordered(w, b) \/ Said(w, b)
      PROVE  Ordered(w, b)' \/ Said(w, b)'
  BY <1>3, <1>7, <1>8, <1>9
<1>10. \A g \in Guests : g \in Who /\ (Seen(g) <=> g \in seenMutes)
  BY NobodyIsAll DEF Who, Seen
<1>11. "all" \in Who /\ (Seen("all") <=> seenLocked)
  BY DEF Who, Seen
<1>12. LockComes'
  <2> SUFFICES ASSUME Watches, seenMutes = Guests, ~seenLocked
               PROVE  \/ Ordered("all", TRUE)' \/ Said("all", TRUE)'
                      \/ \E g \in Guests : Ordered(g, FALSE)' \/ Said(g, FALSE)'
    BY <1>2 DEF LockComes, seenLock
  <2>1. CASE Ordered("all", TRUE) \/ Said("all", TRUE)
    BY <1>9, <1>11, <2>1
  <2>2. CASE \E g \in Guests : Ordered(g, FALSE) \/ Said(g, FALSE)
    BY <1>9, <1>10, <2>2
  <2>3. QED
    BY <2>1, <2>2 DEF LockInv, LockComes
<1>13. UnlockComes'
  <2> SUFFICES ASSUME Watches, seenMutes = {}, seenLocked, countdownDone
               PROVE  \/ Ordered("all", FALSE)' \/ Said("all", FALSE)'
                      \/ \E g \in Guests : Said(g, TRUE)'
    BY <1>2 DEF UnlockComes, seenLock
  <2>1. CASE Ordered("all", FALSE) \/ Said("all", FALSE)
    BY <1>9, <1>11, <2>1
  <2>2. QED
    BY <1>3, <2>1 DEF LockInv, UnlockComes
<1>14. NobodyWaits'
  BY <1>2 DEF LockInv, NobodyWaits
<1>15. QED
  BY <1>3, <1>6, <1>12, <1>13, <1>14 DEF LockInv

LEMMA ParticipantStep ==
  ASSUME LockFlags, LockInv, ReceiveParticipantUpdate
  PROVE  LockInv'
<1>0. PICK check, new : /\ check = LockOrUnlock(seenLocked, seenMutes', countdownDone)
                        /\ new = IF Presides THEN check ELSE <<>>
  OBVIOUS
<1>1. /\ updates # <<>> /\ Head(updates).who # "all" /\ updates' = Tail(updates)
      /\ seenMutes' = IF Head(updates).muted THEN seenMutes \cup {Head(updates).who}
                                             ELSE seenMutes \ {Head(updates).who}
      /\ UNCHANGED <<supplierLock, seenLocked, countdownDone, hostOfLock, unlockWaits,
                     hostActs>>
  BY DEF ReceiveParticipantUpdate
<1>2. \A w \in Who : Seen(w)' <=> IF w = Head(updates).who THEN Head(updates).muted
                                                          ELSE Seen(w)
  BY <1>1 DEF Seen
<1>3. /\ updates' \in Seq(Words) /\ Head(updates) \in Words
      /\ WordsFollow' /\ LockedAmidMutes'
  BY <1>1, <1>2, SeenStep DEF LockInv
<1>4. seenMutes' \in SUBSET Guests
  BY <1>1, <1>3 DEF LockInv, LockSorts, Words, Who
<1>5. /\ check \in Seq(Words)
      /\ ~seenLocked /\ seenMutes' = Guests =>
           \E i \in 1 .. Len(check) : check[i].who = "all" /\ check[i].muted
      /\ seenLocked /\ countdownDone /\ seenMutes' = {} =>
           \E i \in 1 .. Len(check) : check[i].who = "all" /\ ~check[i].muted
  BY <1>0, <1>4, CheckOfLock DEF LockInv
<1>6. orders' = orders \o new
  <2>1. CASE Presides
    BY <1>0, <2>1 DEF ReceiveParticipantUpdate
  <2>2. CASE ~Presides
    <3>1. orders' = orders
      BY <2>2 DEF ReceiveParticipantUpdate
    <3>2. QED
      BY <1>0, <2>2, <3>1, ConcatEmptySeq DEF LockInv, LockSorts
  <2>3. QED
    BY <2>1, <2>2
<1>7. (Presides' <=> Presides) /\ (Watches' => Presides) /\ NobodyWaits'
  BY <1>1 DEF LockInv, NobodyWaits, Watches, Presides, hostOfLock
<1>8. new \in Seq(Words) /\ (Presides => new = check)
  BY <1>0, <1>5, NoWordAtAll
<1>9. orders' \in Seq(Words) /\ \A i \in 1 .. Len(new) : Ordered(new[i].who, new[i].muted)'
  BY <1>6, <1>8, OrderedStep DEF LockInv
<1>10. LockComes'
  <2> SUFFICES ASSUME Watches', seenMutes' = Guests, ~seenLocked
               PROVE  Ordered("all", TRUE)'
    BY <1>1 DEF LockComes
  <2>1. PICK i \in 1 .. Len(new) : new[i].who = "all" /\ new[i].muted
    BY <1>5, <1>7, <1>8
  <2>2. QED
    BY <1>9, <2>1 DEF Ordered
<1>11. UnlockComes'
  <2> SUFFICES ASSUME Watches', seenMutes' = {}, seenLocked, countdownDone
               PROVE  Ordered("all", FALSE)'
    BY <1>1 DEF UnlockComes
  <2>1. PICK i \in 1 .. Len(new) : new[i].who = "all" /\ ~new[i].muted
    BY <1>5, <1>7, <1>8
  <2>2. QED
    BY <1>9, <2>1 DEF Ordered
<1>12. LockSorts'
  BY <1>1, <1>3, <1>4, <1>9 DEF LockInv, LockSorts, supplierLock
<1>13. QED
  BY <1>3, <1>7, <1>10, <1>11, <1>12 DEF LockInv

LEMMA ConferenceStep ==
  ASSUME LockFlags, LockInv, ReceiveConferenceUpdate
  PROVE  LockInv'
<1>0. PICK new : new = IF hostIsChair /\ ~seenLocked' THEN ToldOf(seenMutes, FALSE)
                                                   ELSE <<>>
  OBVIOUS
<1>1. /\ updates # <<>> /\ Head(updates).who = "all" /\ updates' = Tail(updates)
      /\ seenLocked' = Head(updates).muted
      /\ orders' = orders \o new
      /\ UNCHANGED <<supplierLock, seenMutes, countdownDone, hostOfLock, unlockWaits,
                     hostActs, unchecked>>
  BY <1>0 DEF ReceiveConferenceUpdate, Unmute, ToldOf
<1>2. \A w \in Who : Seen(w)' <=> IF w = Head(updates).who THEN Head(updates).muted
                                                          ELSE Seen(w)
  BY <1>1 DEF Seen
<1>3. /\ updates' \in Seq(Words) /\ Head(updates) \in Words
      /\ WordsFollow' /\ LockedAmidMutes'
      /\ \A w, b : Said(w, b) => \/ Said(w, b)'
                                 \/ Head(updates).who = w /\ (Head(updates).muted <=> b)
  BY <1>1, <1>2, SeenStep DEF LockInv
<1>4. /\ ToldOf(seenMutes, FALSE) \in Seq(Words)
      /\ \A g \in seenMutes : \E i \in 1 .. Len(ToldOf(seenMutes, FALSE)) :
           ToldOf(seenMutes, FALSE)[i].who = g
      /\ \A i \in 1 .. Len(ToldOf(seenMutes, FALSE)) : ~ToldOf(seenMutes, FALSE)[i].muted
  <2>1. seenMutes \in SUBSET Guests /\ FALSE \in BOOLEAN
    BY DEF LockInv, LockSorts
  <2>2. /\ ToldOf(seenMutes, FALSE) \in Seq(Words)
        /\ \A g \in seenMutes : \E i \in 1 .. Len(ToldOf(seenMutes, FALSE)) :
             /\ ToldOf(seenMutes, FALSE)[i].who = g
             /\ \A j \in 1 .. Len(ToldOf(seenMutes, FALSE)) :
                  j # i => ToldOf(seenMutes, FALSE)[j].who # g
        /\ \A i \in 1 .. Len(ToldOf(seenMutes, FALSE)) :
             /\ ToldOf(seenMutes, FALSE)[i].who \in seenMutes
             /\ ToldOf(seenMutes, FALSE)[i].muted = FALSE
    BY <2>1, ToldOnce
  <2>3. QED
    BY <2>2
<1>5. new \in Seq(Words)
  BY <1>0, <1>4, NoWordAtAll
<1>6. /\ orders' \in Seq(Words)
      /\ \A w, b : Ordered(w, b) => Ordered(w, b)'
      /\ \A i \in 1 .. Len(new) : Ordered(new[i].who, new[i].muted)'
  BY <1>1, <1>5, OrderedStep DEF LockInv
<1>7. LockComes'
  <2> SUFFICES ASSUME hostIsChair, seenMutes = Guests, ~seenLocked'
               PROVE  \E g \in Guests : Ordered(g, FALSE)'
    BY <1>1 DEF LockComes, Watches, Presides, hostOfLock
  <2>1. PICK g \in Guests : TRUE
    BY ConferenceLockAssumption
  <2>2. PICK i \in 1 .. Len(new) : new[i].who = g /\ ~new[i].muted
    BY <1>0, <1>4
  <2>3. Ordered(new[i].who, new[i].muted)'
    BY <1>6
  <2>4. Ordered(g, FALSE)'
    BY <2>2, <2>3 DEF Ordered
  <2>5. QED
    BY <2>4
<1>8. UnlockComes'
  <2> SUFFICES ASSUME seenMutes = {}, Head(updates).muted
               PROVE  \E g \in Guests : Said(g, TRUE)'
    BY <1>1 DEF UnlockComes
  <2>1. /\ Head(updates) = updates[1] /\ Len(updates) \in Nat /\ Len(updates) > 0
        /\ Len(updates') = Len(updates) - 1
        /\ \A i \in 2 .. Len(updates) : updates'[i - 1] = updates[i]
    BY <1>1, Taken DEF LockInv, LockSorts
  <2>2. PICK g \in Guests : MutedBefore(g, 1) \/ MutedAfter(g, 1)
    <3>1. 1 \in 1 .. Len(updates) /\ updates[1].who = "all" /\ updates[1].muted
      BY <1>1, <2>1
    <3>2. QED
      BY <3>1 DEF LockInv, LockedAmidMutes
  <2>3. ~MutedBefore(g, 1)
    BY DEF MutedBefore
  <2>4. PICK j \in 2 .. Len(updates) : updates[j].who = g /\ updates[j].muted
    BY <2>2, <2>3 DEF MutedAfter
  <2>5. j - 1 \in 1 .. Len(updates') /\ updates'[j - 1] = updates[j]
    BY <2>1
  <2>6. Said(g, TRUE)'
    BY <2>4, <2>5 DEF Said
  <2>7. QED
    BY <2>6
<1>9. LockSorts'
  BY <1>1, <1>3, <1>6 DEF LockInv, LockSorts, supplierLock
<1>10. NobodyWaits'
  BY <1>1 DEF LockInv, NobodyWaits, Presides, hostOfLock
<1>11. QED
  BY <1>3, <1>7, <1>8, <1>9, <1>10 DEF LockInv

LEMMA LockFlagsStep ==
  ASSUME LockFlags, LockInv, [LockNext]_lockVars
  PROVE  LockFlags'
<1>1. CASE ReceiveConferenceUpdate
  <2>1. Head(updates) \in Words
    BY <1>1, Taken DEF ReceiveConferenceUpdate, LockInv, LockSorts
  <2>2. Head(updates).muted \in BOOLEAN
    BY <2>1 DEF Words
  <2>3. QED
    BY <1>1, <2>2 DEF ReceiveConferenceUpdate, LockFlags, supplierLock, hostOfLock
<1>2. CASE SupplierObeys
  <2>1. Head(orders) \in Words
    BY <1>2, Taken DEF SupplierObeys, LockInv, LockSorts
  <2>2. Head(orders).muted \in BOOLEAN
    BY <2>1 DEF Words
  <2>3. QED
    BY <1>2, <2>2 DEF SupplierObeys, LockFlags, seenLock, hostOfLock
<1>3. CASE ReceiveParticipantUpdate \/ UNCHANGED lockVars
  BY <1>3 DEF ReceiveParticipantUpdate, lockVars, LockFlags, supplierLock, seenLock,
              hostOfLock
<1>4. CASE HearingPauses \/ \E g \in Guests : GuestIsUpdated(g)
  BY <1>4 DEF HearingPauses, GuestIsUpdated, LockFlags, supplierLock, seenLock, hostOfLock
<1>5. ASSUME NEW request, Order(request), UNCHANGED <<supplierLock, seenLock>>,
             countdownDone' \in BOOLEAN, hostIsChair' \in BOOLEAN,
             hostInHearing' \in BOOLEAN, unchecked' \in BOOLEAN
      PROVE  LockFlags'
  BY <1>5 DEF Order, LockFlags, supplierLock, seenLock
<1>6. CASE \E b \in BOOLEAN : HostRoleChanges(b)
  BY <1>5, <1>6 DEF HostRoleChanges, Preside, LockFlags
<1>7. CASE \E b \in BOOLEAN : HostMoves(b)
  <2>1. PICK b \in BOOLEAN : HostMoves(b)
    BY <1>7
  <2>2. hostIsChair' \in BOOLEAN /\ hostInHearing' \in BOOLEAN
    BY <2>1 DEF HostMoves, LockFlags
  <2>3. unchecked' \in BOOLEAN
    BY <2>1 DEF HostMoves
  <2>4. QED
    BY <1>5, <2>1, <2>2, <2>3 DEF HostMoves, Preside, LockFlags
<1>8. ASSUME NEW request, HostOrders(request) PROVE LockFlags'
  BY <1>5, <1>8 DEF HostOrders, LockFlags, hostOfLock
<1>9. CASE LockCountdownCompletes
  BY <1>5, <1>9 DEF LockCountdownCompletes, LockFlags, hostOfLock
<1>10. QED
  BY <1>1, <1>2, <1>3, <1>4, <1>6, <1>7, <1>8, <1>9 DEF LockNext

LEMMA LockNextInv ==
  ASSUME LockFlags, LockInv, [LockNext]_lockVars
  PROVE  LockInv'
<1>1. ASSUME NEW muted \in BOOLEAN, HostOrders(MuteAll(muted)) PROVE LockInv'
  BY <1>1, HostOrdersStep DEF MuteAll, Who
<1>2. ASSUME NEW muted \in BOOLEAN, NEW g \in Guests, HostOrders(Mute(g, muted))
      PROVE  LockInv'
  BY <1>2, HostOrdersStep DEF Mute, Who
<1>3. CASE UNCHANGED lockVars
  BY <1>3 DEF lockVars, supplierLock, seenLock, hostOfLock, LockInv, LockSorts,
              WordsFollow, LockedAmidMutes, LockComes, UnlockComes, NobodyWaits, Watches,
              Presides, NoWord, LastWord, Seen, Truth, MutedBefore, MutedAfter, Said,
              Ordered
<1>4. QED
  BY <1>1, <1>2, <1>3, CountdownStep, PausesStep, RoleStep, MovesStep, UpdatedStep, ObeyStep, ParticipantStep,
     ConferenceStep DEF LockNext

LEMMA LockInitInv ==
  ASSUME LockInit
  PROVE  LockFlags /\ LockInv
<1>1. LockFlags
  BY DEF LockInit, LockFlags
<1>2. LockSorts
  BY ConferenceLockAssumption, NoWordAtAll DEF LockInit, LockSorts
<1>3. Len(updates) = 0
  BY EmptySeq DEF LockInit
<1>4. \A w \in Who : NoWord(w) /\ (Seen(w) <=> Truth(w))
  BY <1>3 DEF LockInit, NoWord, Seen, Truth
<1>5. WordsFollow /\ LockedAmidMutes
  BY <1>3, <1>4 DEF WordsFollow, LockedAmidMutes
<1>6. LockComes /\ UnlockComes /\ NobodyWaits
  BY DEF LockInit, LockComes, UnlockComes, NobodyWaits
<1>7. QED
  BY <1>1, <1>2, <1>5, <1>6 DEF LockInv

LEMMA LockInvSafe ==
  ASSUME LockFlags, LockInv
  PROVE  LockTypeOK /\ LockFollowsTheGuests
<1>1. LockTypeOK
  BY Zenon DEF LockInv, LockFlags, LockSorts, LockTypeOK
<1>2. LockFollowsTheGuests
  <2> SUFFICES ASSUME LockSettled
               PROVE  /\ seenMutes = remoteMutes /\ seenLocked = guestsMuted
                      /\ Presides => unlockWaits = 0
                      /\ Watches /\ remoteMutes = Guests => guestsMuted
                      /\ Watches /\ countdownDone /\ remoteMutes = {} => ~guestsMuted
    BY DEF LockFollowsTheGuests, Watches
  <2>1. Len(updates) = 0 /\ Len(orders) = 0
    BY EmptySeq DEF LockSettled
  <2>2. \A w \in Who : Seen(w) <=> Truth(w)
    BY <2>1 DEF LockInv, WordsFollow
  <2>3. seenLocked <=> guestsMuted
    BY <2>2 DEF Who, Seen, Truth
  <2>4. \A g \in Guests : g \in seenMutes <=> g \in remoteMutes
    BY <2>2, NobodyIsAll DEF Who, Seen, Truth
  <2>5. seenMutes = remoteMutes
    BY <2>4 DEF LockInv, LockSorts
  <2>6. \A w, b : ~Said(w, b) /\ ~Ordered(w, b)
    BY <2>1 DEF Said, Ordered
  <2>7. /\ Watches /\ seenMutes = Guests => seenLocked
        /\ Watches /\ seenMutes = {} /\ countdownDone => ~seenLocked
        /\ Presides => unlockWaits = 0
    BY <2>6 DEF LockInv, LockComes, UnlockComes, NobodyWaits
  <2>8. seenLocked = guestsMuted
    BY <2>3 DEF LockFlags
  <2>9. QED
    BY <2>3, <2>5, <2>7, <2>8
<1>3. QED
  BY <1>1, <1>2

\* Whatever orders the host gives while others are carried out: with nothing on
\* its way between the client and the supplier they agree on who is muted and on
\* the lock, and the lock follows the guests, for any set of guests.
THEOREM LockSpecSafe == LockSpec => [](LockTypeOK /\ LockFollowsTheGuests)
<1>1. LockInit => LockFlags /\ LockInv
  BY LockInitInv
<1>2. LockFlags /\ LockInv /\ [LockNext]_lockVars => LockFlags' /\ LockInv'
  BY LockFlagsStep, LockNextInv
<1>3. LockFlags /\ LockInv => LockTypeOK /\ LockFollowsTheGuests
  BY LockInvSafe
<1>4. QED
  BY <1>1, <1>2, <1>3, PTL DEF LockSpec

-----------------------------------------------------------------------------
(***************************************************************************)
(* The parts together.  A step of the whole is a step of one part that     *)
(* leaves the variables of the others as they are, or one that changes     *)
(* none of them; so the whole behaves, for each part, as the part allows.  *)
(***************************************************************************)
\* To each part, a step of the whole is one of its own or no step.
LEMMA StepOfEveryPart ==
  ASSUME [Next]_vars
  PROVE  /\ [CallNext]_callVars
         /\ [MediaNext]_mediaVars
         /\ [HubNext]_hubVars
         /\ [StoreNext]_storeAll
         /\ [MuteNext]_muteVars
         /\ [LockNext]_lockVars
         /\ [ChatNext]_chatVars
         /\ [MembershipNext]_memberVars
         /\ [LayoutNext]_layoutVars
<1>1. CASE UNCHANGED vars
  BY <1>1 DEF vars, partVars
<1>2. CASE Choose
  BY <1>2 DEF Choose, partVars
<1>3. CASE CallSteps
  BY <1>3 DEF CallSteps
<1>4. CASE MediaSteps
  BY <1>4 DEF MediaSteps
<1>5. CASE HubSteps
  BY <1>5 DEF HubSteps
<1>6. CASE StoreSteps
  BY <1>6 DEF StoreSteps
<1>7. CASE MuteSteps
  BY <1>7 DEF MuteSteps
<1>8. CASE LockSteps
  BY <1>8 DEF LockSteps
<1>9. CASE ChatSteps
  BY <1>9 DEF ChatSteps
<1>10. CASE MembershipSteps
  BY <1>10 DEF MembershipSteps
<1>11. CASE LayoutSteps
  BY <1>11 DEF LayoutSteps
<1> QED
  BY <1>1, <1>2, <1>3, <1>4, <1>5, <1>6, <1>7, <1>8, <1>9, <1>10, <1>11 DEF Next

\* The client, the supplier's room, the chat and the layout behave together as
\* the modules of the parts say each of them does, the fairness included.
THEOREM PartsImplement ==
  Spec => /\ CallSpec /\ MediaSpec /\ HubSpec /\ StoreSpec /\ MuteSpec
          /\ LockSpec /\ ChatSpec /\ MembershipSpec /\ LayoutSpec
<1>1. Init => /\ CallInit /\ MediaInit /\ HubInit /\ StoreInit /\ MuteInit
              /\ LockInit /\ ChatInit /\ MembershipInit /\ LayoutInit
  BY DEF Init
<1> QED
  BY <1>1, StepOfEveryPart, PTL
  DEF Spec, CallSpec, MediaSpec, HubSpec, StoreSpec, MuteSpec, LockSpec, ChatSpec,
      MembershipSpec, LayoutSpec

\* Every variable of every part has its type, whichever parts may be chosen and
\* whatever the bounds.
THEOREM PartsTypeCorrect == Spec => []PartsTypeOK
<1>1. /\ CallTypeOK /\ MediaTypeOK /\ HubTypeOK /\ StoreTypeOK /\ MuteTypeOK
      /\ LockTypeOK /\ ChatTypeOK /\ MembershipTypeOK /\ LayoutTypeOK
      => PartsTypeOK
  BY DEF PartsTypeOK
<1> QED
  BY <1>1, PartsImplement, CallSpecSafe, MediaSpecSafe, HubSpecSafe, StoreSpecSafe,
     MuteSpecSafe, LockSpecSafe, ChatSpecSafe, MembershipSpecSafe, LayoutSpecSafe, PTL

\* What the parts promise, the whole promises.
THEOREM PartsSafe ==
  Spec => []( /\ StraysHaveACause /\ ConnectedIsTheCall /\ HeartbeatOfTheCall
              /\ StreamFollowsTheDevices /\ SomeoneStartsTheHub
              /\ StoreCatchesUp /\ RoomsAreListed
              /\ MicrophoneIsShown /\ MicrophoneIsSet /\ LockFollowsTheGuests
              /\ ConversationIsShown /\ UnreadIsCounted
              /\ CachedAreTheMembers /\ MembersAreTold /\ LayoutIsShown )
BY PartsImplement, CallSpecSafe, MediaSpecSafe, HubSpecSafe, StoreSpecSafe,
   MuteSpecSafe, LockSpecSafe, ChatSpecSafe, MembershipSpecSafe, LayoutSpecSafe, PTL
=============================================================================
