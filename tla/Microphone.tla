----------------------------- MODULE Microphone -----------------------------
(***************************************************************************)
(* The microphone of the user who is logged in: the supplier's client      *)
(* (pexrtc.js), what the store says of it (conference.reducer.ts) and the  *)
(* effects that mute and unmute it (video-call.effects.ts,                 *)
(* video-call-host.effects.ts), with the messages of a host through the    *)
(* hub (events.service.ts).                                                *)
(*                                                                         *)
(* Whatever wants the microphone otherwise dispatches toggleAudioMute: the *)
(* effects of one action all read before a toggle any of them asks for.    *)
(***************************************************************************)
EXTENDS Naturals, Sequences

CONSTANT MaxMuteActs   \* bound on what happens to the user in a behaviour

ASSUME MicrophoneAssumption == MaxMuteActs \in Nat

VARIABLES
  role,         \* of the user: "nobody", "host" or "guest"
  prefersMuted, \* startWithAudioMuted
  status,       \* of the participant who is logged in
  chair,        \* pexipInfo.role is 'chair'
  micCall,      \* pexipAPI.call
  micMuted,     \* pexipAPI.mutedAudio
  shownMuted,   \* localMediaStatus.isMicrophoneMuted
  toggles,      \* toggleAudioMute actions that are queued
  pendingWaits, \* countdowns whose effect waits for the host to be chair
  requests,     \* local mutes on their way from the hub
  echoes,       \* the host's own media statuses on their way back
  muteActs,     \* bounded by MaxMuteActs
  last,         \* history: what has set the microphone last
  replaced,     \* history: a client was made new since the last toggle
  republished,  \* history: what the store said while an echo was on its way was
                \* published since the last toggle
  commanded     \* history: what the host has last asked of this user

muteVars == <<role, prefersMuted, status, chair, micCall, micMuted, shownMuted,
              toggles, pendingWaits, requests, echoes, muteActs, last,
              replaced, republished, commanded>>
callOfMic == <<micCall, micMuted>>
hubOfMic == <<requests, echoes>>
userOfMic == <<role, prefersMuted>>

Act == /\ role # "nobody" /\ toggles = 0
       /\ muteActs < MaxMuteActs
       /\ muteActs' = muteActs + 1

\* Mutant: the effects read what the store says.
ShownCallMuted == micCall /\ shownMuted

\* call?.mutedAudio
CallMuted == micCall /\ micMuted

\* The filter of the wait for the end of a countdown
IsChairInHearing(st, ch) == role = "host" /\ ch /\ st = "InHearing"

Toggle(asked) == IF asked THEN 1 ELSE 0

-----------------------------------------------------------------------------
\* Mutant: the status is published before the store has the new one.
PublishThenToggle ==
  /\ toggles > 0
  /\ toggles' = toggles - 1
  /\ micMuted' = ~micMuted
  /\ shownMuted' = ~micMuted
  /\ replaced' = FALSE /\ republished' = FALSE
  /\ echoes' = IF role = "host" THEN Append(echoes, shownMuted) ELSE echoes
  /\ UNCHANGED <<userOfMic, status, chair, micCall, pendingWaits, requests,
                 muteActs, last, commanded>>

\* One toggle, the store after it, and the status published.
ToggleAudioMute ==
  /\ toggles > 0
  /\ toggles' = toggles - 1
  /\ micMuted' = ~micMuted
  /\ shownMuted' = ~micMuted
  /\ replaced' = FALSE /\ republished' = FALSE
  /\ echoes' = IF role = "host" THEN Append(echoes, ~micMuted) ELSE echoes
  /\ UNCHANGED <<userOfMic, status, chair, micCall, pendingWaits, requests,
                 muteActs, last, commanded>>

\* updateParticipantStatus of the user: into a consultation unmuted, into the
\* hearing muted; every wait that is over asks for its toggle too.
StatusChanges(st) ==
  /\ Act
  /\ status' = st
  /\ chair' = (chair /\ st # "Disconnected")
  /\ LET over == IF IsChairInHearing(st, chair') THEN pendingWaits ELSE 0
         moved == \/ st = "InConsultation" /\ CallMuted
                  \/ st = "InHearing" /\ ~CallMuted
     IN  /\ toggles' = Toggle(moved)
                        + (IF CallMuted # prefersMuted THEN over ELSE 0)
         /\ pendingWaits' = pendingWaits - over
         /\ last' = IF over > 0 \/ ~micCall THEN "other" ELSE st
  /\ commanded' = "nothing"
  /\ UNCHANGED <<userOfMic, callOfMic, shownMuted, hubOfMic, replaced,
                 republished>>

\* upsertPexipParticipant of the user: a host is chair once the countdown is
\* over, and a user who is remote muted in the hearing is muted.
PexipParticipantChanges(ch, remoteMuted) ==
  /\ Act
  /\ chair' = ch
  /\ LET over == IF IsChairInHearing(status, ch) THEN pendingWaits ELSE 0
         muted == status = "InHearing" /\ remoteMuted /\ ~shownMuted
     IN  /\ toggles' = Toggle(muted)
                        + (IF CallMuted # prefersMuted THEN over ELSE 0)
         /\ pendingWaits' = pendingWaits - over
         /\ last' = IF over = 1 /\ ~muted /\ micCall THEN "restored"
                    ELSE IF over > 0 \/ muted THEN "other" ELSE last
         /\ commanded' = IF toggles' > 0 THEN "nothing" ELSE commanded
  /\ UNCHANGED <<userOfMic, callOfMic, status, shownMuted, hubOfMic, replaced,
                 republished>>

\* restoreHostMutePreferenceOnCountdownComplete$: at once, or in the order of
\* the countdowns when the host is chair in the hearing; and what the store says
\* is published (publishParticipantMediaDeviceStatusOnCountdownComplete$).
CountdownCompletes ==
  /\ Act
  /\ role = "host"
  /\ IF IsChairInHearing(status, chair)
       THEN /\ toggles' = Toggle(CallMuted # prefersMuted)
            /\ last' = IF micCall THEN "restored" ELSE "other"
            /\ UNCHANGED pendingWaits
       ELSE /\ pendingWaits' = pendingWaits + 1
            /\ UNCHANGED <<toggles, last>>
  /\ IF status = "InHearing"
       THEN /\ echoes' = Append(echoes, shownMuted)
            /\ republished' = (republished \/ echoes # <<>>)
       ELSE UNCHANGED <<echoes, republished>>
  /\ UNCHANGED <<userOfMic, callOfMic, status, chair, shownMuted, requests,
                 replaced, commanded>>

UserTogglesMute ==
  /\ Act
  /\ toggles' = 1
  /\ last' = "other"
  /\ commanded' = "nothing"
  /\ UNCHANGED <<userOfMic, callOfMic, status, chair, shownMuted, pendingWaits,
                 hubOfMic, replaced, republished>>

\* toggleLocalMuteParticipant of a host's menu.  The action to unmute has no
\* effect of its own, and the one to mute has both.
HostTogglesLocalMute ==
  /\ Act
  /\ role = "guest"
  /\ commanded' = IF shownMuted THEN "unmute" ELSE "mute"
  /\ requests' = IF shownMuted THEN requests ELSE requests \o <<TRUE, FALSE>>
  /\ UNCHANGED <<userOfMic, callOfMic, status, chair, shownMuted, toggles,
                 pendingWaits, echoes, last, replaced, republished>>

HostMutesAll(muted) ==
  /\ Act
  /\ role = "guest"
  /\ requests' = Append(requests, muted)
  /\ commanded' = "nothing"
  /\ UNCHANGED <<userOfMic, callOfMic, status, chair, shownMuted, toggles,
                 pendingWaits, echoes, last, replaced, republished>>

\* updateParticipantLocalMuteStatus, as the store has it
ReceiveLocalMute ==
  /\ requests # <<>> /\ toggles = 0
  /\ requests' = Tail(requests)
  /\ toggles' = Toggle(shownMuted # Head(requests))
  /\ last' = IF toggles' > 0 THEN "other" ELSE last
  /\ UNCHANGED <<userOfMic, callOfMic, status, chair, shownMuted, pendingWaits,
                 echoes, muteActs, replaced, republished, commanded>>

\* updateParticipantMediaStatus: a host is sent its own.
ReceiveEcho ==
  /\ echoes # <<>> /\ toggles = 0
  /\ shownMuted' = Head(echoes)
  /\ echoes' = Tail(echoes)
  /\ UNCHANGED <<userOfMic, callOfMic, status, chair, toggles, pendingWaits,
                 requests, muteActs, last, replaced, republished, commanded>>

MicCallStarts ==
  /\ Act
  /\ ~micCall
  /\ micCall' = TRUE
  /\ UNCHANGED <<userOfMic, micMuted, status, chair, shownMuted, toggles,
                 pendingWaits, hubOfMic, last, replaced, republished,
                 commanded>>

\* setupClient makes a new client, which is not muted, and the store is not
\* told.
MicClientReplaced ==
  /\ Act
  /\ micCall
  /\ micCall' = FALSE
  /\ micMuted' = FALSE
  /\ replaced' = TRUE
  /\ last' = "other"
  /\ commanded' = "nothing"
  /\ UNCHANGED <<userOfMic, status, chair, shownMuted, toggles, pendingWaits,
                 hubOfMic, republished>>

Arrive ==
  /\ role = "nobody"
  /\ role' \in {"host", "guest"}
  /\ prefersMuted' \in BOOLEAN
  /\ UNCHANGED <<status, chair, callOfMic, shownMuted, toggles, pendingWaits,
                 hubOfMic, muteActs, last, replaced, republished, commanded>>

MuteInit ==
  /\ role = "nobody" /\ prefersMuted = FALSE
  /\ status = "Available" /\ chair = FALSE
  /\ micCall = FALSE /\ micMuted = FALSE /\ shownMuted = FALSE
  /\ toggles = 0 /\ pendingWaits = 0
  /\ requests = <<>> /\ echoes = <<>>
  /\ muteActs = 0
  /\ last = "other" /\ replaced = FALSE /\ republished = FALSE
  /\ commanded = "nothing"

Statuses == {"Available", "InHearing", "InConsultation", "Disconnected"}

MuteNext ==
  \/ Arrive \/ ToggleAudioMute
  \/ \E st \in Statuses : StatusChanges(st)
  \/ \E ch, remoteMuted \in BOOLEAN : PexipParticipantChanges(ch, remoteMuted)
  \/ CountdownCompletes \/ UserTogglesMute
  \/ HostTogglesLocalMute \/ \E muted \in BOOLEAN : HostMutesAll(muted)
  \/ ReceiveLocalMute \/ ReceiveEcho
  \/ MicCallStarts \/ MicClientReplaced

MuteSpec == MuteInit /\ [][MuteNext]_muteVars

-----------------------------------------------------------------------------
(***************************************************************************)
(* Properties.                                                             *)
(***************************************************************************)
MuteTypeOK ==
  /\ role \in {"nobody", "host", "guest"}
  /\ status \in Statuses
  /\ {prefersMuted, chair, micCall, micMuted, shownMuted, replaced,
      republished} \subseteq BOOLEAN
  /\ {toggles, pendingWaits} \subseteq Nat
  /\ requests \in Seq(BOOLEAN) /\ echoes \in Seq(BOOLEAN)
  /\ muteActs \in 0..MaxMuteActs
  /\ last \in Statuses \cup {"restored", "other"}
  /\ commanded \in {"nothing", "mute", "unmute"}

\* The store says of the microphone what the client does with it, unless the
\* client was replaced since it was last toggled - then it may be open in a
\* consultation and be shown muted - or the end of a countdown published what an
\* older echo had made the store say, which then comes after the newer one.
MicrophoneIsShown ==
  toggles = 0 /\ echoes = <<>> /\ ~replaced /\ ~republished =>
    shownMuted = micMuted

\* Whoever has come into the hearing is muted, into a consultation is not, and
\* a host whose countdown has ended has the microphone as preferred, whatever
\* the store said of it before - unless two of these came in the same action,
\* whose toggles undo each other.
MicrophoneIsSet ==
  toggles = 0 =>
    /\ last = "InHearing" => micMuted
    /\ last = "InConsultation" => ~micMuted
    /\ last = "restored" => micMuted = prefersMuted

\* "A host can force a participant's local mute to be toggled."
HostIsObeyed ==
  toggles = 0 /\ requests = <<>> =>
    /\ commanded = "mute" => shownMuted
    /\ commanded = "unmute" => ~shownMuted
=============================================================================
