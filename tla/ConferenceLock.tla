--------------------------- MODULE ConferenceLock ---------------------------
(***************************************************************************)
(* The remote mute of the guests of a hearing by the client of its host    *)
(* (conference.effects.ts, video-call-host.effects.ts): the supplier, the  *)
(* updates on their way to the client and the requests on their way back.  *)
(* A guest who is remote muted cannot unmute; a conference whose guests    *)
(* are muted is locked.  The client locks it when it sees every guest      *)
(* muted, and unlocks it when it sees none.                                *)
(***************************************************************************)
EXTENDS Naturals, Sequences, FiniteSets, SequencesExt

CONSTANTS
  Guests,
  MaxHostActs     \* bound on what the host and the guests do in a behaviour

ASSUME ConferenceLockAssumption ==
  /\ Guests # {} /\ IsFiniteSet(Guests) /\ "all" \notin Guests
  /\ MaxHostActs \in Nat

VARIABLES
  guestsMuted,    \* the supplier's lock
  remoteMutes,    \* the guests who are remote muted
  updates,        \* on their way to the client, the oldest first
  orders,         \* requests to the supplier, the oldest first
  seenLocked,     \* pexipConference.guestsMuted
  seenMutes,      \* whose pexipInfo.isRemoteMuted
  countdownDone,  \* countdownComplete of the conference
  hostIsChair,    \* pexipInfo.role of the host who is logged in is 'chair'
  hostInHearing,  \* and the host's status is InHearing
  unlockWaits,    \* ends of countdowns whose unlocking waits for both
  hostActs,       \* bounded by MaxHostActs
  hasty,          \* history: an order was given before the last was carried out
  unchecked       \* history: the host came into the hearing as chair already,
                  \* and no participant has been updated since

lockVars == <<guestsMuted, remoteMutes, updates, orders, seenLocked, seenMutes,
              countdownDone, hostIsChair, hostInHearing, unlockWaits, hostActs,
              hasty, unchecked>>
supplierLock == <<guestsMuted, remoteMutes>>
seenLock == <<seenLocked, seenMutes>>
hostOfLock == <<hostIsChair, hostInHearing>>

\* The filter of the effects and of the wait for the end of the countdown
Presides == hostIsChair /\ hostInHearing

MuteAll(muted) == <<[who |-> "all", muted |-> muted]>>
Mute(g, muted) == <<[who |-> g, muted |-> muted]>>
Unmute(some) == SetToSeq({[who |-> g, muted |-> FALSE] : g \in some})
UnlockTimes(n) == [i \in 1..n |-> [who |-> "all", muted |-> FALSE]]

LockSettled == updates = <<>> /\ orders = <<>>

\* An order of the host's, or of the countdown
Order(request) ==
  /\ orders' = orders \o request
  /\ hasty' = (hasty \/ (request # <<>> /\ ~LockSettled))

HostActs == hostActs < MaxHostActs /\ hostActs' = hostActs + 1

\* muteAllParticipants, muteParticipant of the host's menu and panel
HostOrders(request) ==
  /\ HostActs
  /\ Order(request)
  /\ UNCHANGED <<supplierLock, updates, seenLock, countdownDone, hostOfLock,
                 unlockWaits, unchecked>>

\* The end of the countdown, unlockConferenceOnCountdownComplete$: at once, or
\* in the order of the countdowns when the host presides.
LockCountdownCompletes ==
  /\ ~countdownDone
  /\ countdownDone' = TRUE
  /\ Order(IF Presides THEN MuteAll(FALSE) ELSE <<>>)
  /\ unlockWaits' = IF Presides THEN unlockWaits ELSE unlockWaits + 1
  /\ UNCHANGED <<supplierLock, updates, seenLock, hostOfLock, hostActs,
                 unchecked>>

\* updateActiveConferenceStatus: the hearing is paused, and will start again
\* with a countdown.
HearingPauses ==
  /\ HostActs
  /\ countdownDone
  /\ countdownDone' = FALSE
  /\ UNCHANGED <<supplierLock, updates, orders, seenLock, hostOfLock,
                 unlockWaits, hasty, unchecked>>

\* An update that has nothing to do with the mute: a hand, a spotlight.
GuestIsUpdated(g) ==
  /\ HostActs
  /\ updates' = Append(updates, [who |-> g, muted |-> g \in remoteMutes])
  /\ UNCHANGED <<supplierLock, orders, seenLock, countdownDone, hostOfLock,
                 unlockWaits, hasty, unchecked>>

\* The supplier tells of every change, of the conference before the guests or
\* after them.
SupplierObeys ==
  /\ orders # <<>>
  /\ orders' = Tail(orders)
  /\ LET o == Head(orders)
         some == IF o.who = "all" THEN Guests ELSE {o.who}
         changed == IF o.muted THEN some \ remoteMutes
                               ELSE some \cap remoteMutes
         guests == SetToSeq({[who |-> g, muted |-> o.muted] : g \in changed})
     IN  /\ remoteMutes' = IF o.muted THEN remoteMutes \cup some
                                      ELSE remoteMutes \ some
         /\ guestsMuted' = IF o.who = "all" THEN o.muted ELSE guestsMuted
         /\ IF guestsMuted' = guestsMuted
              THEN updates' = updates \o guests
              ELSE \/ updates' = updates \o MuteAll(o.muted) \o guests
                   \/ updates' = updates \o guests \o MuteAll(o.muted)
  /\ UNCHANGED <<seenLock, countdownDone, hostOfLock, unlockWaits, hostActs,
                 hasty, unchecked>>

\* Mutant: nobody looks whether the conference is locked already.
LockAgain(locked, mutes, done) ==
  IF mutes = Guests THEN MuteAll(TRUE)
  ELSE IF done /\ mutes = {} THEN MuteAll(FALSE)
  ELSE <<>>

\* Mutant: the conference is never unlocked once it is locked.
LockOnly(locked, mutes, done) ==
  IF ~locked /\ mutes = Guests THEN MuteAll(TRUE) ELSE <<>>

\* lockConferenceWhenAllInHearingParticipantsMuted$ and
\* unlockConferenceWhenAllInHearingParticipantsUnmuted$
LockOrUnlock(locked, mutes, done) ==
  IF ~locked /\ mutes = Guests THEN MuteAll(TRUE)
  ELSE IF locked /\ done /\ mutes = {} THEN MuteAll(FALSE)
  ELSE <<>>

\* upsertPexipParticipant
ReceiveParticipantUpdate ==
  /\ updates # <<>> /\ Head(updates).who # "all"
  /\ updates' = Tail(updates)
  /\ seenMutes' = IF Head(updates).muted
                    THEN seenMutes \cup {Head(updates).who}
                    ELSE seenMutes \ {Head(updates).who}
  /\ IF Presides
       THEN /\ orders' = orders \o LockOrUnlock(seenLocked, seenMutes',
                                               countdownDone)
            /\ unchecked' = FALSE
       ELSE UNCHANGED <<orders, unchecked>>
  /\ UNCHANGED <<supplierLock, seenLocked, countdownDone, hostOfLock,
                 unlockWaits, hostActs, hasty>>

\* What the host who has come to preside orders: what the update of a
\* participant asks for, and the unlocking of every wait that is over.
Preside(check) ==
  LET over == IF Presides' THEN unlockWaits ELSE 0
  IN  /\ Order((IF Presides' THEN check ELSE <<>>) \o UnlockTimes(over))
      /\ unlockWaits' = unlockWaits - over

\* upsertPexipParticipant of the host who is logged in
HostRoleChanges(isChair) ==
  /\ HostActs
  /\ hostIsChair' = isChair /\ UNCHANGED hostInHearing
  /\ Preside(LockOrUnlock(seenLocked, seenMutes, countdownDone))
  /\ unchecked' = FALSE
  /\ UNCHANGED <<supplierLock, updates, seenLock, countdownDone>>

\* updateParticipantStatus of the host, which no lock looks at; a host who is
\* disconnected has no role.
HostMoves(inHearing) ==
  /\ HostActs
  /\ hostInHearing' = inHearing
  /\ hostIsChair' \in {hostIsChair, hostIsChair /\ inHearing}
  /\ Preside(<<>>)
  /\ unchecked' = (Presides' /\ (unchecked \/ ~Presides))
  /\ UNCHANGED <<supplierLock, updates, seenLock, countdownDone>>

\* upsertPexipConference: once it is unlocked, everyone who is still seen muted
\* is unmuted.
ReceiveConferenceUpdate ==
  /\ updates # <<>> /\ Head(updates).who = "all"
  /\ updates' = Tail(updates)
  /\ seenLocked' = Head(updates).muted
  /\ orders' = orders \o (IF hostIsChair /\ ~seenLocked' THEN Unmute(seenMutes)
                                                         ELSE <<>>)
  /\ UNCHANGED <<supplierLock, seenMutes, countdownDone, hostOfLock,
                 unlockWaits, hostActs, hasty, unchecked>>

LockInit ==
  /\ guestsMuted = TRUE /\ remoteMutes = Guests
  /\ updates = <<>> /\ orders = <<>>
  /\ seenLocked = TRUE /\ seenMutes = Guests
  /\ countdownDone = FALSE
  /\ hostIsChair \in BOOLEAN /\ hostInHearing \in BOOLEAN
  /\ unlockWaits = 0
  /\ hostActs = 0 /\ hasty = FALSE /\ unchecked = FALSE

LockNext ==
  \/ \E muted \in BOOLEAN :
       \/ HostOrders(MuteAll(muted))
       \/ \E g \in Guests : HostOrders(Mute(g, muted))
  \/ LockCountdownCompletes \/ HearingPauses
  \/ \E b \in BOOLEAN : HostRoleChanges(b) \/ HostMoves(b)
  \/ \E g \in Guests : GuestIsUpdated(g)
  \/ SupplierObeys \/ ReceiveParticipantUpdate \/ ReceiveConferenceUpdate

LockFairness ==
  /\ WF_lockVars(SupplierObeys)
  /\ WF_lockVars(ReceiveParticipantUpdate)
  /\ WF_lockVars(ReceiveConferenceUpdate)

LockSpec == LockInit /\ [][LockNext]_lockVars /\ LockFairness

-----------------------------------------------------------------------------
LockTypeOK ==
  /\ {guestsMuted, seenLocked, countdownDone, hostIsChair, hostInHearing,
      hasty, unchecked} \subseteq BOOLEAN
  /\ unlockWaits \in Nat
  /\ remoteMutes \subseteq Guests /\ seenMutes \subseteq Guests
  /\ hostActs \in 0..MaxHostActs

\* With nothing on its way between them the client sees what the supplier has.
\* While the host presides, a conference is locked when all its guests are muted
\* and unlocked after the countdown when none is - unless the host came into the
\* hearing as chair already, which no update tells the lock of.  A host who
\* presides has no end of a countdown still to act on.
LockFollowsTheGuests ==
  LockSettled =>
    /\ seenMutes = remoteMutes /\ seenLocked = guestsMuted
    /\ Presides => unlockWaits = 0
    /\ Presides /\ ~unchecked =>
         /\ remoteMutes = Guests => guestsMuted
         /\ countdownDone /\ remoteMutes = {} => ~guestsMuted

\* Once the host has stopped, the client and the supplier stop locking and
\* unlocking the conference for each other, unless an order was given while
\* the one before was being carried out: then they may go on for ever.
LockSettles == []<>(LockSettled \/ hasty)
=============================================================================
