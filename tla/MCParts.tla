------------------------------- MODULE MCParts -------------------------------
(***************************************************************************)
(* The parts of the browser's client, who is in a hearing and its layout,  *)
(* for TLC.                                                                *)
(* They share no variable that is modelled twice, so a behaviour is that of*)
(* one part: the first step chooses it, and the variables of the others    *)
(* stay as they are.                                                       *)
(***************************************************************************)
EXTENDS VideoCall, MediaDevices, EventsHub, ConferenceStore, Microphone,
        ConferenceLock, InstantMessages, ConferenceMembership, HearingLayout

CONSTANT Parts    \* the parts that may be chosen

VARIABLE part

partVars == <<callVars, mediaVars, hubVars, storeAll, muteVars, lockVars,
              chatVars, memberVars, layoutVars>>
vars == <<part, partVars>>

Init ==
  /\ part = "none"
  /\ CallInit /\ MediaInit /\ HubInit /\ StoreInit /\ MuteInit /\ LockInit
  /\ ChatInit /\ MembershipInit /\ LayoutInit

\* Only the lock begins in several ways, which are one to the others.
Choose ==
  /\ part = "none"
  /\ part' \in Parts
  /\ part' = "lock" \/ Presides
  /\ UNCHANGED partVars

Run(name) == part = name /\ UNCHANGED part

CallSteps ==
  /\ Run("call") /\ CallNext
  /\ UNCHANGED <<mediaVars, hubVars, storeAll, muteVars, lockVars, chatVars,
                 memberVars, layoutVars>>

MediaSteps ==
  /\ Run("media") /\ MediaNext
  /\ UNCHANGED <<callVars, hubVars, storeAll, muteVars, lockVars, chatVars,
                 memberVars, layoutVars>>

HubSteps ==
  /\ Run("hub") /\ HubNext
  /\ UNCHANGED <<callVars, mediaVars, storeAll, muteVars, lockVars, chatVars,
                 memberVars, layoutVars>>

StoreSteps ==
  /\ Run("store") /\ StoreNext
  /\ UNCHANGED <<callVars, mediaVars, hubVars, muteVars, lockVars, chatVars,
                 memberVars, layoutVars>>

MuteSteps ==
  /\ Run("microphone") /\ MuteNext
  /\ UNCHANGED <<callVars, mediaVars, hubVars, storeAll, lockVars, chatVars,
                 memberVars, layoutVars>>

LockSteps ==
  /\ Run("lock") /\ LockNext
  /\ UNCHANGED <<callVars, mediaVars, hubVars, storeAll, muteVars, chatVars,
                 memberVars, layoutVars>>

ChatSteps ==
  /\ Run("chat") /\ ChatNext
  /\ UNCHANGED <<callVars, mediaVars, hubVars, storeAll, muteVars, lockVars,
                 memberVars, layoutVars>>

MembershipSteps ==
  /\ Run("membership") /\ MembershipNext
  /\ UNCHANGED <<callVars, mediaVars, hubVars, storeAll, muteVars, lockVars,
                 chatVars, layoutVars>>

LayoutSteps ==
  /\ Run("layout") /\ LayoutNext
  /\ UNCHANGED <<callVars, mediaVars, hubVars, storeAll, muteVars, lockVars,
                 chatVars, memberVars>>

Next ==
  \/ Choose
  \/ CallSteps \/ MediaSteps \/ HubSteps \/ StoreSteps \/ MuteSteps \/ LockSteps
  \/ ChatSteps \/ MembershipSteps \/ LayoutSteps

\* No fair action of a part is enabled before its first step, so the fairness
\* of a part that is not chosen asks for nothing.
Spec == Init /\ [][Next]_vars /\ CallFairness /\ HubFairness /\ LockFairness

PartsTypeOK ==
  /\ CallTypeOK /\ MediaTypeOK /\ HubTypeOK /\ StoreTypeOK /\ MuteTypeOK
  /\ LockTypeOK /\ ChatTypeOK /\ MembershipTypeOK /\ LayoutTypeOK
=============================================================================
