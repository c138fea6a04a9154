------------------------- MODULE MCConferenceEvents -------------------------
(***************************************************************************)
(* Instances of ConferenceEvents for TLC.                                  *)
(***************************************************************************)
EXTENDS ConferenceEvents, TLC

\* One request at a time: everything but the refresh of the cache.
SerialKinds == Types \ {"Refresh"}

\* The kinds that move linked participants.
LinkedKinds == {"Joined", "Disconnected", "Transfer", "Start"}

\* Requests that overlap.
OverlapKinds ==
  {"Joined", "Disconnected", "Transfer", "Leave", "Start",
   "CountdownFinished", "BrowserJoining", "StartConsultation"}

FaultKinds ==
  {"Joined", "Disconnected", "Transfer", "Start", "CountdownFinished",
   "BrowserJoining", "StartConsultation", "Refresh"}

WorkerSymmetry == Permutations(Workers)

Symmetry ==
  Permutations(Participants) \cup Permutations(Workers) \cup Permutations(Rooms)
=============================================================================
