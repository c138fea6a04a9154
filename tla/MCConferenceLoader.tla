------------------------- MODULE MCConferenceLoader -------------------------
(***************************************************************************)
(* Instances of ConferenceLoader for TLC: a few instances of the web app   *)
(* over two days.                                                          *)
(***************************************************************************)
EXTENDS ConferenceLoader
=============================================================================
