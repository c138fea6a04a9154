--------------------------- MODULE MCConsultations ---------------------------
(***************************************************************************)
(* Instances of Consultations for TLC: everyone is linked to everyone.     *)
(***************************************************************************)
EXTENDS Consultations, TLC

AllLinked == [p \in Participants |-> Participants \ {p}]

RefusingVideoApi == {"VideoApi"}

Symmetry ==
  Permutations(Participants) \cup Permutations(Workers) \cup Permutations(Invitations)
=============================================================================
