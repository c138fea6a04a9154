------------------------- MODULE MCConsultationRooms -------------------------
(***************************************************************************)
(* Instances of ConsultationRooms for TLC: a representative, with an       *)
(* endpoint, a witness and a defendant, who must not meet the witness or   *)
(* the endpoint.                                                           *)
(***************************************************************************)
EXTENDS ConsultationRooms, TLC

CONSTANTS Representative, Witness, Defendant, Video

Everybody == {Representative, Witness, Defendant}
NoWitness == {Representative, Defendant}
Machines  == {Video}

Screening ==
  [x \in Parties |->
     Parties \cap (IF x = Witness THEN {Defendant}
                   ELSE IF x = Defendant THEN {Video} ELSE {})]

WorkerSymmetry == Permutations(Workers)

Linked == [p \in Participants |-> IF p = Representative THEN Machines ELSE {}]
=============================================================================
