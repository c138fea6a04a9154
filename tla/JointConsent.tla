---------------------------- MODULE JointConsent ----------------------------
(***************************************************************************)
(* What an invitation to a consultation promises to participants who are   *)
(* linked to each other (a witness and an interpreter, say): all of them   *)
(* are asked, each may answer and change the answer, and they are moved    *)
(* together, when and only when all have accepted.                         *)
(***************************************************************************)
CONSTANTS
  Participants, Invitations,
  Groups      \* who may be invited together

VARIABLES
  consent,   \* consent[i][p]: what p has answered to invitation i
  moved      \* the invitations whose participants have been moved

vars == <<consent, moved>>

Answers == {"Accepted", "Rejected", "Failed"}

Asked(i)  == {p \in Participants : consent[i][p] # "NotAsked"}
Agreed(i) == Asked(i) # {} /\ \A p \in Asked(i) : consent[i][p] = "Accepted"

Init ==
  /\ consent = [i \in Invitations |-> [p \in Participants |-> "NotAsked"]]
  /\ moved = {}

Ask(i, P) ==
  /\ P \in Groups
  /\ Asked(i) = {}
  /\ consent' = [consent EXCEPT
                   ![i] = [p \in Participants |->
                             IF p \in P THEN "None" ELSE "NotAsked"]]
  /\ UNCHANGED moved

Answer(i, p, a) ==
  /\ p \in Asked(i)
  /\ consent' = [consent EXCEPT ![i][p] = a]
  /\ UNCHANGED moved

Move(i) ==
  /\ Agreed(i)
  /\ moved' = moved \cup {i}
  /\ UNCHANGED consent

Next ==
  \E i \in Invitations :
    \/ \E P \in Groups : Ask(i, P)
    \/ \E p \in Participants, a \in Answers : Answer(i, p, a)
    \/ Move(i)

\* Participants who have agreed are moved, unless one of them changes the
\* answer or the move fails.
TheAgreedAreMoved ==
  \A i \in Invitations : Agreed(i) ~> (i \in moved \/ ~Agreed(i))

Spec == Init /\ [][Next]_vars /\ TheAgreedAreMoved
=============================================================================
