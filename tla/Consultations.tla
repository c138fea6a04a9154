---------------------------- MODULE Consultations ----------------------------
(***************************************************************************)
(* Invitations to a private consultation.  An invitation to a participant  *)
(* with linked participants is kept in the Redis cache: a dictionary from  *)
(* everyone invited to an answer.  Each answer is an HTTP request of its   *)
(* own that reads the invitation, sets one entry, writes the whole back,   *)
(* reads it again (twice) and, when all have accepted, asks the Video API  *)
(* to move them.  Nothing locks the entry, which expires after two and a   *)
(* half minutes, and the cache swallows its own failures.                  *)
(*                                                                         *)
(* The Video API is not in this repository: the model has it accept or     *)
(* refuse a call.                                                          *)
(***************************************************************************)
EXTENDS Naturals, FiniteSets

CONSTANTS
  Participants,
  LinkedTo,       \* LinkedTo[p]: Participant.LinkedParticipants
  Invitations,    \* ids an invitation can get
  Workers,        \* requests that can be in progress at the same time
  Missing,        \* the cache has no entry for an invitation
  Nobody, NoInvitation,   \* fields of a worker that handles no request
  Failures,       \* what may fail, a subset of FailureKinds
  MaxAnswers,     \* bound on the answers sent in a behaviour
  MaxFaults       \* bound on the failures in a behaviour

FailureKinds == {"Read", "Write", "Expiry", "VideoApi", "Other"}

ASSUME ConsultationsAssumption ==
  /\ LinkedTo \in [Participants -> SUBSET Participants]
  /\ Nobody \notin Participants
  /\ NoInvitation \notin Invitations
  /\ Failures \subseteq FailureKinds
  /\ MaxAnswers \in Nat /\ MaxFaults \in Nat

VARIABLES
  cache,       \* cache[i]: the responses of invitation i, or Missing
  req,         \* req[w]: the request worker w is handling
  told,        \* told[i][p]: the last answer the clients were told of p
  asked,       \* asked[i]: whose clients have been shown invitation i
  moved,       \* invitations the Video API has moved the invited for
  answered,    \* answers sent so far (bounded by MaxAnswers)
  faults,      \* failures so far (bounded by MaxFaults)
  invited,     \* history: everyone an invitation is for
  given,       \* history: the answers clients have given, <<i, p, answer>>
  latest,      \* history: the last answer of each, latest[i][p]
  overlapped   \* history: invitations with two answers handled at once

historyVars == <<invited, given, latest, overlapped>>
vars == <<cache, req, told, asked, moved, answered, faults, historyVars>>

-----------------------------------------------------------------------------
(***************************************************************************)
(* ConsultationAnswer and ConsultationInvitation.  A key the dictionary    *)
(* does not have is "NotAsked".                                            *)
(***************************************************************************)
ConsultationAnswer == {"None", "Accepted", "Rejected", "Failed", "Transferring"}
Responses == [Participants -> ConsultationAnswer \cup {"NotAsked"}]

ASSUME MissingAssumption == Missing \notin Responses

Group(p) == {p} \cup LinkedTo[p]

\* Mutant: linked participants get the status the client shows of a call.
CreateCalling(p) ==
  [q \in Participants |-> IF q = p THEN "None"
                          ELSE IF q \in LinkedTo[p] THEN "Calling" ELSE "NotAsked"]

Create(p) ==
  [q \in Participants |-> IF q \in Group(p) THEN "None" ELSE "NotAsked"]

\* Mutant: everyone has answered.
HaveAllResponded(responses) ==
  responses # Missing /\ \A p \in Participants : responses[p] # "None"

HaveAllAccepted(responses) ==
  responses # Missing /\
    \A p \in Participants : responses[p] \in {"Accepted", "NotAsked"}

-----------------------------------------------------------------------------
(***************************************************************************)
(* The worker.  "answer" is what the request says, "current" the answer    *)
(* NotifyConsultationResponseAsync is busy with: first the request's own,  *)
(* then Transferring or Failed.  "left" are the linked participants still  *)
(* to be told.                                                             *)
(***************************************************************************)
Steps ==
  {"idle", "track", "ask", "read", "write", "check", "tell", "tellLinked",
   "decide", "call"}

Request ==
  [pc      : Steps,
   inv     : Invitations \cup {NoInvitation},
   who     : Participants \cup {Nobody},
   answer  : ConsultationAnswer,
   current : ConsultationAnswer,
   copy    : Responses \cup {Missing},
   all     : BOOLEAN,
   left    : SUBSET Participants]

Idle ==
  [pc |-> "idle", inv |-> NoInvitation, who |-> Nobody, answer |-> "None",
   current |-> "None", copy |-> Missing, all |-> FALSE, left |-> {}]

At(w, step) == req[w].pc = step
Responding  == {"read", "write", "check", "tell", "tellLinked", "decide", "call"}
RespondsTo(w, i) == req[w].pc \in Responding /\ req[w].inv = i

Fault(kind) ==
  /\ kind \in Failures
  /\ faults < MaxFaults
  /\ faults' = faults + 1

\* A read of the cache: what is there, or nothing when it fails.
Reads(w, responses) ==
  \/ /\ responses = cache[req[w].inv]
     /\ UNCHANGED faults
  \/ /\ responses = Missing
     /\ Fault("Read")

-----------------------------------------------------------------------------
(***************************************************************************)
(* NotifyConsultationRequestAsync, from InviteToConsultation and from      *)
(* StartParticipantConsultation: track the invitation, show it to the      *)
(* invited and then to each linked participant.                            *)
(***************************************************************************)
Invite(w, i, p) ==
  /\ At(w, "idle")
  /\ invited[i] = {}
  /\ invited' = [invited EXCEPT ![i] = Group(p)]
  /\ req' = [req EXCEPT ![w] = [Idle EXCEPT !.pc = "track", !.inv = i, !.who = p]]
  /\ UNCHANGED <<cache, told, asked, moved, answered, faults,
                 given, latest, overlapped>>

\* Mutant: only the participant the invitation names is entered.
TrackOne(w) ==
  /\ At(w, "track")
  /\ cache' = [cache EXCEPT
                 ![req[w].inv] = [p \in Participants |->
                   IF p = req[w].who THEN "None" ELSE "NotAsked"]]
  /\ req' = [req EXCEPT ![w].pc = "ask", ![w].left = Group(req[w].who)]
  /\ UNCHANGED <<told, asked, moved, answered, faults, historyVars>>

StartTrackingInvitation(w) ==
  /\ At(w, "track")
  /\ \/ /\ cache' = [cache EXCEPT ![req[w].inv] = Create(req[w].who)]
        /\ UNCHANGED faults
     \/ /\ Fault("Write")
        /\ UNCHANGED cache
  /\ req' = [req EXCEPT ![w].pc = "ask", ![w].left = Group(req[w].who)]
  /\ UNCHANGED <<told, asked, moved, answered, historyVars>>

ShowInvitation(w) ==
  /\ At(w, "ask")
  /\ LET r == req[w]
     IN  \E p \in r.left :
           /\ r.who \in r.left => p = r.who
           /\ asked' = [asked EXCEPT ![r.inv] = @ \cup {p}]
           /\ req' = [req EXCEPT ![w] = IF r.left = {p} THEN Idle
                                        ELSE [r EXCEPT !.left = @ \ {p}]]
  /\ UNCHANGED <<cache, told, moved, answered, faults, historyVars>>

-----------------------------------------------------------------------------
(***************************************************************************)
(* RespondToConsultationRequestAsync.  A client answers what it has been   *)
(* shown, again if the user has it open twice or answers once more.        *)
(***************************************************************************)
Answer(w, i, p, a) ==
  /\ At(w, "idle")
  /\ p \in asked[i]
  /\ answered < MaxAnswers
  /\ answered' = answered + 1
  /\ given' = given \cup {<<i, p, a>>}
  /\ latest' = [latest EXCEPT ![i][p] = a]
  /\ overlapped' = IF \E v \in Workers : RespondsTo(v, i)
                     THEN overlapped \cup {i} ELSE overlapped
  /\ req' = [req EXCEPT ![w] = [Idle EXCEPT !.pc = "read", !.inv = i, !.who = p,
                                            !.answer = a, !.current = a]]
  /\ UNCHANGED <<cache, told, asked, moved, faults, invited>>

\* UpdateConsultationResponse
ReadInvitation(w) ==
  /\ At(w, "read")
  /\ \E responses \in {cache[req[w].inv], Missing} :
       /\ Reads(w, responses)
       /\ req' = [req EXCEPT
                    ![w].copy = responses,
                    ![w].pc = IF responses = Missing THEN "check" ELSE "write"]
  /\ UNCHANGED <<cache, told, asked, moved, answered, historyVars>>

WriteResponse(w) ==
  /\ At(w, "write")
  /\ LET r == req[w]
     IN  \/ /\ cache' = [cache EXCEPT
                           ![r.inv] = [r.copy EXCEPT ![r.who] = r.current]]
            /\ UNCHANGED faults
         \/ /\ Fault("Write")
            /\ UNCHANGED cache
  /\ req' = [req EXCEPT ![w].pc = "check"]
  /\ UNCHANGED <<told, asked, moved, answered, historyVars>>

\* The notifier's HaveAllParticipantsAccepted, which decides who is told.
CheckAccepted(w) ==
  /\ At(w, "check")
  /\ \E responses \in {cache[req[w].inv], Missing} :
       /\ Reads(w, responses)
       /\ req' = [req EXCEPT ![w].all = HaveAllAccepted(responses),
                             ![w].pc = "tell"]
  /\ UNCHANGED <<cache, told, asked, moved, answered, historyVars>>

\* What follows NotifyConsultationResponseAsync.
AfterNotify(r) ==
  CASE r.current = "Transferring" -> [r EXCEPT !.pc = "call", !.left = {}]
    [] r.current = "Failed"       -> Idle
    [] OTHER                      -> [r EXCEPT !.pc = "decide", !.left = {}]

TellLinkedOrGoOn(r) ==
  IF r.left = {} THEN AfterNotify(r) ELSE [r EXCEPT !.pc = "tellLinked"]

PublishResponse(w) ==
  /\ At(w, "tell")
  /\ LET r == req[w]
         waiting == r.current = "Accepted" /\ ~r.all
     IN  /\ told' = [told EXCEPT ![r.inv][r.who] = r.current]
         /\ req' = [req EXCEPT
                      ![w] = TellLinkedOrGoOn(
                               [r EXCEPT !.left = IF waiting THEN {}
                                                  ELSE LinkedTo[r.who]])]
  /\ UNCHANGED <<cache, asked, moved, answered, faults, historyVars>>

\* NotifyLinkedParticipantsOfConsultationResponseAsync, one after the other.
PublishLinkedResponse(w) ==
  /\ At(w, "tellLinked")
  /\ LET r == req[w]
     IN  \E p \in r.left :
           /\ told' = [told EXCEPT ![r.inv][p] = r.current]
           /\ req' = [req EXCEPT
                        ![w] = TellLinkedOrGoOn([r EXCEPT !.left = @ \ {p}])]
  /\ UNCHANGED <<cache, asked, moved, answered, faults, historyVars>>

\* The controller's own HaveAllParticipantsAccepted.
Decide(w) ==
  /\ At(w, "decide")
  /\ \E responses \in {cache[req[w].inv], Missing} :
       /\ Reads(w, responses)
       /\ req' = [req EXCEPT
                    ![w] = IF HaveAllAccepted(responses)
                             THEN [@ EXCEPT !.pc = "read",
                                            !.current = "Transferring"]
                           ELSE IF @.answer # "Accepted"
                             THEN [@ EXCEPT !.pc = "call"]
                             ELSE Idle]
  /\ UNCHANGED <<cache, told, asked, moved, answered, historyVars>>

\* videoApiClient.RespondToConsultationRequestAsync with the request's answer.
Call(w) ==
  /\ At(w, "call")
  /\ moved' = IF req[w].answer = "Accepted" THEN moved \cup {req[w].inv} ELSE moved
  /\ req' = [req EXCEPT ![w] = Idle]
  /\ UNCHANGED <<cache, told, asked, answered, faults, historyVars>>

\* Mutant: nobody is told that the call was refused.
RefusedSilently(w) ==
  /\ At(w, "call")
  /\ Fault("VideoApi")
  /\ req' = [req EXCEPT ![w] = Idle]
  /\ UNCHANGED <<cache, told, asked, moved, answered, historyVars>>

\* A VideoApiException is told as Failed ...
CallRefused(w) ==
  /\ At(w, "call")
  /\ Fault("VideoApi")
  /\ req' = [req EXCEPT ![w].pc = "read", ![w].current = "Failed"]
  /\ UNCHANGED <<cache, told, asked, moved, answered, historyVars>>

\* ... any other (the client went away, the call timed out) is not caught.
CallBreaksOff(w) ==
  /\ At(w, "call")
  /\ Fault("Other")
  /\ req' = [req EXCEPT ![w] = Idle]
  /\ UNCHANGED <<cache, told, asked, moved, answered, historyVars>>

Expire(i) ==
  /\ cache[i] # Missing
  /\ Fault("Expiry")
  /\ cache' = [cache EXCEPT ![i] = Missing]
  /\ UNCHANGED <<req, told, asked, moved, answered, historyVars>>

-----------------------------------------------------------------------------
Handle(w) ==
  \/ StartTrackingInvitation(w) \/ ShowInvitation(w)
  \/ ReadInvitation(w) \/ WriteResponse(w) \/ CheckAccepted(w)
  \/ PublishResponse(w) \/ PublishLinkedResponse(w)
  \/ Decide(w) \/ Call(w) \/ CallRefused(w) \/ CallBreaksOff(w)

Init ==
  /\ cache = [i \in Invitations |-> Missing]
  /\ req = [w \in Workers |-> Idle]
  /\ told = [i \in Invitations |-> [p \in Participants |-> "None"]]
  /\ asked = [i \in Invitations |-> {}]
  /\ moved = {}
  /\ answered = 0
  /\ faults = 0
  /\ invited = [i \in Invitations |-> {}]
  /\ given = {}
  /\ latest = [i \in Invitations |-> [p \in Participants |-> "None"]]
  /\ overlapped = {}

Next ==
  \/ \E w \in Workers :
       \/ Handle(w)
       \/ \E i \in Invitations, p \in Participants :
            \/ Invite(w, i, p)
            \/ \E a \in {"Accepted", "Rejected"} : Answer(w, i, p, a)
  \/ \E i \in Invitations : Expire(i)

Spec == Init /\ [][Next]_vars
FairSpec == Spec /\ \A w \in Workers : WF_vars(Handle(w))

-----------------------------------------------------------------------------
(***************************************************************************)
(* Properties.                                                             *)
(***************************************************************************)
TypeOK ==
  /\ cache \in [Invitations -> Responses \cup {Missing}]
  /\ req \in [Workers -> Request]
  /\ told \in [Invitations -> [Participants -> ConsultationAnswer]]
  /\ asked \in [Invitations -> SUBSET Participants]
  /\ moved \in SUBSET Invitations
  /\ answered \in Nat
  /\ faults \in Nat
  /\ invited \in [Invitations -> SUBSET Participants]
  /\ given \subseteq Invitations \X Participants \X ConsultationAnswer
  /\ latest \in [Invitations -> [Participants -> ConsultationAnswer]]
  /\ overlapped \in SUBSET Invitations

\* However answers interleave and whatever fails, nobody is moved to a
\* consultation who has not accepted this very invitation at some time, and
\* linked participants are only moved after every one of them has.
NobodyIsMovedUnasked ==
  \A i \in moved : \A p \in invited[i] : <<i, p, "Accepted">> \in given

\* Somebody is moved although their last answer was no only when two answers to
\* the invitation were handled at once or the cache failed: a write that puts an
\* older answer back needs one of the two.
RefusalsAreLostOnlyInARace ==
  [][\A i \in moved' \ moved :
       i \notin overlapped /\ faults = 0
         => \A p \in invited[i] : latest[i][p] = "Accepted"]_vars

\* Answers handled one at a time, a participant whose clients were last told
\* Transferring has been moved; a refusal by the Video API is told to all.
TransferringIsMoved ==
  (\A w \in Workers : At(w, "idle")) =>
    \A i \in Invitations, p \in Participants :
      told[i][p] = "Transferring" => i \in moved

\* Answers handled one at a time, the invitation in the cache is what the
\* promise calls consent.
ConsentOf(i) ==
  [p \in Participants |->
     IF cache[i] = Missing THEN "NotAsked"
     ELSE IF cache[i][p] = "Transferring" THEN "Accepted" ELSE cache[i][p]]

Promise == INSTANCE JointConsent WITH
  consent <- [i \in Invitations |-> ConsentOf(i)],
  Groups  <- {Group(p) : p \in Participants}

\* Answers handled one at a time keep the promise: all are asked, and they are
\* moved together, when and only when all have accepted.
KeepsThePromise == Promise!Spec
=============================================================================
