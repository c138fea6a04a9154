------------------------- MODULE ConsultationsProofs -------------------------
(***************************************************************************)
(* Theorems about Consultations, for any number of participants, whoever   *)
(* is linked to whom, any number of answers at once and any failures.      *)
(***************************************************************************)
EXTENDS Consultations, TLAPS

-----------------------------------------------------------------------------
(***************************************************************************)
(* The invariant.  The copies of an invitation there are, in the cache and *)
(* with the workers, enter everyone invited and say Accepted only of those *)
(* who have accepted (Backing).  A request that says Transferring has seen *)
(* a copy in which all had accepted.                                       *)
(***************************************************************************)
HasAccepted(i, p, answers) == <<i, p, "Accepted">> \in answers

Backing(i, responses, people, answers) ==
  \A p \in Participants :
    /\ p \in people => responses[p] # "NotAsked"
    /\ responses[p] = "Accepted" => HasAccepted(i, p, answers)

AllGave(i, people, answers) == \A p \in people : HasAccepted(i, p, answers)

RequestOK(r, inv, answers) ==
  r.pc # "idle" =>
    /\ r.inv \in Invitations
    /\ r.who \in Participants
    /\ inv[r.inv] # {}
    /\ r.pc = "track" => inv[r.inv] = Group(r.who)
    /\ r.pc = "ask" => r.left \subseteq inv[r.inv]
    /\ r.pc = "write" => r.copy # Missing
                      /\ Backing(r.inv, r.copy, inv[r.inv], answers)
    /\ r.answer = "Accepted" => HasAccepted(r.inv, r.who, answers)
    /\ r.current = "Accepted" => r.answer = "Accepted"
    /\ r.current = "Transferring" => AllGave(r.inv, inv[r.inv], answers)
    /\ r.pc = "call" => (r.answer = "Accepted" => r.current = "Transferring")

CacheOK ==
  \A i \in Invitations :
    cache[i] # Missing => /\ invited[i] # {}
                          /\ Backing(i, cache[i], invited[i], given)

MovedOK ==
  \A i \in moved : invited[i] # {} /\ AllGave(i, invited[i], given)

AskedOK == \A i \in Invitations : asked[i] \subseteq invited[i]

RequestsOK == \A w \in Workers : RequestOK(req[w], invited, given)

ConsentInv == TypeOK /\ CacheOK /\ MovedOK /\ AskedOK /\ RequestsOK

-----------------------------------------------------------------------------
(***************************************************************************)
(* What a step may do to the two histories: answers are added, and nobody  *)
(* is added to those an invitation is for.                                 *)
(***************************************************************************)
Kept(inv, inv2) == \A i \in Invitations : inv[i] # {} => inv2[i] = inv[i]

\* A copy stays backed when more answers are given.
LEMMA BackingStays ==
  ASSUME NEW i, NEW responses, NEW people, NEW answers, NEW more,
         answers \subseteq more, Backing(i, responses, people, answers)
  PROVE  Backing(i, responses, people, more)
BY DEF Backing, HasAccepted

\* Everybody's consent stays given when more answers are.
LEMMA AllGaveStays ==
  ASSUME NEW i, NEW people, NEW answers, NEW more,
         answers \subseteq more, AllGave(i, people, answers)
  PROVE  AllGave(i, people, more)
BY DEF AllGave, HasAccepted

\* A request that no step touches stays in order.
LEMMA RequestStays ==
  ASSUME NEW r, NEW inv, NEW inv2, NEW answers, NEW more,
         answers \subseteq more, Kept(inv, inv2), RequestOK(r, inv, answers)
  PROVE  RequestOK(r, inv2, more)
<1> SUFFICES ASSUME r.pc # "idle" PROVE RequestOK(r, inv2, more)
  BY DEF RequestOK
<1>1. r.inv \in Invitations /\ inv[r.inv] # {}
  BY DEF RequestOK
<1>2. inv2[r.inv] = inv[r.inv]
  BY <1>1 DEF Kept
<1>3. r.pc = "write" => Backing(r.inv, r.copy, inv[r.inv], more)
  BY BackingStays DEF RequestOK
<1>4. r.current = "Transferring" => AllGave(r.inv, inv[r.inv], more)
  BY AllGaveStays DEF RequestOK
<1>5. r.answer = "Accepted" => HasAccepted(r.inv, r.who, more)
  BY DEF RequestOK, HasAccepted
<1> QED
  BY <1>1, <1>2, <1>3, <1>4, <1>5 DEF RequestOK

\* HaveAllAccepted of a backed copy: everyone invited has accepted.
LEMMA AcceptedByAll ==
  ASSUME NEW i, NEW responses \in Responses \cup {Missing},
         NEW people \in SUBSET Participants, NEW answers,
         responses # Missing => Backing(i, responses, people, answers),
         HaveAllAccepted(responses)
  PROVE  AllGave(i, people, answers)
BY DEF AllGave, HaveAllAccepted, Backing, HasAccepted

\* A fresh invitation is backed: it enters everyone and says nothing of them.
LEMMA CreateIsBacked ==
  ASSUME NEW i, NEW p \in Participants, NEW answers
  PROVE  /\ Create(p) \in Responses
         /\ Backing(i, Create(p), Group(p), answers)
BY DEF Create, Responses, ConsultationAnswer, Backing, Group, HasAccepted

\* An answer set in a backed copy leaves it backed.
LEMMA SetIsBacked ==
  ASSUME NEW i, NEW responses \in Responses, NEW people, NEW answers,
         NEW p \in Participants, NEW a \in ConsultationAnswer,
         Backing(i, responses, people, answers),
         a = "Accepted" => HasAccepted(i, p, answers)
  PROVE  /\ [responses EXCEPT ![p] = a] \in Responses
         /\ Backing(i, [responses EXCEPT ![p] = a], people, answers)
BY DEF Responses, ConsultationAnswer, Backing, HasAccepted

\* No request: nothing to show.
LEMMA IdleOK ==
  ASSUME NEW inv, NEW answers
  PROVE  Idle \in Request /\ RequestOK(Idle, inv, answers)
BY DEF Idle, Request, RequestOK, Steps, ConsultationAnswer

-----------------------------------------------------------------------------
(***************************************************************************)
(* The invariant holds at the start and is kept by every step.             *)
(***************************************************************************)
\* The invariant holds before anybody has been invited.
THEOREM ConsentInit == Init => ConsentInv
<1> SUFFICES ASSUME Init PROVE ConsentInv
  OBVIOUS
<1> USE ConsultationsAssumption DEF Init
<1>1. TypeOK
  <2>1. req \in [Workers -> Request]
    BY IdleOK
  <2>2. cache \in [Invitations -> Responses \cup {Missing}]
    OBVIOUS
  <2>3. told \in [Invitations -> [Participants -> ConsultationAnswer]]
    BY DEF ConsultationAnswer
  <2>4. latest \in [Invitations -> [Participants -> ConsultationAnswer]]
    BY DEF ConsultationAnswer
  <2> QED
    BY <2>1, <2>2, <2>3, <2>4 DEF TypeOK
<1>2. RequestsOK
  BY IdleOK DEF RequestsOK
<1>3. CacheOK /\ MovedOK /\ AskedOK
  BY DEF CacheOK, MovedOK, AskedOK
<1> QED
  BY <1>1, <1>2, <1>3 DEF ConsentInv

\* Most steps change one request and leave the histories alone.
LEMMA OneRequest ==
  ASSUME ConsentInv, NEW w \in Workers, NEW r \in Request,
         req' = [req EXCEPT ![w] = r],
         RequestOK(r, invited, given),
         UNCHANGED <<invited, given>>
  PROVE  req' \in [Workers -> Request] /\ RequestsOK'
<1>1. req \in [Workers -> Request] /\ RequestsOK
  BY DEF ConsentInv, TypeOK
<1> QED
  BY <1>1 DEF RequestsOK

\* What the steps that write no invitation and move nobody leave to show.
LEMMA OnlyTheRequest ==
  ASSUME ConsentInv, RequestsOK', req' \in [Workers -> Request],
         UNCHANGED <<cache, moved, invited, given, latest, overlapped>>,
         told' \in [Invitations -> [Participants -> ConsultationAnswer]],
         asked' \in [Invitations -> SUBSET Participants], AskedOK',
         answered' \in Nat, faults' \in Nat
  PROVE  ConsentInv'
<1>1. TypeOK'
  BY DEF ConsentInv, TypeOK
<1>2. CacheOK' /\ MovedOK'
  BY DEF ConsentInv, CacheOK, MovedOK
<1> QED
  BY <1>1, <1>2 DEF ConsentInv

\* A failure counts.
LEMMA FaultCounts ==
  ASSUME NEW kind, TypeOK, Fault(kind) \/ UNCHANGED faults
  PROVE  faults' \in Nat
BY DEF TypeOK, Fault

\* What a read of the cache returns.
LEMMA ReadIsBacked ==
  ASSUME ConsentInv, NEW w \in Workers, ~At(w, "idle"),
         NEW responses, Reads(w, responses)
  PROVE  /\ responses \in Responses \cup {Missing}
         /\ responses # Missing =>
              Backing(req[w].inv, responses, invited[req[w].inv], given)
         /\ faults' \in Nat
<1>1. req[w].inv \in Invitations
  BY DEF ConsentInv, RequestsOK, RequestOK, At
<1>2. faults' \in Nat
  BY FaultCounts DEF Reads, ConsentInv
<1>3. CASE responses = Missing
  BY <1>2, <1>3
<1>4. CASE responses = cache[req[w].inv]
  BY <1>1, <1>2, <1>4 DEF ConsentInv, TypeOK, CacheOK
<1> QED
  BY <1>3, <1>4 DEF Reads

\* Writing a backed copy, whose request goes on.
LEMMA OneWrite ==
  ASSUME ConsentInv, NEW i \in Invitations, NEW responses \in Responses,
         cache' = [cache EXCEPT ![i] = responses],
         Backing(i, responses, invited[i], given), invited[i] # {},
         RequestsOK', req' \in [Workers -> Request],
         UNCHANGED <<told, asked, moved, answered, historyVars>>,
         faults' \in Nat
  PROVE  ConsentInv'
<1>1. TypeOK'
  BY DEF ConsentInv, TypeOK, historyVars
<1>2. CacheOK'
  BY DEF ConsentInv, TypeOK, CacheOK, historyVars
<1>3. MovedOK' /\ AskedOK'
  BY DEF ConsentInv, MovedOK, AskedOK, historyVars
<1> QED
  BY <1>1, <1>2, <1>3 DEF ConsentInv

-----------------------------------------------------------------------------
(***************************************************************************)
(* One lemma per action.                                                   *)
(***************************************************************************)
\* A new invitation: nobody has been asked and nothing is stored yet.
LEMMA InviteStep ==
  ASSUME ConsentInv, NEW w \in Workers, NEW i \in Invitations,
         NEW p \in Participants, Invite(w, i, p)
  PROVE  ConsentInv'
<1> DEFINE r == [Idle EXCEPT !.pc = "track", !.inv = i, !.who = p]
<1>1. /\ invited[i] = {}
      /\ invited' = [invited EXCEPT ![i] = Group(p)]
      /\ req' = [req EXCEPT ![w] = r]
      /\ UNCHANGED <<cache, told, asked, moved, answered, faults,
                     given, latest, overlapped>>
  BY DEF Invite
<1>2. Group(p) \in SUBSET Participants /\ Group(p) # {}
  BY ConsultationsAssumption DEF Group
<1>3. invited' \in [Invitations -> SUBSET Participants] /\ invited'[i] = Group(p)
  BY <1>1, <1>2 DEF ConsentInv, TypeOK
<1>4. Kept(invited, invited')
  BY <1>1, <1>3 DEF ConsentInv, TypeOK, Kept
<1>5. r \in Request /\ RequestOK(r, invited', given')
  <2>1. /\ r.pc = "track" /\ r.inv = i /\ r.who = p /\ r.answer = "None"
        /\ r.current = "None"
    BY DEF Idle
  <2>2. r \in Request
    BY DEF Idle, Request, Steps, ConsultationAnswer
  <2> HIDE DEF r
  <2> QED
    BY <1>2, <1>3, <2>1, <2>2 DEF RequestOK
<1> HIDE DEF r
<1>6. req' \in [Workers -> Request] /\ RequestsOK'
  <2>1. req' \in [Workers -> Request]
    BY <1>1, <1>5 DEF ConsentInv, TypeOK
  <2>2. ASSUME NEW v \in Workers PROVE RequestOK(req'[v], invited', given')
    <3>1. CASE v = w
      BY <1>1, <1>5, <3>1 DEF ConsentInv, TypeOK
    <3>2. CASE v # w
      <4>1. req'[v] = req[v]
        BY <1>1, <3>2 DEF ConsentInv, TypeOK
      <4>2. RequestOK(req[v], invited, given) /\ given \subseteq given'
        BY <1>1 DEF ConsentInv, RequestsOK
      <4> QED
        BY <1>4, <4>1, <4>2, RequestStays
    <3> QED
      BY <3>1, <3>2
  <2> QED
    BY <2>1, <2>2 DEF RequestsOK
<1>7. TypeOK'
  BY <1>1, <1>3, <1>6 DEF ConsentInv, TypeOK
<1>8. CacheOK'
  BY <1>1, <1>4 DEF ConsentInv, CacheOK, Kept
<1>9. MovedOK' /\ AskedOK'
  BY <1>1, <1>3, <1>4 DEF ConsentInv, TypeOK, MovedOK, AskedOK, Kept
<1> QED
  BY <1>6, <1>7, <1>8, <1>9 DEF ConsentInv

\* Whoever answers has been shown the invitation, and the answer counts as given.
LEMMA AnswerStep ==
  ASSUME ConsentInv, NEW w \in Workers, NEW i \in Invitations,
         NEW p \in Participants, NEW a \in {"Accepted", "Rejected"},
         Answer(w, i, p, a)
  PROVE  ConsentInv'
<1> DEFINE r == [Idle EXCEPT !.pc = "read", !.inv = i, !.who = p,
                             !.answer = a, !.current = a]
<1>1. /\ answered' = answered + 1
      /\ given' = given \cup {<<i, p, a>>}
      /\ latest' = [latest EXCEPT ![i][p] = a]
      /\ overlapped' \in {overlapped, overlapped \cup {i}}
      /\ req' = [req EXCEPT ![w] = r]
      /\ UNCHANGED <<cache, told, asked, moved, faults, invited>>
      /\ invited[i] # {}
  BY DEF Answer, ConsentInv, AskedOK
<1>2. r \in Request /\ RequestOK(r, invited', given')
  <2>1. /\ r.pc = "read" /\ r.inv = i /\ r.who = p /\ r.answer = a
        /\ r.current = a
    BY DEF Idle
  <2>2. r \in Request
    BY DEF Idle, Request, Steps, ConsultationAnswer
  <2> HIDE DEF r
  <2> QED
    BY <1>1, <2>1, <2>2 DEF RequestOK, HasAccepted
<1> HIDE DEF r
<1>3. given \subseteq given' /\ Kept(invited, invited')
  BY <1>1 DEF Kept
<1>4. req' \in [Workers -> Request] /\ RequestsOK'
  <2>1. req' \in [Workers -> Request]
    BY <1>1, <1>2 DEF ConsentInv, TypeOK
  <2>2. ASSUME NEW v \in Workers PROVE RequestOK(req'[v], invited', given')
    <3>1. CASE v = w
      BY <1>1, <1>2, <3>1 DEF ConsentInv, TypeOK
    <3>2. CASE v # w
      <4>1. req'[v] = req[v] /\ RequestOK(req[v], invited, given)
        BY <1>1, <3>2 DEF ConsentInv, TypeOK, RequestsOK
      <4> QED
        BY <1>3, <4>1, RequestStays
    <3> QED
      BY <3>1, <3>2
  <2> QED
    BY <2>1, <2>2 DEF RequestsOK
<1>5. TypeOK'
  <2>1. latest' \in [Invitations -> [Participants -> ConsultationAnswer]]
    BY <1>1 DEF ConsentInv, TypeOK, ConsultationAnswer
  <2>2. given' \subseteq Invitations \X Participants \X ConsultationAnswer
    BY <1>1 DEF ConsentInv, TypeOK, ConsultationAnswer
  <2> QED
    BY <1>1, <1>4, <2>1, <2>2 DEF ConsentInv, TypeOK
<1>6. CacheOK'
  <2> SUFFICES ASSUME NEW j \in Invitations, cache[j] # Missing
               PROVE  invited[j] # {} /\ Backing(j, cache[j], invited[j], given')
    BY <1>1 DEF CacheOK
  <2>1. invited[j] # {} /\ Backing(j, cache[j], invited[j], given)
    BY DEF ConsentInv, CacheOK
  <2> QED
    BY <1>3, <2>1, BackingStays
<1>7. MovedOK' /\ AskedOK'
  BY <1>1, <1>3, AllGaveStays DEF ConsentInv, MovedOK, AskedOK
<1> QED
  BY <1>4, <1>5, <1>6, <1>7 DEF ConsentInv

\* The request a worker handles, and the frame of its steps.
LEMMA CurrentRequest ==
  ASSUME ConsentInv, NEW w \in Workers, ~At(w, "idle")
  PROVE  /\ req[w] \in Request /\ RequestOK(req[w], invited, given)
         /\ req[w].inv \in Invitations /\ req[w].who \in Participants
         /\ invited[req[w].inv] # {}
         /\ invited[req[w].inv] \in SUBSET Participants
BY DEF ConsentInv, TypeOK, RequestsOK, RequestOK, At

\* The invitation is stored with an entry for everyone invited, or not at all.
LEMMA StartTrackingInvitationStep ==
  ASSUME ConsentInv, NEW w \in Workers, StartTrackingInvitation(w)
  PROVE  ConsentInv'
<1> DEFINE i == req[w].inv
           r == [req[w] EXCEPT !.pc = "ask", !.left = Group(req[w].who)]
<1>1. /\ At(w, "track") /\ ~At(w, "idle")
      /\ UNCHANGED <<told, asked, moved, answered, historyVars>>
      /\ \/ cache' = [cache EXCEPT ![i] = Create(req[w].who)] /\ UNCHANGED faults
         \/ Fault("Write") /\ UNCHANGED cache
  BY DEF StartTrackingInvitation, At
<1>2. /\ req[w] \in Request /\ RequestOK(req[w], invited, given)
      /\ i \in Invitations /\ req[w].who \in Participants
      /\ invited[i] = Group(req[w].who) /\ invited[i] # {}
      /\ invited[i] \in SUBSET Participants
  BY <1>1, CurrentRequest DEF RequestOK, At
<1>3. req' = [req EXCEPT ![w] = r]
  BY DEF StartTrackingInvitation, ConsentInv, TypeOK
<1>4. r \in Request /\ RequestOK(r, invited, given)
  <2>1. /\ r.pc = "ask" /\ r.left = Group(req[w].who) /\ r.inv = i
        /\ r.who = req[w].who /\ r.answer = req[w].answer
        /\ r.current = req[w].current /\ r.copy = req[w].copy
    BY <1>2 DEF Request
  <2>2. r \in Request
    BY <1>2 DEF Request, Steps
  <2>3. req[w].pc # "idle"
    BY <1>1 DEF At
  <2> HIDE DEF r
  <2> QED
    BY <1>2, <2>1, <2>2, <2>3 DEF RequestOK
<1> HIDE DEF r
<1>5. req' \in [Workers -> Request] /\ RequestsOK'
  BY <1>1, <1>3, <1>4, OneRequest DEF historyVars
<1>6. CASE cache' = [cache EXCEPT ![i] = Create(req[w].who)] /\ UNCHANGED faults
  <2>1. Create(req[w].who) \in Responses /\ Backing(i, Create(req[w].who), invited[i], given)
    BY <1>2, CreateIsBacked
  <2>2. faults' \in Nat
    BY <1>6 DEF ConsentInv, TypeOK
  <2> HIDE DEF i
  <2> QED
    BY <1>1, <1>2, <1>5, <1>6, <2>1, <2>2, OneWrite
<1>7. CASE Fault("Write") /\ UNCHANGED cache
  <2>1. faults' \in Nat
    BY <1>7, FaultCounts DEF ConsentInv
  <2> QED
    BY <1>1, <1>5, <1>7, <2>1, OnlyTheRequest DEF ConsentInv, TypeOK, AskedOK, historyVars
<1> QED
  BY <1>1, <1>6, <1>7

\* Only the invited are shown an invitation.
LEMMA ShowInvitationStep ==
  ASSUME ConsentInv, NEW w \in Workers, ShowInvitation(w)
  PROVE  ConsentInv'
<1>1. /\ At(w, "ask") /\ ~At(w, "idle")
      /\ UNCHANGED <<cache, told, moved, answered, faults, historyVars>>
  BY DEF ShowInvitation, At
<1>2. PICK p \in req[w].left :
        /\ asked' = [asked EXCEPT ![req[w].inv] = @ \cup {p}]
        /\ req' = [req EXCEPT ![w] = IF req[w].left = {p} THEN Idle
                                     ELSE [req[w] EXCEPT !.left = @ \ {p}]]
  BY DEF ShowInvitation
<1>3. /\ req[w] \in Request /\ RequestOK(req[w], invited, given)
      /\ req[w].inv \in Invitations /\ req[w].pc = "ask"
      /\ req[w].left \subseteq invited[req[w].inv]
      /\ req[w].left \subseteq Participants
  BY <1>1, CurrentRequest DEF RequestOK, At, Request
<1> DEFINE s == [req[w] EXCEPT !.left = @ \ {p}]
<1>4. s \in Request /\ RequestOK(s, invited, given)
  <2>1. /\ s.pc = "ask" /\ s.left \subseteq req[w].left /\ s.inv = req[w].inv
        /\ s.who = req[w].who /\ s.answer = req[w].answer
        /\ s.current = req[w].current
    BY <1>3 DEF Request
  <2>2. s \in Request
    BY <1>3 DEF Request
  <2> HIDE DEF s
  <2> QED
    BY <1>3, <2>1, <2>2 DEF RequestOK
<1> HIDE DEF s
<1> DEFINE r == IF req[w].left = {p} THEN Idle ELSE s
<1>5. r \in Request /\ RequestOK(r, invited, given) /\ req' = [req EXCEPT ![w] = r]
  BY <1>2, <1>4, IdleOK DEF s
<1> HIDE DEF r
<1>6. req' \in [Workers -> Request] /\ RequestsOK'
  BY <1>1, <1>5, OneRequest DEF historyVars
<1>7. asked' \in [Invitations -> SUBSET Participants] /\ AskedOK'
  BY <1>1, <1>2, <1>3 DEF ConsentInv, TypeOK, AskedOK, historyVars
<1> QED
  BY <1>1, <1>6, <1>7, OnlyTheRequest DEF ConsentInv, TypeOK, historyVars

\* Steps that change nothing but the request (and count a failure).
LEMMA RequestOnly ==
  ASSUME ConsentInv, NEW w \in Workers, NEW r \in Request,
         RequestOK(r, invited, given),
         req' = [req EXCEPT ![w] = r],
         UNCHANGED <<cache, told, asked, moved, answered, historyVars>>,
         faults' \in Nat
  PROVE  ConsentInv'
<1>1. req' \in [Workers -> Request] /\ RequestsOK'
  BY OneRequest DEF historyVars
<1> QED
  BY <1>1, OnlyTheRequest DEF ConsentInv, TypeOK, AskedOK, historyVars

\* UpdateConsultationResponse reads a backed copy or nothing.
LEMMA ReadInvitationStep ==
  ASSUME ConsentInv, NEW w \in Workers, ReadInvitation(w)
  PROVE  ConsentInv'
<1>1. /\ At(w, "read") /\ ~At(w, "idle")
      /\ UNCHANGED <<cache, told, asked, moved, answered, historyVars>>
  BY DEF ReadInvitation, At
<1>2. PICK responses \in {cache[req[w].inv], Missing} :
        /\ Reads(w, responses)
        /\ req' = [req EXCEPT
                     ![w].copy = responses,
                     ![w].pc = IF responses = Missing THEN "check" ELSE "write"]
  BY DEF ReadInvitation
<1>3. req[w] \in Request /\ RequestOK(req[w], invited, given)
  BY <1>1, CurrentRequest
<1>4. /\ responses \in Responses \cup {Missing}
      /\ responses # Missing =>
           Backing(req[w].inv, responses, invited[req[w].inv], given)
      /\ faults' \in Nat
  BY <1>1, <1>2, ReadIsBacked
<1> DEFINE r == [req[w] EXCEPT !.copy = responses,
                               !.pc = IF responses = Missing THEN "check" ELSE "write"]
<1>5. r \in Request /\ RequestOK(r, invited, given)
  <2>1. /\ r.pc \in {"check", "write"} /\ (r.pc = "write" => responses # Missing)
        /\ r.copy = responses /\ r.inv = req[w].inv
        /\ r.who = req[w].who /\ r.answer = req[w].answer
        /\ r.current = req[w].current
    BY <1>3 DEF Request
  <2>2. r \in Request
    BY <1>3, <1>4 DEF Request, Steps
  <2>3. req[w].pc # "idle"
    BY <1>1 DEF At
  <2> HIDE DEF r
  <2> QED
    BY <1>3, <1>4, <2>1, <2>2, <2>3 DEF RequestOK
<1>6. req' = [req EXCEPT ![w] = r]
  BY <1>2 DEF ConsentInv, TypeOK
<1> HIDE DEF r
<1> QED
  BY <1>1, <1>4, <1>5, <1>6, RequestOnly

\* The notifier finds all accepted only if everyone invited has accepted.
LEMMA CheckAcceptedStep ==
  ASSUME ConsentInv, NEW w \in Workers, CheckAccepted(w)
  PROVE  ConsentInv'
<1>1. /\ At(w, "check") /\ ~At(w, "idle")
      /\ UNCHANGED <<cache, told, asked, moved, answered, historyVars>>
  BY DEF CheckAccepted, At
<1>2. PICK responses \in {cache[req[w].inv], Missing} :
        /\ Reads(w, responses)
        /\ req' = [req EXCEPT ![w].all = HaveAllAccepted(responses), ![w].pc = "tell"]
  BY DEF CheckAccepted
<1>3. req[w] \in Request /\ RequestOK(req[w], invited, given)
  BY <1>1, CurrentRequest
<1>4. faults' \in Nat
  BY <1>1, <1>2, ReadIsBacked
<1> DEFINE r == [req[w] EXCEPT !.all = HaveAllAccepted(responses), !.pc = "tell"]
<1>5. r \in Request /\ RequestOK(r, invited, given)
  <2>1. /\ r.pc = "tell" /\ r.inv = req[w].inv
        /\ r.who = req[w].who /\ r.answer = req[w].answer
        /\ r.current = req[w].current
    BY <1>3 DEF Request
  <2>2. HaveAllAccepted(responses) \in BOOLEAN
    BY DEF HaveAllAccepted
  <2>3. r \in Request
    <3> HIDE DEF HaveAllAccepted
    <3> QED
      BY <1>3, <2>2 DEF Request, Steps
  <2>4. req[w].pc # "idle"
    BY <1>1 DEF At
  <2> HIDE DEF r
  <2> QED
    BY <1>3, <2>1, <2>3, <2>4 DEF RequestOK
<1>6. req' = [req EXCEPT ![w] = r]
  BY <1>2 DEF ConsentInv, TypeOK
<1> HIDE DEF r
<1> QED
  BY <1>1, <1>4, <1>5, <1>6, RequestOnly

\* What is written back is the copy with an answer that was given.
LEMMA WriteResponseStep ==
  ASSUME ConsentInv, NEW w \in Workers, WriteResponse(w)
  PROVE  ConsentInv'
<1> DEFINE i == req[w].inv
           new == [req[w].copy EXCEPT ![req[w].who] = req[w].current]
           r == [req[w] EXCEPT !.pc = "check"]
<1>1. /\ At(w, "write") /\ ~At(w, "idle")
      /\ UNCHANGED <<told, asked, moved, answered, historyVars>>
      /\ \/ cache' = [cache EXCEPT ![i] = new] /\ UNCHANGED faults
         \/ Fault("Write") /\ UNCHANGED cache
  BY DEF WriteResponse, At
<1>2. /\ req[w] \in Request /\ RequestOK(req[w], invited, given)
      /\ i \in Invitations /\ req[w].who \in Participants
      /\ invited[i] # {} /\ req[w].pc = "write"
  BY <1>1, CurrentRequest DEF At
<1>3. req' = [req EXCEPT ![w] = r]
  BY DEF WriteResponse, ConsentInv, TypeOK
<1>4. r \in Request /\ RequestOK(r, invited, given)
  <2>1. /\ r.pc = "check" /\ r.inv = i
        /\ r.who = req[w].who /\ r.answer = req[w].answer
        /\ r.current = req[w].current
    BY <1>2 DEF Request
  <2>2. r \in Request
    BY <1>2 DEF Request, Steps
  <2> HIDE DEF r
  <2> QED
    BY <1>2, <2>1, <2>2 DEF RequestOK
<1> HIDE DEF r
<1>5. req' \in [Workers -> Request] /\ RequestsOK'
  BY <1>1, <1>3, <1>4, OneRequest DEF historyVars
<1>6. CASE cache' = [cache EXCEPT ![i] = new] /\ UNCHANGED faults
  <2>1. /\ req[w].copy \in Responses /\ req[w].current \in ConsultationAnswer
        /\ Backing(i, req[w].copy, invited[i], given)
        /\ req[w].current = "Accepted" => HasAccepted(i, req[w].who, given)
    BY <1>2 DEF RequestOK, Request
  <2>2. new \in Responses /\ Backing(i, new, invited[i], given)
    BY <1>2, <2>1, SetIsBacked
  <2>3. faults' \in Nat
    BY <1>6 DEF ConsentInv, TypeOK
  <2> HIDE DEF i, new
  <2> QED
    BY <1>1, <1>2, <1>5, <1>6, <2>2, <2>3, OneWrite
<1>7. CASE Fault("Write") /\ UNCHANGED cache
  <2>1. faults' \in Nat
    BY <1>7, FaultCounts DEF ConsentInv
  <2> QED
    BY <1>1, <1>3, <1>4, <1>7, <2>1, RequestOnly
<1> QED
  BY <1>1, <1>6, <1>7

\* The next step after a message is in order.
LEMMA GoesOn ==
  ASSUME NEW r \in Request, NEW inv, NEW answers,
         r.pc \in {"tell", "tellLinked"}, RequestOK(r, inv, answers)
  PROVE  /\ TellLinkedOrGoOn(r) \in Request
         /\ RequestOK(TellLinkedOrGoOn(r), inv, answers)
<1> DEFINE Next3 == {"tellLinked", "call", "decide"}
<1>1. ASSUME NEW step \in Next3,
             NEW left \in SUBSET Participants,
             step = "call" => r.current = "Transferring"
      PROVE  /\ [r EXCEPT !.pc = step, !.left = left] \in Request
             /\ RequestOK([r EXCEPT !.pc = step, !.left = left], inv, answers)
  <2> DEFINE s == [r EXCEPT !.pc = step, !.left = left]
  <2>1. /\ s.pc = step /\ s.inv = r.inv /\ s.who = r.who
        /\ s.answer = r.answer /\ s.current = r.current
    BY DEF Request
  <2>2. s \in Request
    BY DEF Request, Steps
  <2>3. r.pc # "idle"
    OBVIOUS
  <2> HIDE DEF s
  <2>4. RequestOK(s, inv, answers)
    BY <1>1, <2>1, <2>3 DEF RequestOK
  <2> QED
    BY <2>2, <2>4 DEF s
<1>2. CASE r.left # {}
  <2>1. TellLinkedOrGoOn(r) = [r EXCEPT !.pc = "tellLinked", !.left = r.left]
    BY <1>2 DEF TellLinkedOrGoOn, Request
  <2>2. r.left \in SUBSET Participants /\ "tellLinked" \in Next3
    BY DEF Request, Steps
  <2> QED
    BY <1>1, <2>1, <2>2, "tellLinked" # "call"
<1>3. CASE r.left = {} /\ r.current = "Transferring"
  <2>1. TellLinkedOrGoOn(r) = [r EXCEPT !.pc = "call", !.left = {}]
    BY <1>3 DEF TellLinkedOrGoOn, AfterNotify
  <2>2. "call" \in Next3
    BY DEF Steps
  <2> QED
    BY <1>1, <1>3, <2>1, <2>2
<1>4. CASE r.left = {} /\ r.current = "Failed"
  BY <1>4, IdleOK DEF TellLinkedOrGoOn, AfterNotify
<1>5. CASE r.left = {} /\ r.current \notin {"Transferring", "Failed"}
  <2>1. TellLinkedOrGoOn(r) = [r EXCEPT !.pc = "decide", !.left = {}]
    BY <1>5 DEF TellLinkedOrGoOn, AfterNotify
  <2>2. "decide" \in Next3
    BY DEF Steps
  <2> QED
    BY <1>1, <2>1, <2>2
<1> QED
  BY <1>2, <1>3, <1>4, <1>5

\* Telling changes what the clients were told and the request.
LEMMA Telling ==
  ASSUME ConsentInv, NEW w \in Workers, At(w, "tell") \/ At(w, "tellLinked"),
         NEW p \in Participants, NEW left \in SUBSET Participants,
         told' = [told EXCEPT ![req[w].inv][p] = req[w].current],
         req' = [req EXCEPT
                   ![w] = TellLinkedOrGoOn([req[w] EXCEPT !.left = left])],
         UNCHANGED <<cache, asked, moved, answered, faults, historyVars>>
  PROVE  ConsentInv'
<1>1. /\ req[w] \in Request /\ RequestOK(req[w], invited, given)
      /\ req[w].pc \in {"tell", "tellLinked"}
  BY CurrentRequest DEF At
<1> DEFINE s == [req[w] EXCEPT !.left = left]
<1>2. s \in Request /\ s.pc \in {"tell", "tellLinked"}
  BY <1>1 DEF Request
<1>3. RequestOK(s, invited, given)
  <2>1. /\ s.pc = req[w].pc /\ s.inv = req[w].inv /\ s.who = req[w].who
        /\ s.answer = req[w].answer /\ s.current = req[w].current
    BY <1>1 DEF Request
  <2> HIDE DEF s
  <2> QED
    BY <1>1, <2>1 DEF RequestOK
<1> HIDE DEF s
<1> DEFINE r == TellLinkedOrGoOn(s)
<1>4. r \in Request /\ RequestOK(r, invited, given)
  BY <1>2, <1>3, GoesOn
<1>5. req' = [req EXCEPT ![w] = r]
  BY DEF s
<1> HIDE DEF r
<1>6. req' \in [Workers -> Request] /\ RequestsOK'
  BY <1>4, <1>5, OneRequest DEF historyVars
<1>7. told' \in [Invitations -> [Participants -> ConsultationAnswer]]
  BY <1>1 DEF ConsentInv, TypeOK, Request
<1> QED
  BY <1>6, <1>7, OnlyTheRequest DEF ConsentInv, TypeOK, AskedOK, historyVars

\* Telling the clients of an answer disturbs no invitation.
LEMMA PublishResponseStep ==
  ASSUME ConsentInv, NEW w \in Workers, PublishResponse(w)
  PROVE  ConsentInv'
<1> DEFINE left == IF req[w].current = "Accepted" /\ ~req[w].all THEN {}
                   ELSE LinkedTo[req[w].who]
<1>1. /\ At(w, "tell") /\ ~At(w, "idle")
      /\ told' = [told EXCEPT ![req[w].inv][req[w].who] = req[w].current]
      /\ req' = [req EXCEPT
                   ![w] = TellLinkedOrGoOn([req[w] EXCEPT !.left = left])]
      /\ UNCHANGED <<cache, asked, moved, answered, faults, historyVars>>
  BY DEF PublishResponse, At
<1>2. req[w].who \in Participants
  BY <1>1, CurrentRequest
<1>3. left \in SUBSET Participants
  BY <1>2, ConsultationsAssumption
<1> HIDE DEF left
<1> QED
  BY <1>1, <1>2, <1>3, Telling

\* Nor does telling those of the linked participants.
LEMMA PublishLinkedResponseStep ==
  ASSUME ConsentInv, NEW w \in Workers, PublishLinkedResponse(w)
  PROVE  ConsentInv'
<1>1. /\ At(w, "tellLinked") /\ ~At(w, "idle")
      /\ UNCHANGED <<cache, asked, moved, answered, faults, historyVars>>
  BY DEF PublishLinkedResponse, At
<1>2. PICK p \in req[w].left :
        /\ told' = [told EXCEPT ![req[w].inv][p] = req[w].current]
        /\ req' = [req EXCEPT
                     ![w] = TellLinkedOrGoOn([req[w] EXCEPT !.left = @ \ {p}])]
  BY DEF PublishLinkedResponse
<1>3. req[w] \in Request /\ req[w].left \in SUBSET Participants
  BY <1>1, CurrentRequest DEF Request
<1> DEFINE left == req[w].left \ {p}
<1>4. left \in SUBSET Participants /\ p \in Participants
  BY <1>3
<1>5. req' = [req EXCEPT
                ![w] = TellLinkedOrGoOn([req[w] EXCEPT !.left = left])]
  BY <1>2, <1>3 DEF Request
<1> HIDE DEF left
<1> QED
  BY <1>1, <1>2, <1>4, <1>5, Telling

\* The controller goes on to Transferring only if everyone invited has accepted.
LEMMA DecideStep ==
  ASSUME ConsentInv, NEW w \in Workers, Decide(w)
  PROVE  ConsentInv'
<1>1. /\ At(w, "decide") /\ ~At(w, "idle")
      /\ UNCHANGED <<cache, told, asked, moved, answered, historyVars>>
  BY DEF Decide, At
<1> DEFINE Transferring == [req[w] EXCEPT !.pc = "read", !.current = "Transferring"]
           Calling == [req[w] EXCEPT !.pc = "call"]
<1>2. PICK responses \in {cache[req[w].inv], Missing} :
        /\ Reads(w, responses)
        /\ req' = [req EXCEPT
                     ![w] = IF HaveAllAccepted(responses) THEN Transferring
                            ELSE IF req[w].answer # "Accepted" THEN Calling
                            ELSE Idle]
  BY DEF Decide, ConsentInv, TypeOK
<1>3. /\ req[w] \in Request /\ RequestOK(req[w], invited, given)
      /\ invited[req[w].inv] \in SUBSET Participants /\ req[w].pc = "decide"
  BY <1>1, CurrentRequest DEF At
<1>4. /\ responses \in Responses \cup {Missing}
      /\ responses # Missing =>
           Backing(req[w].inv, responses, invited[req[w].inv], given)
      /\ faults' \in Nat
  BY <1>1, <1>2, ReadIsBacked
<1>5. CASE HaveAllAccepted(responses)
  <2> DEFINE r == Transferring
  <2>1. /\ r.pc = "read" /\ r.inv = req[w].inv /\ r.who = req[w].who
        /\ r.answer = req[w].answer /\ r.current = "Transferring"
    BY <1>3 DEF Request
  <2>2. r \in Request
    BY <1>3 DEF Request, Steps, ConsultationAnswer
  <2>3. AllGave(req[w].inv, invited[req[w].inv], given)
    BY <1>3, <1>4, <1>5, AcceptedByAll
  <2>4. req' = [req EXCEPT ![w] = r]
    BY <1>2, <1>5
  <2> HIDE DEF r
  <2>5. RequestOK(r, invited, given)
    BY <1>3, <2>1, <2>3 DEF RequestOK
  <2> QED
    BY <1>1, <1>4, <2>2, <2>4, <2>5, RequestOnly
<1>6. CASE ~HaveAllAccepted(responses) /\ req[w].answer # "Accepted"
  <2> DEFINE r == Calling
  <2>1. /\ r.pc = "call" /\ r.inv = req[w].inv /\ r.who = req[w].who
        /\ r.answer = req[w].answer /\ r.current = req[w].current
    BY <1>3 DEF Request
  <2>2. r \in Request
    BY <1>3 DEF Request, Steps
  <2>4. req' = [req EXCEPT ![w] = r]
    BY <1>2, <1>6
  <2> HIDE DEF r
  <2>5. RequestOK(r, invited, given)
    BY <1>3, <1>6, <2>1 DEF RequestOK
  <2> QED
    BY <1>1, <1>4, <2>2, <2>4, <2>5, RequestOnly
<1>7. CASE ~HaveAllAccepted(responses) /\ req[w].answer = "Accepted"
  <2>1. req' = [req EXCEPT ![w] = Idle]
    BY <1>2, <1>7
  <2> QED
    BY <1>1, <1>4, <2>1, IdleOK, RequestOnly
<1> QED
  BY <1>5, <1>6, <1>7

\* A call that moves the invited is made only after that decision.
LEMMA CallStep ==
  ASSUME ConsentInv, NEW w \in Workers, Call(w)
  PROVE  ConsentInv'
<1>1. /\ At(w, "call") /\ ~At(w, "idle")
      /\ moved' = IF req[w].answer = "Accepted" THEN moved \cup {req[w].inv} ELSE moved
      /\ req' = [req EXCEPT ![w] = Idle]
      /\ UNCHANGED <<cache, told, asked, answered, faults, historyVars>>
  BY DEF Call, At
<1>2. /\ RequestOK(req[w], invited, given) /\ req[w].inv \in Invitations
      /\ invited[req[w].inv] # {}
      /\ req[w].pc = "call"
  BY <1>1, CurrentRequest DEF At
<1>3. req[w].answer = "Accepted" => AllGave(req[w].inv, invited[req[w].inv], given)
  BY <1>2 DEF RequestOK
<1>4. req' \in [Workers -> Request] /\ RequestsOK'
  BY <1>1, IdleOK, OneRequest DEF historyVars
<1>5. moved' \in SUBSET Invitations
  BY <1>1, <1>2 DEF ConsentInv, TypeOK
<1>6. MovedOK'
  BY <1>1, <1>2, <1>3 DEF ConsentInv, MovedOK, historyVars
<1>7. TypeOK'
  BY <1>1, <1>4, <1>5 DEF ConsentInv, TypeOK, historyVars
<1>8. CacheOK' /\ AskedOK'
  BY <1>1 DEF ConsentInv, CacheOK, AskedOK, historyVars
<1> QED
  BY <1>4, <1>6, <1>7, <1>8 DEF ConsentInv

\* A refused call moves nobody; Failed is written like an answer.
LEMMA CallRefusedStep ==
  ASSUME ConsentInv, NEW w \in Workers, CallRefused(w)
  PROVE  ConsentInv'
<1> DEFINE r == [req[w] EXCEPT !.pc = "read", !.current = "Failed"]
<1>1. /\ At(w, "call") /\ ~At(w, "idle") /\ Fault("VideoApi")
      /\ UNCHANGED <<cache, told, asked, moved, answered, historyVars>>
      /\ req' = [req EXCEPT ![w] = r]
  BY DEF CallRefused, At, ConsentInv, TypeOK
<1>2. /\ req[w] \in Request /\ RequestOK(req[w], invited, given)
      /\ req[w].pc # "idle"
  BY <1>1, CurrentRequest DEF At
<1>3. r \in Request /\ RequestOK(r, invited, given)
  <2>1. /\ r.pc = "read" /\ r.inv = req[w].inv /\ r.who = req[w].who
        /\ r.answer = req[w].answer /\ r.current = "Failed"
    BY <1>2 DEF Request
  <2>2. r \in Request
    BY <1>2 DEF Request, Steps, ConsultationAnswer
  <2> HIDE DEF r
  <2> QED
    BY <1>2, <2>1, <2>2 DEF RequestOK
<1>4. faults' \in Nat
  BY <1>1, FaultCounts DEF ConsentInv
<1> HIDE DEF r
<1> QED
  BY <1>1, <1>3, <1>4, RequestOnly

\* A call that breaks off leaves everything as it is.
LEMMA CallBreaksOffStep ==
  ASSUME ConsentInv, NEW w \in Workers, CallBreaksOff(w)
  PROVE  ConsentInv'
<1>1. /\ Fault("Other")
      /\ UNCHANGED <<cache, told, asked, moved, answered, historyVars>>
      /\ req' = [req EXCEPT ![w] = Idle]
  BY DEF CallBreaksOff
<1>2. faults' \in Nat
  BY <1>1, FaultCounts DEF ConsentInv
<1> QED
  BY <1>1, <1>2, IdleOK, RequestOnly

\* An invitation that expires is backed by nothing.
LEMMA ExpireStep ==
  ASSUME ConsentInv, NEW i \in Invitations, Expire(i)
  PROVE  ConsentInv'
<1>1. /\ Fault("Expiry")
      /\ cache' = [cache EXCEPT ![i] = Missing]
      /\ UNCHANGED <<req, told, asked, moved, answered, historyVars>>
  BY DEF Expire
<1>2. faults' \in Nat
  BY <1>1, FaultCounts DEF ConsentInv
<1>3. TypeOK'
  BY <1>1, <1>2 DEF ConsentInv, TypeOK, historyVars
<1>4. CacheOK'
  BY <1>1 DEF ConsentInv, TypeOK, CacheOK, historyVars
<1>5. MovedOK' /\ AskedOK' /\ RequestsOK'
  BY <1>1 DEF ConsentInv, MovedOK, AskedOK, RequestsOK, historyVars
<1> QED
  BY <1>3, <1>4, <1>5 DEF ConsentInv

-----------------------------------------------------------------------------
\* Every step keeps the invariant.
THEOREM ConsentNext == ConsentInv /\ [Next]_vars => ConsentInv'
<1> SUFFICES ASSUME ConsentInv, [Next]_vars PROVE ConsentInv'
  OBVIOUS
<1>1. CASE UNCHANGED vars
  BY <1>1 DEF vars, historyVars, ConsentInv, TypeOK, CacheOK, MovedOK, AskedOK,
              RequestsOK
<1>2. ASSUME NEW w \in Workers, Handle(w) PROVE ConsentInv'
  BY <1>2, StartTrackingInvitationStep, ShowInvitationStep, ReadInvitationStep,
     WriteResponseStep, CheckAcceptedStep, PublishResponseStep,
     PublishLinkedResponseStep, DecideStep, CallStep, CallRefusedStep,
     CallBreaksOffStep DEF Handle
<1>3. ASSUME NEW w \in Workers, NEW i \in Invitations, NEW p \in Participants,
             Invite(w, i, p)
      PROVE  ConsentInv'
  BY <1>3, InviteStep
<1>4. ASSUME NEW w \in Workers, NEW i \in Invitations, NEW p \in Participants,
             NEW a \in {"Accepted", "Rejected"}, Answer(w, i, p, a)
      PROVE  ConsentInv'
  BY <1>4, AnswerStep
<1>5. ASSUME NEW i \in Invitations, Expire(i) PROVE ConsentInv'
  BY <1>5, ExpireStep
<1> QED
  BY <1>1, <1>2, <1>3, <1>4, <1>5 DEF Next

\* The invariant holds in every behaviour.
LEMMA ConsentAlways == Spec => []ConsentInv
BY ConsentInit, ConsentNext, PTL DEF Spec

\* The variables keep their types, whatever interleaves and fails.
THEOREM ConsultationsTypeCorrect == Spec => []TypeOK
<1>1. ConsentInv => TypeOK
  BY DEF ConsentInv
<1> QED
  BY <1>1, ConsentAlways, PTL

\* Nobody is moved to a consultation who has not accepted the invitation, nor
\* before everyone linked to them has: RespondToConsultationRequestAsync asks
\* the Video API only on a stored invitation in which all have accepted, and no
\* lost write, failed read or expiry puts an acceptance there.
THEOREM OnlyTheAskedAreMoved == Spec => []NobodyIsMovedUnasked
<1>1. ConsentInv => NobodyIsMovedUnasked
  BY DEF ConsentInv, MovedOK, AllGave, HasAccepted, NobodyIsMovedUnasked
<1> QED
  BY <1>1, ConsentAlways, PTL

-----------------------------------------------------------------------------
(***************************************************************************)
(* What a step does, to the answers and to the invitations in the cache:   *)
(* the facts the later invariants need of each action.                     *)
(***************************************************************************)

Fails(kind) == kind \in Failures /\ faults' = faults + 1

\* The other requests stay as they are; this one stays the answer it is.
OthersStay(w) == \A v \in Workers : v # w => req[v]' = req[v]
SameAnswer(w) ==
  /\ req[w]'.inv = req[w].inv /\ req[w]'.who = req[w].who
  /\ req[w]'.answer = req[w].answer

Invites(w) ==
  /\ OthersStay(w) /\ req[w].pc = "idle" /\ req[w]'.pc = "track"
  /\ \E i \in Invitations :
       /\ invited[i] = {} /\ asked[i] = {} /\ req[w]'.inv = i
       /\ \A j \in Invitations : j # i => invited[j]' = invited[j]
  /\ UNCHANGED <<cache, told, asked, moved, latest, overlapped, faults>>

Tracks(w) ==
  /\ OthersStay(w) /\ req[w].pc = "track" /\ req[w]'.pc = "ask"
  /\ req[w]'.inv = req[w].inv /\ req[w].who \in Participants
  /\ cache'[req[w].inv] = Create(req[w].who) \/ (Fails("Write") /\ UNCHANGED cache)
  /\ \A j \in Invitations : j # req[w].inv => cache[j]' = cache[j]
  /\ faults' = faults \/ faults' = faults + 1
  /\ UNCHANGED <<told, asked, moved, latest, overlapped, invited>>

Shows(w) ==
  /\ OthersStay(w) /\ req[w].pc = "ask"
  /\ req[w]'.pc = "idle" \/ (req[w]'.pc = "ask" /\ req[w]'.inv = req[w].inv)
  /\ \A j \in Invitations : j # req[w].inv => asked[j]' = asked[j]
  /\ UNCHANGED <<cache, told, moved, latest, overlapped, faults, invited>>

Answers(w) ==
  /\ OthersStay(w) /\ req[w].pc = "idle" /\ req[w]'.pc = "read"
  /\ \E i \in Invitations, p \in Participants, a \in {"Accepted", "Rejected"} :
       /\ p \in asked[i]
       /\ req[w]'.inv = i /\ req[w]'.who = p /\ req[w]'.answer = a /\ req[w]'.current = a
       /\ \A j \in Invitations, q \in Participants :
            latest[j]'[q] = IF j = i /\ q = p THEN a ELSE latest[j][q]
       /\ overlapped \subseteq overlapped'
       /\ (\E v \in Workers : RespondsTo(v, i)) => i \in overlapped'
  /\ UNCHANGED <<cache, told, asked, moved, faults, invited>>

ReadsIt(w) ==
  /\ OthersStay(w) /\ SameAnswer(w) /\ req[w].pc = "read"
  /\ req[w]'.current = req[w].current
  /\ \/ /\ cache[req[w].inv] # Missing /\ req[w]'.pc = "write"
        /\ req[w]'.copy = cache[req[w].inv] /\ faults' = faults
     \/ /\ req[w]'.pc = "check"
        /\ \/ cache[req[w].inv] = Missing /\ faults' = faults
           \/ Fails("Read")
  /\ UNCHANGED <<cache, told, asked, moved, latest, overlapped, invited>>

WritesIt(w) ==
  /\ OthersStay(w) /\ SameAnswer(w) /\ req[w].pc = "write" /\ req[w]'.pc = "check"
  /\ req[w]'.current = req[w].current
  /\ \/ /\ cache'[req[w].inv] # Missing
        /\ \A q \in Participants :
             cache'[req[w].inv][q] = IF q = req[w].who THEN req[w].current ELSE req[w].copy[q]
        /\ faults' = faults
     \/ Fails("Write") /\ UNCHANGED cache
  /\ \A j \in Invitations : j # req[w].inv => cache[j]' = cache[j]
  /\ UNCHANGED <<told, asked, moved, latest, overlapped, invited>>

Checks(w) ==
  /\ OthersStay(w) /\ SameAnswer(w) /\ req[w].pc = "check" /\ req[w]'.pc = "tell"
  /\ req[w]'.current = req[w].current
  /\ faults' = faults \/ Fails("Read")
  /\ UNCHANGED <<cache, told, asked, moved, latest, overlapped, invited>>

\* What follows when these are left to be told.
TellsOn(w, left) ==
  \/ left # {} /\ req[w]'.pc = "tellLinked" /\ req[w]'.left = left
  \/ left = {} /\ req[w].current = "Transferring" /\ req[w]'.pc = "call"
  \/ left = {} /\ req[w].current = "Failed" /\ req[w]'.pc = "idle"
  \/ /\ left = {} /\ req[w].current \notin {"Transferring", "Failed"}
     /\ req[w]'.pc = "decide"

TellsIt(w) ==
  /\ OthersStay(w) /\ req[w].pc \in {"tell", "tellLinked"}
  /\ req[w]'.pc # "idle" => SameAnswer(w) /\ req[w]'.current = req[w].current
  /\ \E p \in Participants, left \in SUBSET Participants :
       /\ \A j \in Invitations, q \in Participants :
            told[j]'[q] = IF j = req[w].inv /\ q = p THEN req[w].current ELSE told[j][q]
       /\ req[w].pc = "tell" =>
            p = req[w].who /\ (req[w].current # "Accepted" => left = LinkedTo[p])
       /\ req[w].pc = "tellLinked" => p \in req[w].left /\ left = req[w].left \ {p}
       /\ TellsOn(w, left)
  /\ UNCHANGED <<cache, asked, moved, latest, overlapped, faults, invited>>

Decides(w) ==
  /\ OthersStay(w) /\ req[w].pc = "decide"
  /\ faults' = faults \/ Fails("Read")
  /\ \/ /\ HaveAllAccepted(cache[req[w].inv]) /\ req[w]'.pc = "read"
        /\ SameAnswer(w) /\ req[w]'.current = "Transferring"
     \/ /\ req[w].answer # "Accepted" /\ req[w]'.pc = "call"
        /\ SameAnswer(w) /\ req[w]'.current = req[w].current
     \/ req[w]'.pc = "idle"
  /\ UNCHANGED <<cache, told, asked, moved, latest, overlapped, invited>>

Calls(w) ==
  /\ OthersStay(w) /\ req[w].pc = "call"
  /\ \/ /\ req[w]'.pc = "idle" /\ faults' = faults
        /\ moved' = IF req[w].answer = "Accepted" THEN moved \cup {req[w].inv} ELSE moved
     \/ /\ req[w]'.pc = "read" /\ SameAnswer(w) /\ req[w]'.current = "Failed"
        /\ moved' = moved /\ Fails("VideoApi")
     \/ req[w]'.pc = "idle" /\ moved' = moved /\ Fails("Other")
  /\ UNCHANGED <<cache, told, asked, latest, overlapped, invited>>

Expires ==
  /\ Fails("Expiry")
  /\ \E i \in Invitations :
       cache[i]' = Missing /\ \A j \in Invitations : j # i => cache[j]' = cache[j]
  /\ UNCHANGED <<req, told, asked, moved, latest, overlapped, invited>>

\* What a step does.
ConsentMove ==
  \/ Expires
  \/ \E w \in Workers :
       \/ Invites(w) \/ Tracks(w) \/ Shows(w) \/ Answers(w) \/ ReadsIt(w) \/ WritesIt(w)
       \/ Checks(w) \/ TellsIt(w) \/ Decides(w) \/ Calls(w)

LEMMA InvitesIs ==
  ASSUME ConsentInv, NEW w \in Workers, NEW i \in Invitations, NEW p \in Participants,
         Invite(w, i, p)
  PROVE  Invites(w)
<1>1. PICK r : r = [Idle EXCEPT !.pc = "track", !.inv = i, !.who = p]
  OBVIOUS
<1>2. r.pc = "track" /\ r.inv = i
  BY <1>1 DEF Idle
<1>3. /\ invited[i] = {} /\ invited' = [invited EXCEPT ![i] = Group(p)]
      /\ req' = [req EXCEPT ![w] = r] /\ req[w].pc = "idle"
      /\ UNCHANGED <<cache, told, asked, moved, latest, overlapped, faults>>
  BY <1>1 DEF Invite, At
<1>4. req[w]' = r /\ OthersStay(w)
  BY <1>3 DEF OthersStay, ConsentInv, TypeOK
<1>5. asked[i] = {} /\ \A j \in Invitations : j # i => invited[j]' = invited[j]
  BY <1>3 DEF ConsentInv, AskedOK, TypeOK
<1> QED
  BY <1>2, <1>3, <1>4, <1>5 DEF Invites

LEMMA TracksIs ==
  ASSUME ConsentInv, NEW w \in Workers, StartTrackingInvitation(w)
  PROVE  Tracks(w)
<1>1. /\ req[w] \in Request /\ req[w].pc = "track" /\ req[w].inv \in Invitations
      /\ req[w].who \in Participants
  BY CurrentRequest DEF StartTrackingInvitation, At
<1>2. PICK r : r = [req[w] EXCEPT !.pc = "ask", !.left = Group(req[w].who)]
  OBVIOUS
<1>3. r.pc = "ask" /\ r.inv = req[w].inv
  BY <1>1, <1>2 DEF Request
<1>4. req' = [req EXCEPT ![w] = r]
  BY <1>2 DEF StartTrackingInvitation, ConsentInv, TypeOK
<1>5. req[w]' = r /\ OthersStay(w)
  BY <1>4 DEF OthersStay, ConsentInv, TypeOK
<1>6. /\ \/ cache' = [cache EXCEPT ![req[w].inv] = Create(req[w].who)] /\ UNCHANGED faults
         \/ Fails("Write") /\ UNCHANGED cache
      /\ UNCHANGED <<told, asked, moved, latest, overlapped, invited>>
  BY DEF StartTrackingInvitation, Fault, Fails, historyVars
<1>7. cache \in [Invitations -> Responses \cup {Missing}]
  BY DEF ConsentInv, TypeOK
<1>8. /\ cache'[req[w].inv] = Create(req[w].who) \/ (Fails("Write") /\ UNCHANGED cache)
      /\ \A j \in Invitations : j # req[w].inv => cache[j]' = cache[j]
      /\ faults' = faults \/ faults' = faults + 1
  BY <1>1, <1>6, <1>7 DEF Fails
<1> QED
  BY <1>1, <1>3, <1>5, <1>6, <1>8 DEF Tracks

LEMMA ShowsIs ==
  ASSUME ConsentInv, NEW w \in Workers, ShowInvitation(w)
  PROVE  Shows(w)
<1>1. /\ req[w] \in Request /\ req[w].pc = "ask" /\ req[w].inv \in Invitations
  BY CurrentRequest DEF ShowInvitation, At
<1>2. PICK p \in req[w].left :
        /\ asked' = [asked EXCEPT ![req[w].inv] = @ \cup {p}]
        /\ req' = [req EXCEPT ![w] = IF req[w].left = {p} THEN Idle
                                     ELSE [req[w] EXCEPT !.left = @ \ {p}]]
        /\ UNCHANGED <<cache, told, moved, latest, overlapped, faults, invited>>
  BY DEF ShowInvitation, historyVars
<1>3. PICK r : r = IF req[w].left = {p} THEN Idle ELSE [req[w] EXCEPT !.left = @ \ {p}]
  OBVIOUS
<1>4. r.pc = "idle" \/ (r.pc = "ask" /\ r.inv = req[w].inv)
  BY <1>1, <1>3 DEF Request, Idle
<1>5. req[w]' = r /\ OthersStay(w)
  BY <1>2, <1>3 DEF OthersStay, ConsentInv, TypeOK
<1>6. \A j \in Invitations : j # req[w].inv => asked[j]' = asked[j]
  BY <1>2 DEF ConsentInv, TypeOK
<1> QED
  BY <1>1, <1>2, <1>4, <1>5, <1>6 DEF Shows

LEMMA AnswersIs ==
  ASSUME ConsentInv, NEW w \in Workers, NEW i \in Invitations, NEW p \in Participants,
         NEW a \in {"Accepted", "Rejected"}, Answer(w, i, p, a)
  PROVE  Answers(w)
<1>1. PICK r : r = [Idle EXCEPT !.pc = "read", !.inv = i, !.who = p,
                                !.answer = a, !.current = a]
  OBVIOUS
<1>2. r.pc = "read" /\ r.inv = i /\ r.who = p /\ r.answer = a /\ r.current = a
  BY <1>1 DEF Idle
<1>3. /\ req' = [req EXCEPT ![w] = r] /\ req[w].pc = "idle" /\ p \in asked[i]
      /\ latest' = [latest EXCEPT ![i][p] = a]
      /\ overlapped' = IF \E v \in Workers : RespondsTo(v, i)
                         THEN overlapped \cup {i} ELSE overlapped
      /\ UNCHANGED <<cache, told, asked, moved, faults, invited>>
  BY <1>1 DEF Answer, At
<1>4. req[w]' = r /\ OthersStay(w)
  BY <1>3 DEF OthersStay, ConsentInv, TypeOK
<1>5. \A j \in Invitations, q \in Participants :
        latest[j]'[q] = IF j = i /\ q = p THEN a ELSE latest[j][q]
  BY <1>3 DEF ConsentInv, TypeOK
<1>6. /\ overlapped \subseteq overlapped'
      /\ (\E v \in Workers : RespondsTo(v, i)) => i \in overlapped'
  BY <1>3
<1> QED
  BY <1>2, <1>3, <1>4, <1>5, <1>6 DEF Answers

LEMMA ReadsItIs ==
  ASSUME ConsentInv, NEW w \in Workers, ReadInvitation(w)
  PROVE  ReadsIt(w)
<1>1. /\ req[w] \in Request /\ req[w].pc = "read"
  BY CurrentRequest DEF ReadInvitation, At
<1>2. PICK responses :
        /\ Reads(w, responses)
        /\ req' = [req EXCEPT ![w].copy = responses,
                     ![w].pc = IF responses = Missing THEN "check" ELSE "write"]
        /\ UNCHANGED <<cache, told, asked, moved, latest, overlapped, invited>>
  BY DEF ReadInvitation, historyVars
<1>3. PICK r : r = [req[w] EXCEPT !.copy = responses,
                          !.pc = IF responses = Missing THEN "check" ELSE "write"]
  OBVIOUS
<1>4. /\ r.pc = IF responses = Missing THEN "check" ELSE "write"
      /\ r.copy = responses /\ r.inv = req[w].inv /\ r.who = req[w].who
      /\ r.answer = req[w].answer /\ r.current = req[w].current
  BY <1>1, <1>3 DEF Request
<1>5. req' = [req EXCEPT ![w] = r]
  BY <1>2, <1>3 DEF ConsentInv, TypeOK
<1>6. req[w]' = r /\ OthersStay(w)
  BY <1>5 DEF OthersStay, ConsentInv, TypeOK
<1>7. \/ responses = cache[req[w].inv] /\ faults' = faults
      \/ responses = Missing /\ Fails("Read")
  BY <1>2 DEF Reads, Fault, Fails
<1> QED
  BY <1>1, <1>2, <1>4, <1>6, <1>7 DEF ReadsIt, SameAnswer

LEMMA WritesItIs ==
  ASSUME ConsentInv, NEW w \in Workers, WriteResponse(w)
  PROVE  WritesIt(w)
<1>1. /\ req[w] \in Request /\ req[w].pc = "write" /\ req[w].inv \in Invitations
      /\ req[w].who \in Participants
      /\ req[w].copy # Missing
  BY CurrentRequest DEF WriteResponse, At, RequestOK
<1>2. PICK r : r = [req[w] EXCEPT !.pc = "check"]
  OBVIOUS
<1>3. /\ r.pc = "check" /\ r.inv = req[w].inv /\ r.who = req[w].who
      /\ r.answer = req[w].answer /\ r.current = req[w].current
  BY <1>1, <1>2 DEF Request
<1>4. req' = [req EXCEPT ![w] = r]
  BY <1>2 DEF WriteResponse, ConsentInv, TypeOK
<1>5. req[w]' = r /\ OthersStay(w)
  BY <1>4 DEF OthersStay, ConsentInv, TypeOK
<1>6. PICK c : c = [req[w].copy EXCEPT ![req[w].who] = req[w].current]
  OBVIOUS
<1>7. req[w].copy \in Responses /\ req[w].current \in ConsultationAnswer
  BY <1>1 DEF Request
<1>7a. c # Missing
  <2>1. c \in Responses
    BY <1>6, <1>7 DEF Responses
  <2> QED
    BY <2>1, MissingAssumption
<1>8. \A q \in Participants :
        c[q] = IF q = req[w].who THEN req[w].current ELSE req[w].copy[q]
  BY <1>1, <1>6, <1>7 DEF Responses
<1>9. /\ \/ cache' = [cache EXCEPT ![req[w].inv] = c] /\ faults' = faults
         \/ Fails("Write") /\ UNCHANGED cache
      /\ UNCHANGED <<told, asked, moved, latest, overlapped, invited>>
  BY <1>6 DEF WriteResponse, Fault, Fails, historyVars
<1>10. cache \in [Invitations -> Responses \cup {Missing}]
  BY DEF ConsentInv, TypeOK
<1>11. CASE cache' = [cache EXCEPT ![req[w].inv] = c] /\ faults' = faults
  <2>1. cache'[req[w].inv] = c /\ \A j \in Invitations : j # req[w].inv => cache[j]' = cache[j]
    BY <1>1, <1>10, <1>11
  <2> QED
    BY <1>1, <1>3, <1>5, <1>8, <1>9, <1>11, <1>7a, <2>1 DEF WritesIt, SameAnswer
<1>12. CASE Fails("Write") /\ UNCHANGED cache
  BY <1>1, <1>3, <1>5, <1>9, <1>12 DEF WritesIt, SameAnswer
<1> QED
  BY <1>9, <1>11, <1>12

LEMMA ChecksIs ==
  ASSUME ConsentInv, NEW w \in Workers, CheckAccepted(w)
  PROVE  Checks(w)
<1>1. /\ req[w] \in Request /\ req[w].pc = "check"
  BY CurrentRequest DEF CheckAccepted, At
<1>2. PICK responses :
        /\ Reads(w, responses)
        /\ req' = [req EXCEPT ![w].all = HaveAllAccepted(responses), ![w].pc = "tell"]
        /\ UNCHANGED <<cache, told, asked, moved, latest, overlapped, invited>>
  BY DEF CheckAccepted, historyVars
<1>3. PICK b : b = HaveAllAccepted(responses)
  OBVIOUS
<1>4. PICK r : r = [req[w] EXCEPT !.all = b, !.pc = "tell"]
  OBVIOUS
<1>5. /\ r.pc = "tell" /\ r.inv = req[w].inv /\ r.who = req[w].who
      /\ r.answer = req[w].answer /\ r.current = req[w].current
  BY <1>1, <1>4 DEF Request
<1>6. req' = [req EXCEPT ![w] = r]
  BY <1>2, <1>3, <1>4 DEF ConsentInv, TypeOK
<1>7. req[w]' = r /\ OthersStay(w)
  BY <1>6 DEF OthersStay, ConsentInv, TypeOK
<1>8. faults' = faults \/ Fails("Read")
  BY <1>2 DEF Reads, Fault, Fails
<1> QED
  BY <1>1, <1>2, <1>5, <1>7, <1>8 DEF Checks, SameAnswer

\* What follows a message to these who are left.
LEMMA TellsOnIs ==
  ASSUME ConsentInv, NEW w \in Workers, req[w].pc \in {"tell", "tellLinked"},
         NEW left \in SUBSET Participants,
         req' = [req EXCEPT ![w] = TellLinkedOrGoOn([req[w] EXCEPT !.left = left])]
  PROVE  /\ TellsOn(w, left) /\ OthersStay(w)
         /\ req[w]'.pc # "idle" => SameAnswer(w) /\ req[w]'.current = req[w].current
<1>1. req[w] \in Request
  BY DEF ConsentInv, TypeOK
<1>2. PICK s : s = [req[w] EXCEPT !.left = left]
  OBVIOUS
<1>3. /\ s \in Request /\ s.left = left /\ s.inv = req[w].inv /\ s.who = req[w].who
      /\ s.answer = req[w].answer /\ s.current = req[w].current
  BY <1>1, <1>2 DEF Request
<1>4. PICK r : r = TellLinkedOrGoOn(s)
  OBVIOUS
<1>5. req' = [req EXCEPT ![w] = r]
  BY <1>2, <1>4
<1>6. req[w]' = r /\ OthersStay(w)
  BY <1>5 DEF OthersStay, ConsentInv, TypeOK
<1> DEFINE Follows ==
     /\ \/ left # {} /\ r.pc = "tellLinked" /\ r.left = left
        \/ left = {} /\ req[w].current = "Transferring" /\ r.pc = "call"
        \/ left = {} /\ req[w].current = "Failed" /\ r.pc = "idle"
        \/ left = {} /\ req[w].current \notin {"Transferring", "Failed"} /\ r.pc = "decide"
     /\ r.pc # "idle" =>
          /\ r.inv = req[w].inv /\ r.who = req[w].who
          /\ r.answer = req[w].answer /\ r.current = req[w].current
<1>7. ASSUME left # {} PROVE Follows
  <2>1. r = [s EXCEPT !.pc = "tellLinked"]
    BY <1>3, <1>4, <1>7 DEF TellLinkedOrGoOn
  <2>2. /\ r.pc = "tellLinked" /\ r.left = left /\ r.inv = s.inv /\ r.who = s.who
        /\ r.answer = s.answer /\ r.current = s.current
    BY <1>3, <2>1 DEF Request
  <2> QED
    BY <1>3, <1>7, <2>2
<1>8. ASSUME left = {} /\ req[w].current = "Transferring" PROVE Follows
  <2>1. r = [s EXCEPT !.pc = "call", !.left = {}]
    BY <1>3, <1>4, <1>8 DEF TellLinkedOrGoOn, AfterNotify
  <2>2. /\ r.pc = "call" /\ r.inv = s.inv /\ r.who = s.who
        /\ r.answer = s.answer /\ r.current = s.current
    BY <1>3, <2>1 DEF Request
  <2> QED
    BY <1>3, <1>8, <2>2
<1>9. ASSUME left = {} /\ req[w].current = "Failed" PROVE Follows
  <2>1. r = Idle
    BY <1>3, <1>4, <1>9 DEF TellLinkedOrGoOn, AfterNotify
  <2>2. r.pc = "idle"
    BY <2>1 DEF Idle
  <2> QED
    BY <1>9, <2>2
<1>10. ASSUME left = {} /\ req[w].current \notin {"Transferring", "Failed"} PROVE Follows
  <2>1. r = [s EXCEPT !.pc = "decide", !.left = {}]
    BY <1>3, <1>4, <1>10 DEF TellLinkedOrGoOn, AfterNotify
  <2>2. /\ r.pc = "decide" /\ r.inv = s.inv /\ r.who = s.who
        /\ r.answer = s.answer /\ r.current = s.current
    BY <1>3, <2>1 DEF Request
  <2> QED
    BY <1>3, <1>10, <2>2
<1>11. Follows
  BY <1>7, <1>8, <1>9, <1>10
<1> QED
  BY <1>6, <1>11 DEF TellsOn, SameAnswer

LEMMA TellsItIs ==
  ASSUME ConsentInv, NEW w \in Workers, PublishResponse(w) \/ PublishLinkedResponse(w)
  PROVE  TellsIt(w)
<1>1. /\ req[w] \in Request /\ req[w].pc \in {"tell", "tellLinked"}
      /\ req[w].inv \in Invitations /\ req[w].who \in Participants
  BY CurrentRequest DEF PublishResponse, PublishLinkedResponse, At
<1>2. told \in [Invitations -> [Participants -> ConsultationAnswer]]
  BY DEF ConsentInv, TypeOK
<1>3. PICK p \in Participants, left \in SUBSET Participants :
        /\ told' = [told EXCEPT ![req[w].inv][p] = req[w].current]
        /\ req' = [req EXCEPT ![w] = TellLinkedOrGoOn([req[w] EXCEPT !.left = left])]
        /\ req[w].pc = "tell" =>
             p = req[w].who /\ (req[w].current # "Accepted" => left = LinkedTo[p])
        /\ req[w].pc = "tellLinked" => p \in req[w].left /\ left = req[w].left \ {p}
        /\ UNCHANGED <<cache, asked, moved, latest, overlapped, faults, invited>>
  <2>1. CASE PublishResponse(w)
    <3>1. PICK left :
            /\ left = IF req[w].current = "Accepted" /\ ~req[w].all THEN {}
                      ELSE LinkedTo[req[w].who]
      OBVIOUS
    <3>2. left \in SUBSET Participants
      BY <1>1, <3>1, ConsultationsAssumption
    <3>3. /\ told' = [told EXCEPT ![req[w].inv][req[w].who] = req[w].current]
          /\ req' = [req EXCEPT ![w] = TellLinkedOrGoOn([req[w] EXCEPT !.left = left])]
          /\ req[w].pc = "tell"
          /\ UNCHANGED <<cache, asked, moved, latest, overlapped, faults, invited>>
      BY <2>1, <3>1 DEF PublishResponse, At, historyVars
    <3> QED
      BY <1>1, <3>1, <3>2, <3>3
  <2>2. CASE PublishLinkedResponse(w)
    <3>1. PICK p \in req[w].left :
            /\ told' = [told EXCEPT ![req[w].inv][p] = req[w].current]
            /\ req' = [req EXCEPT
                         ![w] = TellLinkedOrGoOn([req[w] EXCEPT !.left = @ \ {p}])]
            /\ req[w].pc = "tellLinked"
            /\ UNCHANGED <<cache, asked, moved, latest, overlapped, faults, invited>>
      BY <2>2 DEF PublishLinkedResponse, At, historyVars
    <3>2. req[w].left \in SUBSET Participants
      BY <1>1 DEF Request
    <3>3. PICK left : left = req[w].left \ {p}
      OBVIOUS
    <3>4. [req[w] EXCEPT !.left = @ \ {p}] = [req[w] EXCEPT !.left = left]
      BY <1>1, <3>3 DEF Request
    <3>5. req' = [req EXCEPT ![w] = TellLinkedOrGoOn([req[w] EXCEPT !.left = left])]
      BY <3>1, <3>4
    <3>6. p \in Participants /\ left \in SUBSET Participants /\ req[w].pc # "tell"
      BY <3>1, <3>2, <3>3
    <3> QED
      BY <3>1, <3>3, <3>5, <3>6
  <2> QED
    BY <2>1, <2>2
<1>4. \A j \in Invitations, q \in Participants :
        told[j]'[q] = IF j = req[w].inv /\ q = p THEN req[w].current ELSE told[j][q]
  BY <1>1, <1>2, <1>3
<1>5. /\ TellsOn(w, left) /\ OthersStay(w)
      /\ req[w]'.pc # "idle" => SameAnswer(w) /\ req[w]'.current = req[w].current
  BY <1>1, <1>3, TellsOnIs
<1> QED
  BY <1>1, <1>3, <1>4, <1>5 DEF TellsIt

LEMMA DecidesIs ==
  ASSUME ConsentInv, NEW w \in Workers, Decide(w)
  PROVE  Decides(w)
<1>1. /\ req[w] \in Request /\ req[w].pc = "decide"
  BY CurrentRequest DEF Decide, At
<1>2. PICK t : t = [req[w] EXCEPT !.pc = "read", !.current = "Transferring"]
  OBVIOUS
<1>3. PICK c : c = [req[w] EXCEPT !.pc = "call"]
  OBVIOUS
<1>4. PICK responses :
        /\ Reads(w, responses)
        /\ req' = [req EXCEPT
                     ![w] = IF HaveAllAccepted(responses) THEN t
                            ELSE IF req[w].answer # "Accepted" THEN c
                            ELSE Idle]
        /\ UNCHANGED <<cache, told, asked, moved, latest, overlapped, invited>>
  BY <1>2, <1>3 DEF Decide, ConsentInv, TypeOK, historyVars
<1>5. /\ t.pc = "read" /\ t.inv = req[w].inv /\ t.who = req[w].who
      /\ t.answer = req[w].answer /\ t.current = "Transferring"
  BY <1>1, <1>2 DEF Request
<1>6. /\ c.pc = "call" /\ c.inv = req[w].inv /\ c.who = req[w].who
      /\ c.answer = req[w].answer /\ c.current = req[w].current
  BY <1>1, <1>3 DEF Request
<1>7. PICK r : r = IF HaveAllAccepted(responses) THEN t
                   ELSE IF req[w].answer # "Accepted" THEN c ELSE Idle
  OBVIOUS
<1>8. req[w]' = r /\ OthersStay(w)
  BY <1>4, <1>7 DEF OthersStay, ConsentInv, TypeOK
<1>9. \/ responses = cache[req[w].inv] /\ faults' = faults
      \/ responses = Missing /\ Fails("Read")
  BY <1>4 DEF Reads, Fault, Fails
<1>10. HaveAllAccepted(responses) => responses = cache[req[w].inv]
  BY <1>9 DEF HaveAllAccepted
<1>11. Idle.pc = "idle"
  BY DEF Idle
<1>12. \/ /\ HaveAllAccepted(cache[req[w].inv]) /\ req[w]'.pc = "read"
          /\ SameAnswer(w) /\ req[w]'.current = "Transferring"
       \/ /\ req[w].answer # "Accepted" /\ req[w]'.pc = "call"
          /\ SameAnswer(w) /\ req[w]'.current = req[w].current
       \/ req[w]'.pc = "idle"
  <2>1. CASE HaveAllAccepted(responses)
    BY <1>5, <1>7, <1>8, <1>10, <2>1 DEF SameAnswer
  <2>2. CASE ~HaveAllAccepted(responses)
    BY <1>6, <1>7, <1>8, <1>11, <2>2 DEF SameAnswer
  <2> QED
    BY <2>1, <2>2
<1> QED
  BY <1>1, <1>4, <1>8, <1>9, <1>12 DEF Decides

LEMMA CallsIs ==
  ASSUME ConsentInv, NEW w \in Workers, Call(w) \/ CallRefused(w) \/ CallBreaksOff(w)
  PROVE  Calls(w)
<1>1. /\ req[w] \in Request /\ req[w].pc = "call"
  BY CurrentRequest DEF Call, CallRefused, CallBreaksOff, At
<1>2. PICK t : t = [req[w] EXCEPT !.pc = "read", !.current = "Failed"]
  OBVIOUS
<1>3. /\ t.pc = "read" /\ t.inv = req[w].inv /\ t.who = req[w].who
      /\ t.answer = req[w].answer /\ t.current = "Failed" /\ Idle.pc = "idle"
  BY <1>1, <1>2 DEF Request, Idle
<1>4. CASE Call(w) \/ CallBreaksOff(w)
  <2>1. req' = [req EXCEPT ![w] = Idle]
    BY <1>4 DEF Call, CallBreaksOff
  <2>2. req[w]' = Idle /\ OthersStay(w)
    BY <2>1 DEF OthersStay, ConsentInv, TypeOK
  <2> QED
    BY <1>1, <1>3, <1>4, <2>2 DEF Call, CallBreaksOff, Calls, Fault, Fails, historyVars
<1>5. CASE CallRefused(w)
  <2>1. req' = [req EXCEPT ![w] = t]
    BY <1>2, <1>5 DEF CallRefused, ConsentInv, TypeOK
  <2>2. req[w]' = t /\ OthersStay(w)
    BY <2>1 DEF OthersStay, ConsentInv, TypeOK
  <2> QED
    BY <1>1, <1>3, <1>5, <2>2 DEF CallRefused, Calls, Fault, Fails, historyVars, SameAnswer
<1> QED
  BY <1>4, <1>5

LEMMA ExpiresIs ==
  ASSUME ConsentInv, NEW i \in Invitations, Expire(i)
  PROVE  Expires
<1>1. cache' = [cache EXCEPT ![i] = Missing]
  BY DEF Expire
<1>2. cache[i]' = Missing /\ \A j \in Invitations : j # i => cache[j]' = cache[j]
  BY <1>1 DEF ConsentInv, TypeOK
<1> QED
  BY <1>2 DEF Expire, Expires, Fault, Fails, historyVars

LEMMA ConsentMoves ==
  ASSUME ConsentInv, Next
  PROVE  ConsentMove
<1>1. ASSUME NEW w \in Workers, Handle(w) PROVE ConsentMove
  BY <1>1, TracksIs, ShowsIs, ReadsItIs, WritesItIs, ChecksIs, TellsItIs, DecidesIs, CallsIs
    DEF Handle, ConsentMove
<1>2. ASSUME NEW w \in Workers, NEW i \in Invitations, NEW p \in Participants,
             Invite(w, i, p) \/ \E a \in {"Accepted", "Rejected"} : Answer(w, i, p, a)
      PROVE  ConsentMove
  BY <1>2, InvitesIs, AnswersIs DEF ConsentMove
<1>3. ASSUME NEW i \in Invitations, Expire(i) PROVE ConsentMove
  BY <1>3, ExpiresIs DEF ConsentMove
<1> QED
  BY <1>1, <1>2, <1>3 DEF Next

-----------------------------------------------------------------------------
(***************************************************************************)
(* Answers that count.  While nothing has failed and the answers to an     *)
(* invitation come one at a time, an acceptance in the cache is its        *)
(* participant's last answer.                                              *)
(***************************************************************************)

Responds(w) == req[w].pc \in Responding

\* An invitation that is being stored is new: nobody has been asked, and no
\* other request is about it.
NewIsAlone ==
  \A w \in Workers : req[w].pc = "track" =>
    /\ asked[req[w].inv] = {}
    /\ \A v \in Workers : req[v].pc # "idle" /\ req[v].inv = req[w].inv => v = w

\* Unless answers overlapped, one request at a time is about an answer.
OneResponds ==
  \A v, w \in Workers :
    Responds(v) /\ Responds(w) /\ req[v].inv = req[w].inv
      /\ req[w].inv \notin overlapped => v = w

\* A request says what it was sent with, Transferring or Failed.
CurrentOK ==
  \A w \in Workers : Responds(w) =>
    /\ req[w].answer \in {"Accepted", "Rejected"}
    /\ req[w].current \in {req[w].answer, "Transferring", "Failed"}
    /\ req[w].pc = "decide" => req[w].current = req[w].answer

AnswersApart == NewIsAlone /\ OneResponds /\ CurrentOK

LEMMA RespondsIs == \A w \in Workers : \A i :
  RespondsTo(w, i) <=> Responds(w) /\ req[w].inv = i
BY DEF RespondsTo, Responds

LEMMA NewIsAloneStep ==
  ASSUME ConsentInv, NewIsAlone, ConsentMove
  PROVE  NewIsAlone'
<1> SUFFICES ASSUME NEW w \in Workers, req[w]'.pc = "track"
             PROVE  /\ asked'[req[w]'.inv] = {}
                    /\ \A v \in Workers :
                         req[v]'.pc # "idle" /\ req[v]'.inv = req[w]'.inv => v = w
  BY DEF NewIsAlone
<1>0. \A v \in Workers : req[v].pc # "idle" =>
        req[v].inv \in Invitations /\ invited[req[v].inv] # {}
  BY DEF ConsentInv, RequestsOK, RequestOK
<1>1. CASE Expires
  BY <1>1 DEF Expires, NewIsAlone
<1> SUFFICES ASSUME NEW u \in Workers,
       \/ Invites(u) \/ Tracks(u) \/ Shows(u) \/ Answers(u) \/ ReadsIt(u) \/ WritesIt(u)
       \/ Checks(u) \/ TellsIt(u) \/ Decides(u) \/ Calls(u)
             PROVE /\ asked'[req[w]'.inv] = {}
                   /\ \A v \in Workers :
                         req[v]'.pc # "idle" /\ req[v]'.inv = req[w]'.inv => v = w
  BY <1>1 DEF ConsentMove
<1>2. CASE Invites(u)
  BY <1>0, <1>2 DEF Invites, OthersStay, NewIsAlone
<1>3. CASE Tracks(u)
  BY <1>0, <1>3 DEF Tracks, OthersStay, NewIsAlone
<1>4. CASE Shows(u)
  BY <1>0, <1>4 DEF Shows, OthersStay, NewIsAlone
<1>5. CASE Answers(u)
  BY <1>0, <1>5 DEF Answers, OthersStay, NewIsAlone
<1>6. CASE ReadsIt(u) \/ WritesIt(u) \/ Checks(u) \/ Decides(u) \/ Calls(u)
  BY <1>0, <1>6 DEF ReadsIt, WritesIt, Checks, Decides, Calls, OthersStay, SameAnswer, NewIsAlone
<1>7. CASE TellsIt(u)
  BY <1>0, <1>7 DEF TellsIt, TellsOn, OthersStay, SameAnswer, NewIsAlone
<1> QED
  BY <1>2, <1>3, <1>4, <1>5, <1>6, <1>7

LEMMA OneRespondsStep ==
  ASSUME ConsentInv, OneResponds, ConsentMove
  PROVE  OneResponds'
<1> SUFFICES ASSUME NEW v \in Workers, NEW w \in Workers, Responds(v)', Responds(w)',
                    req[v]'.inv = req[w]'.inv, req[w]'.inv \notin overlapped'
             PROVE  v = w
  BY DEF OneResponds
<1>1. CASE Expires
  BY <1>1 DEF Expires, OneResponds, Responds
<1> SUFFICES ASSUME NEW u \in Workers,
       \/ Invites(u) \/ Tracks(u) \/ Shows(u) \/ Answers(u) \/ ReadsIt(u) \/ WritesIt(u)
       \/ Checks(u) \/ TellsIt(u) \/ Decides(u) \/ Calls(u)
             PROVE v = w
  BY <1>1 DEF ConsentMove
<1>2. CASE Invites(u) \/ Tracks(u) \/ Shows(u)
  BY <1>2 DEF Invites, Tracks, Shows, OthersStay, OneResponds, Responds, Responding
<1>3. CASE Answers(u)
  BY <1>3, RespondsIs DEF Answers, OthersStay, OneResponds, Responds, Responding
<1>4. CASE ReadsIt(u) \/ WritesIt(u) \/ Checks(u) \/ Decides(u) \/ Calls(u)
  BY <1>4 DEF ReadsIt, WritesIt, Checks, Decides, Calls, OthersStay, SameAnswer,
    OneResponds, Responds, Responding
<1>5. CASE TellsIt(u)
  BY <1>5 DEF TellsIt, OthersStay, SameAnswer, OneResponds, Responds, Responding
<1> QED
  BY <1>2, <1>3, <1>4, <1>5

LEMMA CurrentOKStep ==
  ASSUME CurrentOK, ConsentMove
  PROVE  CurrentOK'
<1> SUFFICES ASSUME NEW w \in Workers, Responds(w)'
             PROVE  /\ req[w]'.answer \in {"Accepted", "Rejected"}
                    /\ req[w]'.current \in {req[w]'.answer, "Transferring", "Failed"}
                    /\ req[w]'.pc = "decide" => req[w]'.current = req[w]'.answer
  BY DEF CurrentOK
<1>1. CASE Expires
  BY <1>1 DEF Expires, CurrentOK, Responds
<1>2. CASE \E u \in Workers : Invites(u) \/ Tracks(u) \/ Shows(u) \/ Answers(u)
  BY <1>2 DEF Invites, Tracks, Shows, Answers, OthersStay, CurrentOK, Responds, Responding
<1>3. CASE \E u \in Workers :
             ReadsIt(u) \/ WritesIt(u) \/ Checks(u) \/ Decides(u) \/ Calls(u)
  BY <1>3 DEF ReadsIt, WritesIt, Checks, Decides, Calls, OthersStay, SameAnswer,
    CurrentOK, Responds, Responding
<1>4. CASE \E u \in Workers : TellsIt(u)
  BY <1>4 DEF TellsIt, TellsOn, OthersStay, SameAnswer, CurrentOK, Responds, Responding
<1> QED
  BY <1>1, <1>2, <1>3, <1>4 DEF ConsentMove

\* While nothing has failed and no answers overlapped, a request has the last
\* answer of its participant and the newest copy of the invitation, and one
\* that says Transferring has everyone's last answer.
HasTheLatest(w) ==
  Responds(w) /\ req[w].inv \notin overlapped =>
    /\ latest[req[w].inv][req[w].who] = req[w].answer
    /\ req[w].pc = "write" => req[w].copy = cache[req[w].inv]
    /\ req[w].current = "Transferring" =>
         \A p \in invited[req[w].inv] : latest[req[w].inv][p] = "Accepted"

\* p's last answer has yet to be written.
IsWriting(w, i, p) ==
  RespondsTo(w, i) /\ req[w].who = p /\ req[w].pc \in {"read", "write"}

AcceptanceIsLatest(i) ==
  i \notin overlapped /\ cache[i] # Missing =>
    \A p \in Participants : cache[i][p] = "Accepted" =>
      latest[i][p] = "Accepted" \/ \E w \in Workers : IsWriting(w, i, p)

NothingIsLost ==
  faults = 0 => /\ \A w \in Workers : HasTheLatest(w)
                /\ \A i \in Invitations : AcceptanceIsLatest(i)

LEMMA FaultsOnlyGrow ==
  ASSUME ConsentInv, ConsentMove, faults' = 0
  PROVE  faults = 0 /\ \A kind : ~Fails(kind)
<1>1. faults \in Nat
  BY DEF ConsentInv, TypeOK
<1>2. faults' = faults \/ faults' = faults + 1
  BY DEF ConsentMove, Expires, Invites, Tracks, Shows, Answers, ReadsIt, WritesIt, Checks,
    TellsIt, Decides, Calls, Fails
<1> QED
  BY <1>1, <1>2 DEF Fails

\* What the controller decides on is everyone's last answer.
LEMMA DecidedOnTheLatest ==
  ASSUME ConsentInv, AnswersApart, NothingIsLost, faults = 0,
         NEW w \in Workers, req[w].pc = "decide", req[w].inv \notin overlapped,
         HaveAllAccepted(cache[req[w].inv]),
         NEW p \in invited[req[w].inv]
  PROVE  latest[req[w].inv][p] = "Accepted"
<1>1. req[w].inv \in Invitations /\ p \in Participants
  BY DEF ConsentInv, RequestsOK, RequestOK, TypeOK
<1>2. /\ cache[req[w].inv] # Missing
      /\ cache[req[w].inv][p] \in {"Accepted", "NotAsked"}
  BY <1>1 DEF HaveAllAccepted
<1>3. cache[req[w].inv][p] = "Accepted"
  BY <1>1, <1>2 DEF ConsentInv, CacheOK, Backing
<1>4. CASE \E v \in Workers : IsWriting(v, req[w].inv, p)
  <2>1. PICK v \in Workers : IsWriting(v, req[w].inv, p)
    BY <1>4
  <2>2. v = w
    BY <2>1 DEF IsWriting, RespondsTo, AnswersApart, OneResponds, Responds, Responding
  <2> QED
    BY <2>1, <2>2 DEF IsWriting
<1> QED
  BY <1>1, <1>2, <1>3, <1>4 DEF NothingIsLost, AcceptanceIsLatest

LEMMA HasTheLatestStep ==
  ASSUME ConsentInv, AnswersApart, NothingIsLost, ConsentMove, faults' = 0,
         NEW w \in Workers
  PROVE  HasTheLatest(w)'
<1> SUFFICES ASSUME Responds(w)', req[w]'.inv \notin overlapped'
             PROVE  /\ latest'[req[w]'.inv][req[w]'.who] = req[w]'.answer
                    /\ req[w]'.pc = "write" => req[w]'.copy = cache'[req[w]'.inv]
                    /\ req[w]'.current = "Transferring" =>
                         \A p \in invited'[req[w]'.inv] : latest'[req[w]'.inv][p] = "Accepted"
  BY DEF HasTheLatest
<1> DEFINE Goal == /\ latest'[req[w]'.inv][req[w]'.who] = req[w]'.answer
                   /\ req[w]'.pc = "write" => req[w]'.copy = cache'[req[w]'.inv]
                   /\ req[w]'.current = "Transferring" =>
                         \A p \in invited'[req[w]'.inv] : latest'[req[w]'.inv][p] = "Accepted"
<1>0. faults = 0 /\ \A kind : ~Fails(kind)
  BY FaultsOnlyGrow
<1>1. HasTheLatest(w)
  BY <1>0 DEF NothingIsLost
<1>2. \A v \in Workers : Responds(v) => /\ req[v].inv \in Invitations /\ req[v].who \in Participants
                                        /\ invited[req[v].inv] # {}
                                        /\ invited[req[v].inv] \in SUBSET Participants
  BY DEF ConsentInv, RequestsOK, RequestOK, Responds, Responding, TypeOK
<1>3. ~Expires
  BY <1>0 DEF Expires
<1> SUFFICES ASSUME NEW u \in Workers,
       \/ Invites(u) \/ Tracks(u) \/ Shows(u) \/ Answers(u) \/ ReadsIt(u) \/ WritesIt(u)
       \/ Checks(u) \/ TellsIt(u) \/ Decides(u) \/ Calls(u)
             PROVE Goal
  BY <1>3 DEF ConsentMove
<1>4. CASE Invites(u)
  <2>1. w # u /\ req[w]' = req[w]
    BY <1>4 DEF Invites, OthersStay, Responds, Responding
  <2>2. Responds(w)
    BY <2>1 DEF Responds
  <2>3. invited'[req[w].inv] = invited[req[w].inv]
    BY <1>2, <1>4, <2>2 DEF Invites
  <2> QED
    BY <1>1, <1>4, <2>1, <2>2, <2>3 DEF Invites, HasTheLatest
<1>5. CASE Tracks(u)
  <2>1. w # u /\ req[w]' = req[w]
    BY <1>5 DEF Tracks, OthersStay, Responds, Responding
  <2>2. Responds(w)
    BY <2>1 DEF Responds
  <2>3. req[w].inv # req[u].inv
    BY <1>5, <2>1, <2>2 DEF Tracks, AnswersApart, NewIsAlone, Responds, Responding
  <2>4. cache'[req[w].inv] = cache[req[w].inv]
    BY <1>2, <1>5, <2>2, <2>3 DEF Tracks
  <2> QED
    BY <1>1, <1>5, <2>1, <2>2, <2>4 DEF Tracks, HasTheLatest
<1>6. CASE Shows(u)
  BY <1>1, <1>6 DEF Shows, OthersStay, Responds, Responding, HasTheLatest
<1>7. CASE Answers(u)
  <2>1. CASE w = u
    BY <1>7, <2>1 DEF Answers
  <2>2. CASE w # u
    <3>1. req[w]' = req[w] /\ Responds(w)
      BY <1>7, <2>2 DEF Answers, OthersStay, Responds
    <3>2. req[w].inv # req[u]'.inv /\ req[w].inv \notin overlapped
      BY <1>7, <3>1 DEF Answers, RespondsTo, Responds
    <3>3. \A q \in Participants : latest'[req[w].inv][q] = latest[req[w].inv][q]
      BY <1>2, <1>7, <3>1, <3>2 DEF Answers
    <3> QED
      BY <1>1, <1>2, <1>7, <3>1, <3>2, <3>3 DEF Answers, HasTheLatest
  <2> QED
    BY <2>1, <2>2
<1>8. CASE ReadsIt(u)
  BY <1>0, <1>1, <1>8 DEF ReadsIt, OthersStay, SameAnswer, Responds, Responding, HasTheLatest
<1>9. CASE WritesIt(u)
  <2>1. CASE w = u
    BY <1>1, <1>9, <2>1 DEF WritesIt, SameAnswer, Responds, Responding, HasTheLatest
  <2>2. CASE w # u
    <3>1. req[w]' = req[w] /\ Responds(w) /\ Responds(u)
      BY <1>9, <2>2 DEF WritesIt, OthersStay, Responds, Responding
    <3>2. req[w].inv # req[u].inv
      BY <1>9, <2>2, <3>1 DEF WritesIt, AnswersApart, OneResponds
    <3>3. cache'[req[w].inv] = cache[req[w].inv]
      BY <1>2, <1>9, <3>1, <3>2 DEF WritesIt
    <3> QED
      BY <1>1, <1>9, <3>1, <3>3 DEF WritesIt, HasTheLatest
  <2> QED
    BY <2>1, <2>2
<1>10. CASE Checks(u) \/ Calls(u)
  BY <1>1, <1>10 DEF Checks, Calls, OthersStay, SameAnswer, Responds, Responding, HasTheLatest
<1>11. CASE TellsIt(u)
  BY <1>1, <1>11 DEF TellsIt, TellsOn, OthersStay, SameAnswer, Responds, Responding, HasTheLatest
<1>12. CASE Decides(u)
  <2>1. CASE w # u
    BY <1>1, <1>12, <2>1 DEF Decides, OthersStay, Responds, HasTheLatest
  <2>2. CASE w = u
    BY <1>0, <1>1, <1>12, <2>2, DecidedOnTheLatest DEF Decides, SameAnswer, Responds, Responding,
      HasTheLatest
  <2> QED
    BY <2>1, <2>2
<1> QED
  BY <1>4, <1>5, <1>6, <1>7, <1>8, <1>9, <1>10, <1>11, <1>12

\* The answers being written stay so, but for one the step writes.
LEMMA StillWriting ==
  ASSUME ConsentInv, ConsentMove, faults' = 0, NEW i, NEW p, NEW v \in Workers,
         IsWriting(v, i, p), ~WritesIt(v), ~(ReadsIt(v) /\ cache[i] = Missing)
  PROVE  IsWriting(v, i, p)'
<1>0. faults = 0 /\ \A kind : ~Fails(kind)
  BY FaultsOnlyGrow
<1>1. req[v].pc \in {"read", "write"} /\ req[v].inv = i /\ req[v].who = p
  BY DEF IsWriting, RespondsTo
<1>2. ~Expires
  BY <1>0 DEF Expires
<1> SUFFICES ASSUME NEW u \in Workers,
       \/ Invites(u) \/ Tracks(u) \/ Shows(u) \/ Answers(u) \/ ReadsIt(u) \/ WritesIt(u)
       \/ Checks(u) \/ TellsIt(u) \/ Decides(u) \/ Calls(u)
             PROVE IsWriting(v, i, p)'
  BY <1>2 DEF ConsentMove
<1>3. CASE u = v
  <2>1. ReadsIt(v)
    BY <1>1, <1>3 DEF Invites, Tracks, Shows, Answers, ReadsIt, WritesIt, Checks, TellsIt,
      Decides, Calls
  <2> QED
    BY <1>0, <1>1, <2>1 DEF ReadsIt, SameAnswer, IsWriting, RespondsTo, Responding
<1>4. CASE u # v
  <2>1. req[v]' = req[v]
    BY <1>4 DEF Invites, Tracks, Shows, Answers, ReadsIt, WritesIt, Checks, TellsIt,
      Decides, Calls, OthersStay
  <2> QED
    BY <2>1 DEF IsWriting, RespondsTo
<1> QED
  BY <1>3, <1>4

LEMMA AcceptanceIsLatestStep ==
  ASSUME ConsentInv, AnswersApart, NothingIsLost, ConsentMove, faults' = 0,
         NEW i \in Invitations
  PROVE  AcceptanceIsLatest(i)'
<1> DEFINE Covered(p) == latest[i][p] = "Accepted" \/ \E w \in Workers : IsWriting(w, i, p)
<1> SUFFICES ASSUME i \notin overlapped', cache[i]' # Missing,
                    NEW p \in Participants, cache[i]'[p] = "Accepted"
             PROVE  Covered(p)'
  BY DEF AcceptanceIsLatest
<1>0. faults = 0 /\ \A kind : ~Fails(kind)
  BY FaultsOnlyGrow
<1>1. cache[i] # Missing /\ cache[i][p] = "Accepted" /\ i \notin overlapped => Covered(p)
  BY <1>0 DEF NothingIsLost, AcceptanceIsLatest
<1>2. \A v \in Workers : Responds(v) => /\ req[v].inv \in Invitations /\ req[v].who \in Participants
                                        /\ req[v].copy \in Responses \cup {Missing}
                                        /\ req[v].pc = "write" => req[v].copy # Missing
  BY DEF ConsentInv, RequestsOK, RequestOK, Responds, Responding, TypeOK, Request
<1>3. ~Expires
  BY <1>0 DEF Expires
<1> SUFFICES ASSUME NEW u \in Workers,
       \/ Invites(u) \/ Tracks(u) \/ Shows(u) \/ Answers(u) \/ ReadsIt(u) \/ WritesIt(u)
       \/ Checks(u) \/ TellsIt(u) \/ Decides(u) \/ Calls(u)
             PROVE Covered(p)'
  BY <1>3 DEF ConsentMove
<1>4. CASE Tracks(u) /\ req[u].inv = i
  <2>1. cache[i]' = Create(req[u].who)
    BY <1>0, <1>4 DEF Tracks
  <2>2. cache[i]'[p] # "Accepted"
    BY <2>1 DEF Create
  <2> QED
    BY <2>2
<1>5. CASE WritesIt(u) /\ req[u].inv = i
  <2>0. Responds(u) /\ i \notin overlapped
    BY <1>5 DEF WritesIt, Responds, Responding
  <2>1. HasTheLatest(u)
    BY <1>0 DEF NothingIsLost
  <2>2. /\ latest[i][req[u].who] = req[u].answer /\ req[u].copy = cache[i]
        /\ cache[i] # Missing
    BY <1>2, <1>5, <2>0, <2>1 DEF HasTheLatest, WritesIt
  <2>3. cache[i]'[p] = IF p = req[u].who THEN req[u].current ELSE cache[i][p]
    BY <1>0, <1>5, <2>2 DEF WritesIt
  <2>4. CASE p = req[u].who
    <3>1. req[u].answer = "Accepted"
      BY <2>0, <2>3, <2>4 DEF AnswersApart, CurrentOK
    <3> QED
      BY <1>5, <2>2, <2>4, <3>1 DEF WritesIt
  <2>5. CASE p # req[u].who
    <3>1. Covered(p)
      BY <1>1, <2>0, <2>2, <2>3, <2>5
    <3>2. ~\E v \in Workers : IsWriting(v, i, p)
      BY <1>5, <2>0, <2>5 DEF AnswersApart, OneResponds, IsWriting, RespondsTo, Responds
    <3> QED
      BY <1>5, <3>1, <3>2 DEF WritesIt
  <2> QED
    BY <2>4, <2>5
<1>6. CASE Answers(u) /\ req[u]'.inv = i /\ req[u]'.who = p
  BY <1>6 DEF Answers, IsWriting, RespondsTo, Responding
<1>7. CASE /\ ~(Tracks(u) /\ req[u].inv = i) /\ ~(WritesIt(u) /\ req[u].inv = i)
           /\ ~(Answers(u) /\ req[u]'.inv = i /\ req[u]'.who = p)
  <2>1. cache[i]' = cache[i]
    BY <1>7 DEF Invites, Tracks, Shows, Answers, ReadsIt, WritesIt, Checks, TellsIt,
      Decides, Calls
  <2>2. latest[i]'[p] = latest[i][p]
    BY <1>7 DEF Invites, Tracks, Shows, Answers, ReadsIt, WritesIt, Checks, TellsIt,
      Decides, Calls
  <2>3. i \notin overlapped
    BY DEF Invites, Tracks, Shows, Answers, ReadsIt, WritesIt, Checks, TellsIt,
      Decides, Calls
  <2>4. Covered(p)
    BY <1>1, <2>1, <2>3
  <2>5. CASE latest[i][p] = "Accepted"
    BY <2>2, <2>5
  <2>6. CASE \E v \in Workers : IsWriting(v, i, p)
    <3>1. PICK v \in Workers : IsWriting(v, i, p)
      BY <2>6
    <3>2. CASE WritesIt(v)
      <4>1. u = v \/ ~\E x \in Workers : x # v /\ req[x]' # req[x]
        BY <3>2 DEF WritesIt, OthersStay
      <4>2. req[v]'.pc # req[v].pc
        BY <3>2 DEF WritesIt
      <4>3. u = v
        BY <4>2 DEF Invites, Tracks, Shows, Answers, ReadsIt, WritesIt, Checks, TellsIt,
          Decides, Calls, OthersStay
      <4>4. req[u].inv = i
        BY <3>1, <4>3 DEF IsWriting, RespondsTo
      <4> QED
        BY <1>7, <3>2, <4>3, <4>4
    <3>3. CASE ~WritesIt(v)
      BY <2>1, <3>1, <3>3, StillWriting
    <3> QED
      BY <3>2, <3>3
  <2> QED
    BY <2>4, <2>5, <2>6
<1> QED
  BY <1>4, <1>5, <1>6, <1>7

-----------------------------------------------------------------------------
LatestInv == ConsentInv /\ AnswersApart /\ NothingIsLost

LEMMA IdleAtFirst == Init => \A w \in Workers : req[w].pc = "idle"
BY DEF Init, Idle

LEMMA LatestInit == Init => LatestInv
<1> SUFFICES ASSUME Init PROVE LatestInv
  OBVIOUS
<1>1. AnswersApart
  BY IdleAtFirst DEF AnswersApart, NewIsAlone, OneResponds, CurrentOK, Responds, Responding
<1>2. \A w \in Workers : HasTheLatest(w)
  BY IdleAtFirst DEF HasTheLatest, Responds, Responding
<1>3. \A i \in Invitations : cache[i] = Missing
  BY DEF Init
<1>4. \A i \in Invitations : AcceptanceIsLatest(i)
  BY <1>3 DEF AcceptanceIsLatest
<1> QED
  BY <1>1, <1>2, <1>4, ConsentInit DEF LatestInv, NothingIsLost

LEMMA LatestNext == LatestInv /\ [Next]_vars => LatestInv'
<1> SUFFICES ASSUME LatestInv, [Next]_vars PROVE LatestInv'
  OBVIOUS
<1>0. ConsentInv'
  BY ConsentNext DEF LatestInv
<1>1. CASE Next
  <2>1. ConsentMove
    BY <1>1, ConsentMoves DEF LatestInv
  <2>2. NewIsAlone' /\ OneResponds' /\ CurrentOK'
    BY <2>1, NewIsAloneStep, OneRespondsStep, CurrentOKStep DEF LatestInv, AnswersApart
  <2>3. NothingIsLost'
    BY <2>1, HasTheLatestStep, AcceptanceIsLatestStep DEF LatestInv, NothingIsLost
  <2> QED
    BY <1>0, <2>2, <2>3 DEF LatestInv, AnswersApart
<1>2. CASE UNCHANGED vars
  <2>1. AnswersApart'
    BY <1>2 DEF vars, historyVars, LatestInv, AnswersApart, NewIsAlone, OneResponds, CurrentOK,
      Responds
  <2>2. NothingIsLost'
    BY <1>2 DEF vars, historyVars, LatestInv, NothingIsLost, HasTheLatest, AcceptanceIsLatest,
      Responds, IsWriting, RespondsTo
  <2> QED
    BY <1>0, <2>1, <2>2 DEF LatestInv
<1> QED
  BY <1>1, <1>2

\* What the promise is made of holds in every behaviour.
LEMMA LatestAlways == Spec => []LatestInv
BY LatestInit, LatestNext, PTL DEF Spec

\* A step that moves the invited of an invitation answers for all of them.
LEMMA MovedOnTheLatest ==
  ASSUME LatestInv, Next, NEW i \in moved' \ moved, i \notin overlapped, faults = 0
  PROVE  \A p \in invited[i] : latest[i][p] = "Accepted"
<1>1. PICK w \in Workers : Calls(w)
  <2>1. ConsentMove
    BY ConsentMoves DEF LatestInv
  <2> QED
    BY <2>1 DEF ConsentMove, Expires, Invites, Tracks, Shows, Answers, ReadsIt, WritesIt, Checks,
      TellsIt, Decides
<1>2. req[w].pc = "call" /\ req[w].answer = "Accepted" /\ req[w].inv = i
  BY <1>1 DEF Calls
<1>3. req[w].current = "Transferring" /\ Responds(w)
  BY <1>2 DEF LatestInv, ConsentInv, RequestsOK, RequestOK, Responds, Responding
<1> QED
  BY <1>2, <1>3 DEF LatestInv, NothingIsLost, HasTheLatest

\* While the cache has not failed and answers to the invitation have been handled
\* one at a time, those RespondToConsultationRequestAsync has the Video API move
\* have all said yes last: what its second look at the cache finds is what each
\* of them last answered.
THEOREM RefusalsCount == Spec => RefusalsAreLostOnlyInARace
<1>1. LatestInv /\ [Next]_vars =>
        [\A i \in moved' \ moved :
           i \notin overlapped /\ faults = 0
             => \A p \in invited[i] : latest[i][p] = "Accepted"]_vars
  BY MovedOnTheLatest
<1> QED
  BY <1>1, LatestAlways, PTL DEF Spec, RefusalsAreLostOnlyInARace

-----------------------------------------------------------------------------
(***************************************************************************)
(* Transfers that are told.  While only the Video API refuses, a request   *)
(* that has told a participant Transferring goes on to the move or to      *)
(* telling the same participant Failed.                                    *)
(***************************************************************************)

\* Nothing fails at a step but a call that the Video API refuses.
OnlyRefusals == UNCHANGED faults \/ \E w \in Workers : CallRefused(w)

\* Unless answers overlapped, a refusal is in the cache from when it has been
\* written, so that its request never says Transferring.
IsWritten(w) ==
  Responds(w) /\ req[w].inv \notin overlapped /\ req[w].answer = "Rejected" =>
    /\ req[w].current # "Transferring"
    /\ req[w].current = "Rejected" /\ req[w].pc \in {"check", "tell", "tellLinked", "decide"} =>
         \/ cache[req[w].inv] = Missing
         \/ cache[req[w].inv][req[w].who] = "Rejected"

\* Those left to be told are linked to the one who answered.
LeftAreLinked ==
  \A w \in Workers : req[w].pc = "tellLinked" /\ req[w].current # "Accepted" =>
    req[w].left \subseteq LinkedTo[req[w].who]

\* A request that is about to have p moved, or to tell p that it failed.
SeesTo(w, i, p) ==
  /\ RespondsTo(w, i) /\ p \in Group(req[w].who)
  /\ \/ req[w].current = "Transferring"
     \/ req[w].current = "Failed" /\ \/ req[w].pc \in {"read", "write", "check", "tell"}
                                     \/ req[w].pc = "tellLinked" /\ p \in req[w].left

IsSeenTo(i, p) ==
  i \notin overlapped /\ told[i][p] = "Transferring" =>
    i \in moved \/ \E w \in Workers : SeesTo(w, i, p)

TransfersInv ==
  /\ ConsentInv /\ AnswersApart /\ LeftAreLinked
  /\ \A w \in Workers : IsWritten(w)
  /\ \A i \in Invitations, p \in Participants : IsSeenTo(i, p)

\* The reads and the writes of the cache succeed, entries do not expire, and no
\* call is given up.
LEMMA OnlyTheApiFails ==
  ASSUME ConsentInv, OnlyRefusals
  PROVE  /\ ~Expires
         /\ \A w \in Workers :
              /\ Tracks(w) \/ WritesIt(w) => ~Fails("Write")
              /\ ReadsIt(w) \/ Checks(w) \/ Decides(w) => ~Fails("Read")
              /\ Calls(w) /\ req[w]'.pc = "idle" => ~Fails("Other")
<1>1. faults \in Nat /\ req \in [Workers -> Request]
  BY DEF ConsentInv, TypeOK
<1>2. CASE UNCHANGED faults
  BY <1>1, <1>2 DEF Fails, Expires
<1>3. ASSUME NEW v \in Workers, CallRefused(v)
      PROVE  req[v].pc = "call" /\ req'[v].pc = "read"
  BY <1>1, <1>3 DEF CallRefused, At, Request
<1>4. ASSUME NEW v \in Workers, CallRefused(v), NEW w \in Workers
      PROVE  /\ ~Tracks(w) /\ ~WritesIt(w) /\ ~ReadsIt(w) /\ ~Checks(w) /\ ~Decides(w)
             /\ ~(Calls(w) /\ req[w]'.pc = "idle")
  BY <1>3, <1>4 DEF Tracks, WritesIt, ReadsIt, Checks, Decides, Calls, OthersStay
<1>5. ASSUME NEW v \in Workers, CallRefused(v) PROVE ~Expires
  BY <1>3, <1>5 DEF Expires
<1> QED
  BY <1>2, <1>4, <1>5 DEF OnlyRefusals

LEMMA LeftAreLinkedStep ==
  ASSUME LeftAreLinked, ConsentMove
  PROVE  LeftAreLinked'
<1> SUFFICES ASSUME NEW w \in Workers, req[w]'.pc = "tellLinked", req[w]'.current # "Accepted"
             PROVE  req[w]'.left \subseteq LinkedTo[req[w]'.who]
  BY DEF LeftAreLinked
<1>1. CASE Expires
  BY <1>1 DEF Expires, LeftAreLinked
<1> SUFFICES ASSUME NEW u \in Workers,
       \/ Invites(u) \/ Tracks(u) \/ Shows(u) \/ Answers(u) \/ ReadsIt(u) \/ WritesIt(u)
       \/ Checks(u) \/ TellsIt(u) \/ Decides(u) \/ Calls(u)
             PROVE req[w]'.left \subseteq LinkedTo[req[w]'.who]
  BY <1>1 DEF ConsentMove
<1>2. CASE u # w
  <2>1. req[w]' = req[w]
    BY <1>2 DEF Invites, Tracks, Shows, Answers, ReadsIt, WritesIt, Checks, TellsIt,
      Decides, Calls, OthersStay
  <2> QED
    BY <2>1 DEF LeftAreLinked
<1>3. CASE u = w
  <2>1. TellsIt(w)
    BY <1>3 DEF Invites, Tracks, Shows, Answers, ReadsIt, WritesIt, Checks, Decides, Calls
  <2>2. PICK p \in Participants, left \in SUBSET Participants :
          /\ req[w].pc = "tell" =>
               p = req[w].who /\ (req[w].current # "Accepted" => left = LinkedTo[p])
          /\ req[w].pc = "tellLinked" => left = req[w].left \ {p}
          /\ TellsOn(w, left)
    BY <2>1 DEF TellsIt
  <2>3. req[w]'.left = left /\ req[w]'.who = req[w].who /\ req[w]'.current = req[w].current
    BY <2>1, <2>2 DEF TellsIt, TellsOn, SameAnswer
  <2>4. CASE req[w].pc = "tell"
    BY <2>2, <2>3, <2>4
  <2>5. CASE req[w].pc = "tellLinked"
    BY <2>2, <2>3, <2>5 DEF LeftAreLinked
  <2> QED
    BY <2>1, <2>4, <2>5 DEF TellsIt
<1> QED
  BY <1>2, <1>3

\* What other requests leave alone.
LEMMA EntryStays ==
  ASSUME ConsentInv, AnswersApart, OnlyRefusals, ConsentMove, NEW w \in Workers, Responds(w),
         req[w].inv \notin overlapped, ~WritesIt(w)
  PROVE  cache'[req[w].inv] = cache[req[w].inv]
<1>0. req[w].inv \in Invitations
  BY DEF ConsentInv, RequestsOK, RequestOK, Responds, Responding
<1>1. PICK u \in Workers :
       \/ Invites(u) \/ Tracks(u) \/ Shows(u) \/ Answers(u) \/ ReadsIt(u) \/ WritesIt(u)
       \/ Checks(u) \/ TellsIt(u) \/ Decides(u) \/ Calls(u)
  BY OnlyTheApiFails DEF ConsentMove
<1>2. CASE Tracks(u)
  <2>1. req[u].inv # req[w].inv
    BY <1>2 DEF Tracks, AnswersApart, NewIsAlone, Responds, Responding
  <2> QED
    BY <1>0, <1>2, <2>1 DEF Tracks
<1>3. CASE WritesIt(u)
  <2>1. u # w /\ Responds(u)
    BY <1>3 DEF WritesIt, Responds, Responding
  <2>2. req[u].inv # req[w].inv
    BY <2>1 DEF AnswersApart, OneResponds
  <2> QED
    BY <1>0, <1>3, <2>2 DEF WritesIt
<1> QED
  BY <1>1, <1>2, <1>3 DEF Invites, Shows, Answers, ReadsIt, Checks, TellsIt, Decides, Calls

LEMMA IsWrittenStep ==
  ASSUME ConsentInv, AnswersApart, OnlyRefusals, ConsentMove, NEW w \in Workers, IsWritten(w)
  PROVE  IsWritten(w)'
<1> DEFINE Entered == \/ cache'[req[w].inv] = Missing
                      \/ cache'[req[w].inv][req[w].who] = "Rejected"
<1> SUFFICES ASSUME Responds(w)', req[w]'.inv \notin overlapped', req[w]'.answer = "Rejected"
             PROVE  /\ req[w]'.current # "Transferring"
                    /\ req[w]'.current = "Rejected"
                         /\ req[w]'.pc \in {"check", "tell", "tellLinked", "decide"} =>
                       \/ cache'[req[w]'.inv] = Missing
                       \/ cache'[req[w]'.inv][req[w]'.who] = "Rejected"
  BY DEF IsWritten
<1>1. PICK u \in Workers :
       \/ Invites(u) \/ Tracks(u) \/ Shows(u) \/ Answers(u) \/ ReadsIt(u) \/ WritesIt(u)
       \/ Checks(u) \/ TellsIt(u) \/ Decides(u) \/ Calls(u)
  BY OnlyTheApiFails DEF ConsentMove
<1>2. overlapped \subseteq overlapped'
  BY <1>1 DEF Invites, Tracks, Shows, Answers, ReadsIt, WritesIt, Checks, TellsIt, Decides, Calls
<1>3. CASE u # w
  <2>1. req[w]' = req[w]
    BY <1>1, <1>3 DEF Invites, Tracks, Shows, Answers, ReadsIt, WritesIt, Checks, TellsIt,
      Decides, Calls, OthersStay
  <2>2. Responds(w) /\ req[w].inv \notin overlapped /\ ~WritesIt(w)
    BY <1>2, <2>1 DEF Responds, WritesIt
  <2>3. cache'[req[w].inv] = cache[req[w].inv]
    BY <2>2, EntryStays
  <2>4. cache'[req[w]'.inv] = cache[req[w].inv]
    BY <2>1, <2>3
  <2> QED
    BY <2>1, <2>2, <2>4 DEF IsWritten
<1>4. CASE Answers(w)
  BY <1>4 DEF Answers
<1>5. CASE WritesIt(w)
  <2>1. Responds(w) /\ req[w].inv \notin overlapped
    BY <1>2, <1>5 DEF WritesIt, Responds, Responding, SameAnswer
  <2>2. req[w].who \in Participants
    BY <2>1 DEF ConsentInv, RequestsOK, RequestOK, Responds, Responding
  <2>3. cache'[req[w].inv][req[w].who] = req[w].current
    BY <1>5, <2>2, OnlyTheApiFails DEF WritesIt
  <2> QED
    BY <1>5, <2>1, <2>3 DEF WritesIt, SameAnswer, IsWritten
<1>6. CASE u = w /\ (ReadsIt(w) \/ Checks(w) \/ TellsIt(w) \/ Decides(w) \/ Calls(w))
  <2>1. /\ Responds(w) /\ req[w]'.pc # "idle" /\ SameAnswer(w) /\ ~WritesIt(w)
        /\ req[w].answer = "Rejected"
    BY <1>6 DEF ReadsIt, Checks, TellsIt, TellsOn, Decides, Calls, SameAnswer, WritesIt, Responds,
      Responding
  <2>2. req[w].inv \notin overlapped
    BY <1>2, <2>1 DEF SameAnswer
  <2>3. cache'[req[w].inv] = cache[req[w].inv]
    BY <2>1, <2>2, EntryStays
  <2>4. cache'[req[w]'.inv] = cache[req[w].inv] /\ req[w]'.who = req[w].who
    BY <2>1, <2>3 DEF SameAnswer
  <2>5. CASE ReadsIt(w)
    BY <2>1, <2>2, <2>4, <2>5, OnlyTheApiFails DEF ReadsIt, IsWritten
  <2>6. CASE Checks(w)
    BY <2>1, <2>2, <2>4, <2>6 DEF Checks, IsWritten
  <2>7. CASE TellsIt(w)
    BY <2>1, <2>2, <2>4, <2>7 DEF TellsIt, IsWritten
  <2>8. CASE Calls(w)
    BY <2>1, <2>8 DEF Calls
  <2>9. CASE Decides(w)
    <3>1. req[w].current = "Rejected" /\ req[w].who \in Participants
      BY <2>1, <2>9 DEF Decides, AnswersApart, CurrentOK, ConsentInv, RequestsOK, RequestOK,
        Responds, Responding
    <3>2. \/ cache[req[w].inv] = Missing
          \/ cache[req[w].inv][req[w].who] = "Rejected"
      BY <2>1, <2>2, <2>9, <3>1 DEF Decides, IsWritten
    <3>3. ~HaveAllAccepted(cache[req[w].inv])
      BY <3>1, <3>2 DEF HaveAllAccepted
    <3> QED
      BY <2>1, <2>9, <3>1, <3>3 DEF Decides
  <2> QED
    BY <1>6, <2>5, <2>6, <2>7, <2>8, <2>9
<1>7. ~(u = w /\ (Invites(w) \/ Tracks(w) \/ Shows(w)))
  BY DEF Invites, Tracks, Shows, Responds, Responding
<1> QED
  BY <1>1, <1>3, <1>4, <1>5, <1>6, <1>7

\* What sees to p's transfer goes on doing so, until the move has been made.
LEMMA StillSeesTo ==
  ASSUME ConsentInv, AnswersApart, OnlyRefusals, ConsentMove, NEW w \in Workers, IsWritten(w),
         NEW i, NEW p, SeesTo(w, i, p), i \notin overlapped, told[i]'[p] = "Transferring",
         i \in Invitations, p \in Participants
  PROVE  i \in moved' \/ SeesTo(w, i, p)'
<1>0. /\ Responds(w) /\ req[w].inv = i /\ p \in Group(req[w].who)
      /\ req[w].current \in {"Transferring", "Failed"}
      /\ req[w].current = "Failed" => \/ req[w].pc \in {"read", "write", "check", "tell"}
                                      \/ req[w].pc = "tellLinked" /\ p \in req[w].left
  BY DEF SeesTo, RespondsTo, Responds
<1>1. PICK u \in Workers :
       \/ Invites(u) \/ Tracks(u) \/ Shows(u) \/ Answers(u) \/ ReadsIt(u) \/ WritesIt(u)
       \/ Checks(u) \/ TellsIt(u) \/ Decides(u) \/ Calls(u)
  BY OnlyTheApiFails DEF ConsentMove
<1>2. CASE u # w
  <2>1. req[w]' = req[w]
    BY <1>1, <1>2 DEF Invites, Tracks, Shows, Answers, ReadsIt, WritesIt, Checks, TellsIt,
      Decides, Calls, OthersStay
  <2> QED
    BY <2>1 DEF SeesTo, RespondsTo
<1>3. CASE u = w /\ (Invites(w) \/ Tracks(w) \/ Shows(w) \/ Answers(w))
  BY <1>0, <1>3 DEF Invites, Tracks, Shows, Answers, Responds, Responding
<1>4. CASE ReadsIt(w) \/ WritesIt(w) \/ Checks(w)
  BY <1>0, <1>4 DEF ReadsIt, WritesIt, Checks, SameAnswer, SeesTo, RespondsTo, Responding
<1>5. CASE Decides(w)
  BY <1>0, <1>5 DEF Decides, AnswersApart, CurrentOK, Responds
<1>6. CASE Calls(w)
  <2>1. req[w].current = "Transferring"
    BY <1>0, <1>6 DEF Calls
  <2>2. req[w].answer = "Accepted"
    BY <1>0, <2>1 DEF IsWritten, AnswersApart, CurrentOK
  <2>3. CASE req[w]'.pc = "idle"
    BY <1>0, <1>6, <2>2, <2>3, OnlyTheApiFails DEF Calls
  <2>4. CASE req[w]'.pc # "idle"
    BY <1>0, <1>6, <2>4 DEF Calls, SameAnswer, SeesTo, RespondsTo, Responding
  <2> QED
    BY <2>3, <2>4
<1>7. CASE TellsIt(w)
  <2>1. PICK q \in Participants, left \in SUBSET Participants :
          /\ told[i]'[p] = IF p = q THEN req[w].current ELSE told[i][p]
          /\ req[w].pc = "tell" =>
               q = req[w].who /\ (req[w].current # "Accepted" => left = LinkedTo[q])
          /\ req[w].pc = "tellLinked" => q \in req[w].left /\ left = req[w].left \ {q}
          /\ TellsOn(w, left)
    BY <1>0, <1>7 DEF TellsIt
  <2>2. CASE req[w].current = "Transferring"
    BY <1>0, <1>7, <2>1, <2>2 DEF TellsIt, TellsOn, SameAnswer, SeesTo, RespondsTo, Responding
  <2>3. CASE req[w].current = "Failed"
    <3>1. p # q /\ p \in left
      BY <1>0, <1>7, <2>1, <2>3 DEF TellsIt, Group
    <3>2. req[w]'.pc = "tellLinked" /\ req[w]'.left = left
      BY <2>1, <2>3, <3>1 DEF TellsOn
    <3> QED
      BY <1>0, <1>7, <2>3, <3>1, <3>2 DEF TellsIt, SameAnswer, SeesTo, RespondsTo, Responding
  <2> QED
    BY <1>0, <2>2, <2>3
<1> QED
  BY <1>1, <1>2, <1>3, <1>4, <1>5, <1>6, <1>7

LEMMA IsSeenToStep ==
  ASSUME TransfersInv, OnlyRefusals, ConsentMove, NEW i \in Invitations, NEW p \in Participants
  PROVE  IsSeenTo(i, p)'
<1> SUFFICES ASSUME i \notin overlapped', told[i]'[p] = "Transferring"
             PROVE  i \in moved' \/ \E w \in Workers : SeesTo(w, i, p)'
  BY DEF IsSeenTo
<1>1. PICK u \in Workers :
       \/ Invites(u) \/ Tracks(u) \/ Shows(u) \/ Answers(u) \/ ReadsIt(u) \/ WritesIt(u)
       \/ Checks(u) \/ TellsIt(u) \/ Decides(u) \/ Calls(u)
  BY OnlyTheApiFails DEF TransfersInv, ConsentMove
<1>2. i \notin overlapped /\ moved \subseteq moved'
  BY <1>1 DEF Invites, Tracks, Shows, Answers, ReadsIt, WritesIt, Checks, TellsIt, Decides, Calls
<1>3. CASE told[i][p] = "Transferring"
  <2>1. i \in moved \/ \E w \in Workers : SeesTo(w, i, p)
    BY <1>2, <1>3 DEF TransfersInv, IsSeenTo
  <2> QED
    BY <1>2, <2>1, StillSeesTo DEF TransfersInv
<1>4. CASE told[i][p] # "Transferring"
  <2>1. TellsIt(u)
    BY <1>1, <1>4 DEF Invites, Tracks, Shows, Answers, ReadsIt, WritesIt, Checks, Decides, Calls
  <2>2. PICK q \in Participants, left \in SUBSET Participants :
          /\ told[i]'[p] = IF i = req[u].inv /\ p = q THEN req[u].current ELSE told[i][p]
          /\ req[u].pc = "tell" => q = req[u].who
          /\ req[u].pc = "tellLinked" => q \in req[u].left
          /\ TellsOn(u, left)
    BY <2>1 DEF TellsIt
  <2>3. i = req[u].inv /\ p = q /\ req[u].current = "Transferring"
    BY <1>4, <2>2
  <2>4. p \in Group(req[u].who)
    BY <2>1, <2>2, <2>3 DEF TellsIt, TransfersInv, LeftAreLinked, Group
  <2>5. req[u]'.pc \in {"tellLinked", "call"}
    BY <2>2, <2>3 DEF TellsOn
  <2>6. SeesTo(u, i, p)'
    BY <2>1, <2>3, <2>4, <2>5 DEF TellsIt, SameAnswer, SeesTo, RespondsTo, Responding
  <2> QED
    BY <2>6
<1> QED
  BY <1>3, <1>4

LEMMA TransfersInit == Init => TransfersInv
<1> SUFFICES ASSUME Init PROVE TransfersInv
  OBVIOUS
<1>1. ConsentInv /\ AnswersApart
  BY LatestInit DEF LatestInv
<1>2. LeftAreLinked /\ \A w \in Workers : IsWritten(w)
  BY IdleAtFirst DEF LeftAreLinked, IsWritten, Responds, Responding
<1>3. \A i \in Invitations, p \in Participants : told[i][p] # "Transferring"
  BY DEF Init
<1> QED
  BY <1>1, <1>2, <1>3 DEF TransfersInv, IsSeenTo

LEMMA TransfersNext ==
  TransfersInv /\ [Next]_vars /\ [OnlyRefusals]_vars => TransfersInv'
<1> SUFFICES ASSUME TransfersInv, [Next]_vars, OnlyRefusals PROVE TransfersInv'
  BY DEF OnlyRefusals, vars
<1>0. ConsentInv'
  BY ConsentNext DEF TransfersInv
<1>1. CASE Next
  <2>1. ConsentMove
    BY <1>1, ConsentMoves DEF TransfersInv
  <2>2. AnswersApart'
    BY <2>1, NewIsAloneStep, OneRespondsStep, CurrentOKStep DEF TransfersInv, AnswersApart
  <2>3. LeftAreLinked'
    BY <2>1, LeftAreLinkedStep DEF TransfersInv
  <2>4. \A w \in Workers : IsWritten(w)'
    BY <2>1, IsWrittenStep DEF TransfersInv
  <2>5. \A i \in Invitations, p \in Participants : IsSeenTo(i, p)'
    BY <2>1, IsSeenToStep
  <2> QED
    BY <1>0, <2>2, <2>3, <2>4, <2>5 DEF TransfersInv
<1>2. CASE UNCHANGED vars
  <2>1. AnswersApart'
    BY <1>2 DEF vars, historyVars, TransfersInv, AnswersApart, NewIsAlone, OneResponds, CurrentOK,
      Responds
  <2>2. LeftAreLinked' /\ \A w \in Workers : IsWritten(w)'
    BY <1>2 DEF vars, historyVars, TransfersInv, LeftAreLinked, IsWritten, Responds
  <2>3. \A i \in Invitations, p \in Participants : IsSeenTo(i, p)'
    BY <1>2 DEF vars, historyVars, TransfersInv, IsSeenTo, SeesTo, RespondsTo
  <2> QED
    BY <1>0, <2>1, <2>2, <2>3 DEF TransfersInv
<1> QED
  BY <1>1, <1>2

\* Nobody is left told Transferring when no request is about the invitation.
Transferred ==
  \A i \in Invitations \ overlapped, p \in Participants :
    told[i][p] = "Transferring" /\ ~(\E w \in Workers : RespondsTo(w, i)) => i \in moved

\* However many requests are handled at once: when only the Video API refuses,
\* and answers to one invitation come one at a time, a participant last told
\* Transferring has been moved once the requests about the invitation are done.
THEOREM TransfersAreMade ==
  Spec /\ [][OnlyRefusals]_vars => []Transferred
<1>1. TransfersInv => Transferred
  BY DEF TransfersInv, IsSeenTo, SeesTo, Transferred
<1> QED
  BY <1>1, TransfersInit, TransfersNext, PTL DEF Spec

\* No two answers to one invitation have met.
NoneOverlapped == overlapped = {}

\* Requests of which the next begins when the one before has ended: the answers
\* to an invitation come one at a time.
OneAtATime ==
  \A v, w \in Workers : ~At(v, "idle") /\ ~At(w, "idle") => v = w

\* Requests handled one at a time never have two answers to an invitation meet,
\* so what is stated of such behaviours holds of a hub that takes one request
\* after the other.
THEOREM AnswersDoNotOverlap == Spec /\ []OneAtATime => []NoneOverlapped
<1>1. Init => NoneOverlapped
  BY DEF Init, NoneOverlapped
<1>2. ConsentInv /\ OneAtATime' /\ NoneOverlapped /\ [Next]_vars => NoneOverlapped'
  <2> SUFFICES ASSUME ConsentInv, OneAtATime', overlapped = {}, [Next]_vars
               PROVE  overlapped' = {}
    BY DEF NoneOverlapped
  <2>1. ASSUME NEW w \in Workers, NEW i \in Invitations, NEW p \in Participants,
               NEW a \in {"Accepted", "Rejected"}, Answer(w, i, p, a)
        PROVE  overlapped' = {}
    <3>1. Answers(w) /\ At(w, "idle")
      BY <2>1, AnswersIs DEF Answer
    <3>2. ~\E v \in Workers : RespondsTo(v, i)
      BY <3>1 DEF Answers, OthersStay, OneAtATime, At, RespondsTo, Responding
    <3> QED
      BY <2>1, <3>2 DEF Answer
  <2> QED
    BY <2>1 DEF Next, vars, historyVars, Handle, Invite, StartTrackingInvitation,
      ShowInvitation, ReadInvitation, WriteResponse, CheckAccepted, PublishResponse,
      PublishLinkedResponse, Decide, Call, CallRefused, CallBreaksOff, Expire
<1> QED
  BY <1>1, <1>2, ConsentInit, ConsentNext, PTL DEF Spec

\* While only the Video API refuses: as long as no answers to one invitation have
\* overlapped, those RespondToConsultationRequestAsync last had told Transferring
\* have been moved when no request is in progress.
THEOREM ToldAreMoved ==
  Spec /\ [][OnlyRefusals]_vars => [](NoneOverlapped => TransferringIsMoved)
<1>1. TransfersInv => (NoneOverlapped => TransferringIsMoved)
  BY DEF NoneOverlapped, TransfersInv, IsSeenTo, SeesTo, RespondsTo, Responding, At,
    TransferringIsMoved
<1> QED
  BY <1>1, TransfersInit, TransfersNext, PTL DEF Spec

-----------------------------------------------------------------------------
(***************************************************************************)
(* The promise, JointConsent.  The consents are those the cache stands     *)
(* for; a request writes over what it has read, and calls while all agree. *)
(***************************************************************************)

\* Those who answer an invitation are among those it is for, and one that is
\* being stored is not in the cache yet.
WhoIsInvited == \A w \in Workers : Responds(w) => req[w].who \in invited[req[w].inv]
NewIsUnstored == \A w \in Workers : req[w].pc = "track" => cache[req[w].inv] = Missing

\* Nobody who is asked has anything but accepted.
AllAgree(responses) ==
  responses # Missing /\
    \A p \in Participants : responses[p] \in {"Accepted", "Transferring", "NotAsked"}

\* Unless answers overlapped, a request writes over what it has read, and one
\* that says Transferring does so while all agree.
IsUpToDate(w) ==
  Responds(w) /\ req[w].inv \notin overlapped =>
    /\ req[w].pc = "write" => req[w].copy = cache[req[w].inv]
    /\ req[w].current = "Transferring" => AllAgree(cache[req[w].inv])

PromiseInv ==
  /\ ConsentInv /\ AnswersApart /\ WhoIsInvited /\ NewIsUnstored
  /\ \A w \in Workers : IsUpToDate(w)

LEMMA WhoIsInvitedStep ==
  ASSUME ConsentInv, WhoIsInvited, ConsentMove
  PROVE  WhoIsInvited'
<1> SUFFICES ASSUME NEW w \in Workers, Responds(w)'
             PROVE  req[w]'.who \in invited'[req[w]'.inv]
  BY DEF WhoIsInvited
<1>0. \A v \in Workers : Responds(v) => req[v].inv \in Invitations /\ invited[req[v].inv] # {}
  BY DEF ConsentInv, RequestsOK, RequestOK, Responds, Responding
<1>1. CASE Expires
  BY <1>1 DEF Expires, WhoIsInvited, Responds
<1>2. CASE \E u \in Workers : Invites(u)
  <2>1. req[w]' = req[w] /\ Responds(w)
    BY <1>2 DEF Invites, OthersStay, Responds, Responding
  <2>2. invited'[req[w].inv] = invited[req[w].inv]
    BY <1>0, <1>2, <2>1 DEF Invites
  <2> QED
    BY <2>1, <2>2 DEF WhoIsInvited
<1>3. CASE \E u \in Workers : Tracks(u) \/ Shows(u)
  BY <1>3 DEF Tracks, Shows, OthersStay, Responds, Responding, WhoIsInvited
<1>4. CASE \E u \in Workers : Answers(u)
  BY <1>4 DEF Answers, OthersStay, Responds, Responding, WhoIsInvited, ConsentInv, AskedOK
<1>5. CASE \E u \in Workers :
             ReadsIt(u) \/ WritesIt(u) \/ Checks(u) \/ Decides(u) \/ Calls(u) \/ TellsIt(u)
  BY <1>5 DEF ReadsIt, WritesIt, Checks, Decides, Calls, TellsIt, OthersStay, SameAnswer,
    WhoIsInvited, Responds, Responding
<1> QED
  BY <1>1, <1>2, <1>3, <1>4, <1>5 DEF ConsentMove

LEMMA NewIsUnstoredStep ==
  ASSUME ConsentInv, NewIsAlone, NewIsUnstored, ConsentMove
  PROVE  NewIsUnstored'
<1> SUFFICES ASSUME NEW w \in Workers, req[w]'.pc = "track"
             PROVE  cache'[req[w]'.inv] = Missing
  BY DEF NewIsUnstored
<1>0. req[w].pc = "track" => req[w].inv \in Invitations
  BY DEF ConsentInv, RequestsOK, RequestOK
<1>1. CASE Expires
  BY <1>0, <1>1 DEF Expires, NewIsUnstored
<1>2. CASE \E u \in Workers : Invites(u)
  BY <1>2 DEF Invites, OthersStay, NewIsUnstored, ConsentInv, CacheOK
<1>3. CASE \E u \in Workers : Tracks(u)
  BY <1>0, <1>3 DEF Tracks, OthersStay, NewIsUnstored, NewIsAlone
<1>4. CASE \E u \in Workers : Shows(u) \/ Answers(u) \/ ReadsIt(u) \/ Checks(u)
                             \/ Decides(u) \/ Calls(u)
  BY <1>4 DEF Shows, Answers, ReadsIt, Checks, Decides, Calls, OthersStay, NewIsUnstored
<1>5. CASE \E u \in Workers : WritesIt(u)
  BY <1>0, <1>5 DEF WritesIt, OthersStay, NewIsUnstored, NewIsAlone
<1>6. CASE \E u \in Workers : TellsIt(u)
  BY <1>6 DEF TellsIt, TellsOn, OthersStay, NewIsUnstored
<1> QED
  BY <1>1, <1>2, <1>3, <1>4, <1>5, <1>6 DEF ConsentMove

\* What a write puts into the cache.
LEMMA WritesAnEntry ==
  ASSUME PromiseInv, OnlyRefusals, NEW w \in Workers, WritesIt(w), req[w].inv \notin overlapped
  PROVE  /\ req[w].inv \in Invitations /\ req[w].who \in Participants
         /\ cache[req[w].inv] # Missing /\ cache[req[w].inv] \in Responses
         /\ cache[req[w].inv][req[w].who] # "NotAsked"
         /\ cache'[req[w].inv] # Missing
         /\ \A q \in Participants :
              cache'[req[w].inv][q] = IF q = req[w].who THEN req[w].current
                                      ELSE cache[req[w].inv][q]
<1>1. Responds(w) /\ req[w].pc = "write"
  BY DEF WritesIt, Responds, Responding
<1>2. /\ req[w].inv \in Invitations /\ req[w].who \in Participants
      /\ req[w].copy # Missing /\ req[w].copy = cache[req[w].inv]
      /\ req[w].who \in invited[req[w].inv]
  BY <1>1 DEF PromiseInv, ConsentInv, RequestsOK, RequestOK, WhoIsInvited, IsUpToDate
<1>3. cache[req[w].inv] # Missing /\ cache[req[w].inv] \in Responses
  BY <1>2 DEF PromiseInv, ConsentInv, TypeOK
<1>4. cache[req[w].inv][req[w].who] # "NotAsked"
  BY <1>2, <1>3 DEF PromiseInv, ConsentInv, CacheOK, Backing
<1>5. /\ cache'[req[w].inv] # Missing
      /\ \A q \in Participants :
           cache'[req[w].inv][q] = IF q = req[w].who THEN req[w].current
                                   ELSE cache[req[w].inv][q]
  BY <1>2, OnlyTheApiFails DEF PromiseInv, WritesIt
<1> QED
  BY <1>2, <1>3, <1>4, <1>5

LEMMA IsUpToDateStep ==
  ASSUME PromiseInv, OnlyRefusals, ConsentMove, NEW w \in Workers
  PROVE  IsUpToDate(w)'
<1> SUFFICES ASSUME Responds(w)', req[w]'.inv \notin overlapped'
             PROVE  /\ req[w]'.pc = "write" => req[w]'.copy = cache'[req[w]'.inv]
                    /\ req[w]'.current = "Transferring" => AllAgree(cache'[req[w]'.inv])
  BY DEF IsUpToDate, AllAgree
<1>1. PICK u \in Workers :
       \/ Invites(u) \/ Tracks(u) \/ Shows(u) \/ Answers(u) \/ ReadsIt(u) \/ WritesIt(u)
       \/ Checks(u) \/ TellsIt(u) \/ Decides(u) \/ Calls(u)
  BY OnlyTheApiFails DEF PromiseInv, ConsentMove
<1>2. overlapped \subseteq overlapped'
  BY <1>1 DEF Invites, Tracks, Shows, Answers, ReadsIt, WritesIt, Checks, TellsIt, Decides, Calls
<1>3. ConsentInv /\ AnswersApart /\ IsUpToDate(w)
  BY DEF PromiseInv
<1>4. CASE u # w
  <2>1. req[w]' = req[w]
    BY <1>1, <1>4 DEF Invites, Tracks, Shows, Answers, ReadsIt, WritesIt, Checks, TellsIt,
      Decides, Calls, OthersStay
  <2>2. Responds(w) /\ req[w].inv \notin overlapped
    BY <1>2, <2>1 DEF Responds
  <2>3. CASE WritesIt(w)
    <3>1. u = w
      BY <1>1, <2>1, <2>3 DEF WritesIt
    <3> QED
      BY <1>4, <3>1
  <2>4. CASE ~WritesIt(w)
    <3>1. cache'[req[w].inv] = cache[req[w].inv]
      BY <1>3, <2>2, <2>4, EntryStays
    <3>2. cache'[req[w]'.inv] = cache[req[w].inv]
      BY <2>1, <3>1
    <3> QED
      BY <1>3, <2>1, <2>2, <3>2 DEF IsUpToDate
  <2> QED
    BY <2>3, <2>4
<1>5. CASE Answers(w)
  BY <1>5 DEF Answers
<1>6. CASE WritesIt(w)
  <2>1. req[w].inv \notin overlapped /\ req[w]'.inv = req[w].inv /\ Responds(w)
    BY <1>2, <1>6 DEF WritesIt, SameAnswer, Responds, Responding
  <2>2. /\ cache[req[w].inv] # Missing /\ cache'[req[w].inv] # Missing
        /\ \A q \in Participants :
             cache'[req[w].inv][q] = IF q = req[w].who THEN req[w].current
                                     ELSE cache[req[w].inv][q]
    BY <1>6, <2>1, WritesAnEntry
  <2>3. req[w]'.current = "Transferring" => AllAgree(cache[req[w].inv])
    BY <1>3, <1>6, <2>1 DEF WritesIt, IsUpToDate
  <2>4. req[w]'.current = "Transferring" => AllAgree(cache'[req[w].inv])
    BY <1>6, <2>2, <2>3 DEF WritesIt, AllAgree
  <2> QED
    BY <1>6, <2>1, <2>4 DEF WritesIt
<1>7. CASE u = w /\ (ReadsIt(w) \/ Checks(w) \/ TellsIt(w) \/ Decides(w) \/ Calls(w))
  <2>1. /\ Responds(w) /\ req[w]'.pc # "idle" /\ SameAnswer(w) /\ ~WritesIt(w)
    BY <1>7 DEF ReadsIt, Checks, TellsIt, TellsOn, Decides, Calls, SameAnswer, WritesIt, Responds,
      Responding
  <2>2. req[w].inv \notin overlapped
    BY <1>2, <2>1 DEF SameAnswer
  <2>3. cache'[req[w].inv] = cache[req[w].inv]
    BY <1>3, <2>1, <2>2, EntryStays
  <2>4. cache'[req[w]'.inv] = cache[req[w].inv]
    BY <2>1, <2>3 DEF SameAnswer
  <2>5. CASE ReadsIt(w)
    BY <1>3, <2>1, <2>2, <2>4, <2>5 DEF ReadsIt, IsUpToDate
  <2>6. CASE Checks(w) \/ TellsIt(w)
    BY <1>3, <2>1, <2>2, <2>4, <2>6 DEF Checks, TellsIt, TellsOn, IsUpToDate
  <2>7. CASE Calls(w)
    BY <2>1, <2>7 DEF Calls
  <2>8. CASE Decides(w)
    <3>1. HaveAllAccepted(cache[req[w].inv]) => AllAgree(cache[req[w].inv])
      BY DEF HaveAllAccepted, AllAgree
    <3> QED
      BY <1>3, <2>1, <2>2, <2>4, <2>8, <3>1 DEF Decides, IsUpToDate
  <2> QED
    BY <1>7, <2>5, <2>6, <2>7, <2>8
<1>8. ~(u = w /\ (Invites(w) \/ Tracks(w) \/ Shows(w)))
  BY DEF Invites, Tracks, Shows, Responds, Responding
<1> QED
  BY <1>1, <1>4, <1>5, <1>6, <1>7, <1>8

LEMMA PromiseInit == Init => PromiseInv
<1> SUFFICES ASSUME Init PROVE PromiseInv
  OBVIOUS
<1>1. ConsentInv /\ AnswersApart
  BY LatestInit DEF LatestInv
<1>2. WhoIsInvited /\ NewIsUnstored /\ \A w \in Workers : IsUpToDate(w)
  BY IdleAtFirst DEF WhoIsInvited, NewIsUnstored, IsUpToDate, Responds, Responding
<1> QED
  BY <1>1, <1>2 DEF PromiseInv

LEMMA PromiseNext ==
  PromiseInv /\ [Next]_vars /\ [OnlyRefusals]_vars => PromiseInv'
<1> SUFFICES ASSUME PromiseInv, [Next]_vars, OnlyRefusals PROVE PromiseInv'
  BY DEF OnlyRefusals, vars
<1>0. ConsentInv'
  BY ConsentNext DEF PromiseInv
<1>1. CASE Next
  <2>1. ConsentMove
    BY <1>1, ConsentMoves DEF PromiseInv
  <2>2. AnswersApart'
    BY <2>1, NewIsAloneStep, OneRespondsStep, CurrentOKStep DEF PromiseInv, AnswersApart
  <2>3. WhoIsInvited' /\ NewIsUnstored'
    BY <2>1, WhoIsInvitedStep, NewIsUnstoredStep DEF PromiseInv, AnswersApart
  <2>4. \A w \in Workers : IsUpToDate(w)'
    BY <2>1, IsUpToDateStep
  <2> QED
    BY <1>0, <2>2, <2>3, <2>4 DEF PromiseInv
<1>2. CASE UNCHANGED vars
  <2>1. AnswersApart'
    BY <1>2 DEF vars, historyVars, PromiseInv, AnswersApart, NewIsAlone, OneResponds, CurrentOK,
      Responds
  <2>2. WhoIsInvited' /\ NewIsUnstored' /\ \A w \in Workers : IsUpToDate(w)'
    BY <1>2 DEF vars, historyVars, PromiseInv, WhoIsInvited, NewIsUnstored, IsUpToDate, AllAgree,
      Responds
  <2> QED
    BY <1>0, <2>1, <2>2 DEF PromiseInv
<1> QED
  BY <1>1, <1>2

-----------------------------------------------------------------------------
(***************************************************************************)
(* The refinement, step by step.                                           *)
(***************************************************************************)
\* The steps of the promise, of the consents the cache stands for.
Asks(i) ==
  /\ \A p \in Participants : ConsentOf(i)[p] = "NotAsked"
  /\ \E p \in Participants : \A q \in Participants :
       ConsentOf(i)'[q] = IF q \in Group(p) THEN "None" ELSE "NotAsked"

Consenting(i) ==
  \E p \in Participants, a \in {"Accepted", "Rejected", "Failed"} :
    /\ ConsentOf(i)[p] # "NotAsked"
    /\ \A q \in Participants : ConsentOf(i)'[q] = IF q = p THEN a ELSE ConsentOf(i)[q]

\* The invitations whose consents a step leaves alone.
ConsentStays(i) == cache'[i] = cache[i]

LEMMA ConsentKept ==
  ASSUME NEW i, ConsentStays(i)
  PROVE  ConsentOf(i)' = ConsentOf(i)
BY DEF ConsentStays, ConsentOf

LEMMA TracksAsks ==
  ASSUME PromiseInv, OnlyRefusals, NEW w \in Workers, Tracks(w)
  PROVE  \E i \in Invitations :
           /\ Asks(i) /\ UNCHANGED moved
           /\ \A j \in Invitations : j # i => ConsentStays(j)
<1>1. req[w].inv \in Invitations /\ cache[req[w].inv] = Missing
  BY DEF Tracks, PromiseInv, NewIsUnstored, ConsentInv, RequestsOK, RequestOK
<1>2. PICK i \in Invitations : i = req[w].inv
  BY <1>1
<1>3. cache'[i] = Create(req[w].who) /\ req[w].who \in Participants /\ cache[i] = Missing
  BY <1>1, <1>2, OnlyTheApiFails DEF PromiseInv, Tracks
<1>4. cache'[i] # Missing
  <2>1. Create(req[w].who) \in Responses
    BY <1>3 DEF Create, Responses, ConsultationAnswer
  <2> QED
    BY <1>3, <2>1, MissingAssumption
<1>5. \A p \in Participants : ConsentOf(i)[p] = "NotAsked"
  BY <1>3 DEF ConsentOf
<1>6. \A q \in Participants :
        ConsentOf(i)'[q] = IF q \in Group(req[w].who) THEN "None" ELSE "NotAsked"
  BY <1>3, <1>4 DEF ConsentOf, Create
<1> QED
  BY <1>2, <1>3, <1>5, <1>6 DEF Tracks, Asks, ConsentStays

LEMMA WritesConsent ==
  ASSUME PromiseInv, OnlyRefusals, NEW w \in Workers, WritesIt(w), req[w].inv \notin overlapped
  PROVE  \E i \in Invitations :
           /\ Consenting(i) /\ UNCHANGED moved
           /\ \A j \in Invitations : j # i => ConsentStays(j)
<1>1. req[w].inv \in Invitations /\ req[w].who \in Participants
  BY WritesAnEntry
<1>2. PICK i \in Invitations : i = req[w].inv
  BY <1>1
<1>3. PICK p \in Participants : p = req[w].who
  BY <1>1
<1>4. /\ cache[i] # Missing /\ cache[i][p] # "NotAsked"
      /\ \A q \in Participants : cache'[i][q] = IF q = p THEN req[w].current ELSE cache[i][q]
  BY <1>2, <1>3, WritesAnEntry
<1>5. cache'[i] # Missing
  BY <1>2, WritesAnEntry
<1>6. req[w].current \in {"Accepted", "Rejected", "Transferring", "Failed"}
  BY DEF PromiseInv, AnswersApart, CurrentOK, WritesIt, Responds, Responding
<1>7. PICK a \in {"Accepted", "Rejected", "Failed"} :
        a = IF req[w].current = "Transferring" THEN "Accepted" ELSE req[w].current
  BY <1>6
<1>8. ConsentOf(i)[p] # "NotAsked"
  BY <1>4 DEF ConsentOf
<1>9. \A q \in Participants : ConsentOf(i)'[q] = IF q = p THEN a ELSE ConsentOf(i)[q]
  BY <1>4, <1>5, <1>7 DEF ConsentOf
<1> QED
  BY <1>2, <1>8, <1>9 DEF WritesIt, Consenting, ConsentStays

\* The Video API is asked to move those who agree.
LEMMA CallsMove ==
  ASSUME PromiseInv, NEW w \in Workers, Calls(w), req[w].inv \notin overlapped
  PROVE  \/ UNCHANGED <<cache, moved>>
         \/ /\ req[w].inv \in Invitations /\ moved' = moved \cup {req[w].inv} /\ UNCHANGED cache
            /\ \E p \in Participants : ConsentOf(req[w].inv)[p] # "NotAsked"
            /\ \A p \in Participants : ConsentOf(req[w].inv)[p] \in {"Accepted", "NotAsked"}
<1>1. req[w].pc = "call" /\ Responds(w)
  BY DEF Calls, Responds, Responding
<1>2. CASE moved' = moved
  BY <1>2 DEF Calls
<1>3. CASE moved' # moved
  <2>1. req[w].answer = "Accepted" /\ moved' = moved \cup {req[w].inv} /\ UNCHANGED cache
    BY <1>3 DEF Calls
  <2>2. /\ req[w].current = "Transferring" /\ req[w].inv \in Invitations
        /\ req[w].who \in Participants
    BY <1>1, <2>1 DEF PromiseInv, ConsentInv, RequestsOK, RequestOK
  <2>3. AllAgree(cache[req[w].inv])
    BY <1>1, <2>2 DEF PromiseInv, IsUpToDate
  <2>4. cache[req[w].inv][req[w].who] # "NotAsked"
    BY <1>1, <2>2, <2>3 DEF PromiseInv, ConsentInv, WhoIsInvited, AllAgree, CacheOK, Backing
  <2>5. \A p \in Participants : ConsentOf(req[w].inv)[p] \in {"Accepted", "NotAsked"}
    BY <2>2, <2>3 DEF AllAgree, ConsentOf
  <2>6. ConsentOf(req[w].inv)[req[w].who] # "NotAsked"
    BY <2>2, <2>3, <2>4 DEF AllAgree, ConsentOf
  <2> QED
    BY <2>1, <2>2, <2>5, <2>6
<1> QED
  BY <1>2, <1>3

LEMMA AskIsPromised ==
  ASSUME NEW i \in Invitations, Asks(i), UNCHANGED moved,
         \A j \in Invitations : j # i => ConsentStays(j)
  PROVE  Promise!Next
<1>1. PICK p \in Participants : \A q \in Participants :
        ConsentOf(i)'[q] = IF q \in Group(p) THEN "None" ELSE "NotAsked"
  BY DEF Asks
<1>2. Group(p) \in {Group(q) : q \in Participants}
  BY <1>1
<1>3. Promise!Asked(i) = {}
  BY DEF Asks, Promise!Asked
<1>4. ConsentOf(i)' = [q \in Participants |-> IF q \in Group(p) THEN "None" ELSE "NotAsked"]
  BY <1>1 DEF ConsentOf
<1>5. \A j \in Invitations : j # i => ConsentOf(j)' = ConsentOf(j)
  BY ConsentKept
<1>6. [j \in Invitations |-> ConsentOf(j)]'
        = [[j \in Invitations |-> ConsentOf(j)] EXCEPT
             ![i] = [q \in Participants |-> IF q \in Group(p) THEN "None" ELSE "NotAsked"]]
  BY <1>4, <1>5
<1>7. Promise!Ask(i, Group(p))
  BY <1>2, <1>3, <1>6 DEF Promise!Ask
<1> QED
  BY <1>2, <1>7 DEF Promise!Next

LEMMA AnswerIsPromised ==
  ASSUME NEW i \in Invitations, Consenting(i), UNCHANGED moved,
         \A j \in Invitations : j # i => ConsentStays(j)
  PROVE  Promise!Next
<1>1. PICK p \in Participants, a \in {"Accepted", "Rejected", "Failed"} :
        /\ ConsentOf(i)[p] # "NotAsked"
        /\ \A q \in Participants : ConsentOf(i)'[q] = IF q = p THEN a ELSE ConsentOf(i)[q]
  BY DEF Consenting
<1>2. p \in Promise!Asked(i)
  BY <1>1 DEF Promise!Asked
<1>3. ConsentOf(i)' = [ConsentOf(i) EXCEPT ![p] = a]
  BY <1>1 DEF ConsentOf
<1>4. \A j \in Invitations : j # i => ConsentOf(j)' = ConsentOf(j)
  BY ConsentKept
<1>5. [j \in Invitations |-> ConsentOf(j)]'
        = [[j \in Invitations |-> ConsentOf(j)] EXCEPT ![i] = [ConsentOf(i) EXCEPT ![p] = a]]
  BY <1>3, <1>4
<1>6. [j \in Invitations |-> ConsentOf(j)]'
        = [[j \in Invitations |-> ConsentOf(j)] EXCEPT ![i][p] = a]
  BY <1>5
<1>7. Promise!Answer(i, p, a)
  BY <1>2, <1>6 DEF Promise!Answer
<1> QED
  BY <1>7 DEF Promise!Next, Promise!Answers

LEMMA MoveIsPromised ==
  ASSUME NEW i \in Invitations, moved' = moved \cup {i}, UNCHANGED cache,
         \E p \in Participants : ConsentOf(i)[p] # "NotAsked",
         \A p \in Participants : ConsentOf(i)[p] \in {"Accepted", "NotAsked"}
  PROVE  Promise!Next
<1>1. Promise!Agreed(i)
  BY DEF Promise!Agreed, Promise!Asked
<1>2. [j \in Invitations |-> ConsentOf(j)]' = [j \in Invitations |-> ConsentOf(j)]
  BY DEF ConsentOf
<1>3. Promise!Move(i)
  BY <1>1, <1>2 DEF Promise!Move
<1> QED
  BY <1>3 DEF Promise!Next

LEMMA StepIsPromised ==
  ASSUME PromiseInv, OnlyRefusals, NoneOverlapped, [Next]_vars
  PROVE  [Promise!Next]_(Promise!vars)
<1>1. CASE Next
  <2>1. PICK w \in Workers :
         \/ Invites(w) \/ Tracks(w) \/ Shows(w) \/ Answers(w) \/ ReadsIt(w) \/ WritesIt(w)
         \/ Checks(w) \/ TellsIt(w) \/ Decides(w) \/ Calls(w)
    BY <1>1, ConsentMoves, OnlyTheApiFails DEF PromiseInv, ConsentMove
  <2>2. CASE Tracks(w)
    BY <2>2, TracksAsks, AskIsPromised
  <2>3. CASE WritesIt(w)
    BY <2>3, WritesConsent, AnswerIsPromised DEF NoneOverlapped
  <2>4. CASE UNCHANGED <<cache, moved>>
    BY <2>4 DEF Promise!vars, ConsentOf
  <2>5. CASE Calls(w)
    BY <2>4, <2>5, CallsMove, MoveIsPromised DEF NoneOverlapped
  <2> QED
    BY <2>1, <2>2, <2>3, <2>4, <2>5 DEF Invites, Shows, Answers, ReadsIt, Checks, TellsIt, Decides
<1>2. CASE UNCHANGED vars
  BY <1>2 DEF vars, Promise!vars, ConsentOf
<1> QED
  BY <1>1, <1>2

\* The refinement of the promise, but for what must eventually happen: while only
\* the Video API refuses and the answers to an invitation come one at a time,
\* what RespondToConsultationRequestAsync does to the cached invitation and to
\* the invited is a step of JointConsent or no step of it.
THEOREM PromiseIsKept ==
  Spec /\ [][OnlyRefusals]_vars /\ []NoneOverlapped
    => Promise!Init /\ [][Promise!Next]_(Promise!vars)
<1>1. Init => Promise!Init
  BY DEF Init, Promise!Init, ConsentOf
<1>2. PromiseInv /\ NoneOverlapped /\ [Next]_vars /\ [OnlyRefusals]_vars
      => [Promise!Next]_(Promise!vars)
  BY StepIsPromised DEF OnlyRefusals, vars
<1>3. PromiseInv /\ [Next]_vars /\ [OnlyRefusals]_vars => PromiseInv'
  BY PromiseNext
<1> QED
  BY <1>1, <1>2, <1>3, PromiseInit, PTL DEF Spec
=============================================================================
