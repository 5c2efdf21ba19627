---------------------------- MODULE ServicesProofs ----------------------------
(***************************************************************************)
(* The services. Rights reviews (Reviews), what the public gets of them    *)
(* (PublicApi) and the throttle of the logins before them (AdminSessions): *)
(* for any reviewers, case versions, forms, keys and browsers, and any     *)
(* number of reviews. The log of reviews is lawful, which makes the latest *)
(* review of a case the one with the highest id; what is acknowledged,     *)
(* queued and served rests on that and on the log growing at its end only. *)
(* Then what the parts behind an import keep: the bucket of originals      *)
(* (ObjectStore), the mirror of a repository (GitMirror) and the canonical *)
(* cases of the rows (CaseIdentity). What callers were told stays true, for *)
(* any number of processes and contents, any commit graph, any documents,  *)
(* and whatever the operator of the bucket and the owner of the repository *)
(* do meanwhile. Each part has an invariant of its own; no other part      *)
(* touches its state.                                                      *)
(***************************************************************************)
EXTENDS Services, OrderProofs, SequenceTheorems, TLAPS

Answers ==
  {"none", "recorded", "verified_existing", "idempotency_conflict", "invalid", "quality_invalid",
   "content_quality_blocked", "target_missing", "stale",
   "session_invalid", "origin_forbidden", "csrf_invalid", "permission_denied", "admitted"}
ReviewStates == {"none", "publishable", "blocked", "internal_only", "review_required"}
Requests ==
  [pc : {"idle", "deciding", "sent", "told", "unanswered"},
   review : ReviewRecords,
   answer : Answers,
   batch : Int,
   state : ReviewStates]

\* A request is about a case version while it is decided, and what it was told
\* last is what the log says.
RequestTrue(q) ==
  /\ q.pc = "deciding" => q.review.target \in Versions
  /\ q.answer \in {"recorded", "verified_existing"} =>
       /\ q.pc = "told"
       /\ q.batch \in DOMAIN batches
       /\ batches[q.batch] = q.review

ReviewInv ==
  /\ clock \in Int
  /\ request \in [Reviewers -> Requests]
  /\ \A r \in Reviewers : RequestTrue(request[r])
  /\ Lawful(batches)

-----------------------------------------------------------------------------
(* The log.                                                                *)

\* Ids count from one, and every row is a review.
LEMMA LogRows ==
  ASSUME Lawful(batches), NEW b \in DOMAIN batches
  PROVE  /\ b \in Nat /\ b # Nobody
         /\ batches[b] \in ReviewRecords
         /\ batches[b].at \in Int
<1>1. batches \in Seq(ReviewRecords)
  BY DEF Lawful
<1>2. b \in Nat /\ b # Nobody /\ batches[b] \in ReviewRecords
  BY <1>1 DEF Nobody
<1> QED  BY <1>2 DEF ReviewRecords

\* Where times never go back, the newest review is the one of the highest id.
LEMMA LatestIsNewest ==
  ASSUME Lawful(batches), NEW v, NEW m, Newest(batches, v, m)
  PROVE  Latest(v) = m
<1> DEFINE of == {b \in DOMAIN batches : batches[b].target = v}
           Wins(b) == \A c \in of : \/ batches[c].at < batches[b].at
                                    \/ batches[c].at = batches[b].at /\ c <= b
<1>1. \A b \in DOMAIN batches : batches[b].at \in Int /\ b \in Int
  BY LogRows
<1>2. m \in of /\ Wins(m)
  BY <1>1 DEF Newest
<1>3. \A b \in of : Wins(b) => b = m
  BY <1>1 DEF Newest
<1> QED  BY <1>2, <1>3 DEF Latest

\* A case with a review has a latest one, which is its own; one without has none.
LEMMA LatestOf ==
  ASSUME Lawful(batches), NEW v
  PROVE  \/ /\ Newest(batches, v, Latest(v))
            /\ Latest(v) # Nobody
         \/ /\ Latest(v) = Nobody
            /\ \A b \in DOMAIN batches : batches[b].target # v
<1>1. CASE \A b \in DOMAIN batches : batches[b].target # v
  BY <1>1 DEF Latest
<1>2. ASSUME NEW b \in DOMAIN batches, batches[b].target = v
      PROVE  Newest(batches, v, Latest(v)) /\ Latest(v) # Nobody
  <2>1. PICK m \in DOMAIN batches : Newest(batches, v, m)
    BY <1>2 DEF Lawful
  <2>2. m # Nobody
    BY DEF Lawful, Nobody
  <2> QED  BY <2>1, <2>2, LatestIsNewest
<1> QED  BY <1>1, <1>2

\* A review of all outputs that saw the latest one, and is not older, can follow.
LEMMA LawfulAppend ==
  ASSUME Lawful(batches), NEW s \in ReviewRecords,
         DOMAIN s.form.decisions = Facts[s.target].outputs,
         \A o \in DOMAIN s.form.decisions : Consistent(s.form.decisions[o]),
         s.expected = Latest(s.target),
         Latest(s.target) # Nobody => batches[Latest(s.target)].at <= s.at
  PROVE  Lawful(Append(batches, s))
<1>1. PICK log : log = Append(batches, s)
  OBVIOUS
<1>2. PICK n \in Nat : n = Len(batches)
  BY DEF Lawful
<1>3. batches \in Seq(ReviewRecords) /\ DOMAIN batches = 1 .. n
  BY <1>2 DEF Lawful
<1>4. log \in Seq(ReviewRecords) /\ DOMAIN log = 1 .. n + 1 /\ log[n + 1] = s
      /\ \A b \in 1 .. n : log[b] = batches[b]
  BY <1>1, <1>2, <1>3
<1>5. Newest(log, s.target, n + 1)
  <2>1. ASSUME NEW c \in 1 .. n, batches[c].target = s.target
        PROVE  batches[c].at <= s.at
    <3>1. Newest(batches, s.target, Latest(s.target)) /\ Latest(s.target) # Nobody
      BY <1>3, <2>1, LatestOf
    <3>2. PICK m \in DOMAIN batches : m = Latest(s.target)
      BY <3>1 DEF Newest
    <3>3. batches[c].at \in Int /\ batches[m].at \in Int
      BY <1>3, LogRows
    <3>4. s.at \in Int
      BY DEF ReviewRecords
    <3>5. batches[c].at <= batches[m].at /\ batches[m].at <= s.at
      BY <1>3, <2>1, <3>1, <3>2 DEF Newest
    <3> QED  BY <3>3, <3>4, <3>5
  <2>2. s.at \in Int
    BY DEF ReviewRecords
  <2> QED  BY <1>4, <2>1, <2>2 DEF Newest
<1>6. ASSUME NEW b \in 1 .. n
      PROVE  \E m \in 1 .. n + 1 : Newest(log, log[b].target, m)
  <2>1. CASE log[b].target = s.target
    BY <1>5, <2>1
  <2>2. CASE log[b].target # s.target
    <3>1. PICK m \in 1 .. n : Newest(batches, batches[b].target, m)
      BY <1>3 DEF Lawful
    <3>2. m \in 1 .. n + 1 /\ m \in DOMAIN log /\ log[b].target = batches[b].target
      BY <1>3, <1>4
    <3>3. Newest(log, log[b].target, m)
      BY <1>3, <1>4, <2>2, <3>1, <3>2 DEF Newest
    <3> QED  BY <3>2, <3>3
  <2> QED  BY <2>1, <2>2
<1>7. ASSUME NEW b \in 1 .. n
      PROVE  InSight(log, b)
  <2>1. Before(log, b) = Before(batches, b)
    BY <1>4 DEF Before
  <2> QED  BY <1>3, <1>4, <2>1 DEF InSight, Lawful
<1>8. InSight(log, n + 1)
  <2>1. Before(log, n + 1) = {c \in 1 .. n : batches[c].target = s.target}
    BY <1>4 DEF Before
  <2>2. CASE Latest(s.target) = Nobody
    <3>1. Before(log, n + 1) = {}
      BY <1>3, <2>1, <2>2, LatestOf
    <3> QED  BY <1>4, <2>2, <3>1 DEF InSight
  <2>3. CASE Latest(s.target) # Nobody
    <3>1. Newest(batches, s.target, Latest(s.target))
      BY <2>3, LatestOf
    <3>2. Latest(s.target) \in Before(log, n + 1)
          /\ \A d \in Before(log, n + 1) : d <= Latest(s.target)
      BY <1>3, <2>1, <3>1 DEF Newest
    <3>3. \A c \in Before(log, n + 1) :
            (\A d \in Before(log, n + 1) : d <= c) => c = Latest(s.target)
      BY <2>1, <3>2
    <3>4. (CHOOSE c \in Before(log, n + 1) : \A d \in Before(log, n + 1) : d <= c) = Latest(s.target)
      BY <3>2, <3>3
    <3> QED  BY <1>4, <3>2, <3>4 DEF InSight
  <2> QED  BY <2>2, <2>3
<1>9. ASSUME NEW b \in DOMAIN log
      PROVE  /\ DOMAIN log[b].form.decisions = Facts[log[b].target].outputs
             /\ \A o \in DOMAIN log[b].form.decisions : Consistent(log[b].form.decisions[o])
             /\ InSight(log, b)
             /\ \E m \in DOMAIN log : Newest(log, log[b].target, m)
  <2>1. CASE b = n + 1
    BY <1>4, <1>5, <1>8, <2>1
  <2>2. CASE b # n + 1
    <3>1. b \in 1 .. n
      BY <1>4, <2>2
    <3> QED  BY <1>3, <1>4, <1>6, <1>7, <3>1 DEF Lawful
  <2> QED  BY <2>1, <2>2
<1> QED  BY <1>1, <1>4, <1>9 DEF Lawful

-----------------------------------------------------------------------------
(* The answers.                                                            *)

\* A request that nobody has made yet.
LEMMA NoRequestTyped ==
  /\ NoReview \in ReviewRecords
  /\ NoRequest \in Requests
  /\ NoRequest.answer = "none" /\ NoRequest.pc = "idle"
<1>1. 0 \in ReviewKeys /\ 0 \in Versions \cup {0} /\ Nobody \in Int /\ 0 \in Int
  BY DEF ReviewKeys, Nobody
<1>2. "nobody" \in Authors
  BY DEF Authors
<1>3. NoForm \in ReviewForms
  BY DEF ReviewForms
<1>4. NoReview \in ReviewRecords
  BY <1>1, <1>2, <1>3 DEF NoReview, ReviewRecords
<1>5. "none" \in Answers /\ "none" \in ReviewStates
  BY DEF Answers, ReviewStates
<1> QED  BY <1>1, <1>4, <1>5 DEF NoRequest, Requests

\* A service begins without requests, on a log that reviews made or on none.
LEMMA ReviewsInitially == Init => ReviewInv
<1> SUFFICES ASSUME Init
             PROVE  ReviewInv
  OBVIOUS
<1>1. clock \in Int
  BY DEF Init, SessionInit
<1>2. Lawful(<<>>)
  BY DEF Lawful
<1>3. batches \in {Recorded2, <<>>} /\ request = [r \in Reviewers |-> NoRequest]
  BY DEF Init, ReviewInit
<1> QED  BY <1>1, <1>2, <1>3, NoRequestTyped, RecordedAssumption DEF ReviewInv, RequestTrue

\* A step of one request that records nothing.
LEMMA RequestStep ==
  ASSUME ReviewInv, NEW r \in Reviewers, NEW q \in Requests,
         request' = [request EXCEPT ![r] = q], UNCHANGED <<clock, batches>>,
         RequestTrue(q)
  PROVE  ReviewInv'
BY DEF ReviewInv, RequestTrue

\* What a review makes of a case is one of the states.
LEMMA EffectiveStates == ASSUME NEW form PROVE EffectiveState(form) \in ReviewStates
BY DEF EffectiveState, ReviewStates

\* What is told of a batch.
LEMMA InspectedStates == ASSUME NEW log, NEW b PROVE InspectedState(log, b) \in ReviewStates
BY EffectiveStates DEF InspectedState, ReviewStates

\* An answer about a batch that the log has, or about none.
LEMMA TellStep ==
  ASSUME ReviewInv, NEW r \in Reviewers, NEW answer \in Answers, NEW batch \in Int,
         Tell(r, answer, batch), UNCHANGED <<clock, batches>>,
         answer \in {"recorded", "verified_existing"} =>
           batch \in DOMAIN batches /\ batches[batch] = request[r].review
  PROVE  ReviewInv'
<1>1. PICK state : state = InspectedState(batches', batch)
  OBVIOUS
<1>2. state \in ReviewStates /\ request[r] \in Requests
  BY <1>1, InspectedStates DEF ReviewInv
<1>3. PICK q : q = [request[r] EXCEPT !.pc = "told", !.answer = answer, !.batch = batch, !.state = state]
  OBVIOUS
<1>4. q \in Requests /\ q.pc = "told" /\ q.review = request[r].review /\ q.answer = answer /\ q.batch = batch
  BY <1>2, <1>3 DEF Requests
<1>5. RequestTrue(q)
  BY <1>4 DEF RequestTrue
<1>6. request' = [request EXCEPT ![r] = q]
  BY <1>1, <1>3 DEF Tell
<1> QED  BY <1>4, <1>5, <1>6, RequestStep

\* A page is opened, a decision is sent or its answer lost.
LEMMA PageSteps ==
  ASSUME ReviewInv, NEW r \in Reviewers, clock' = clock,
         \/ \E v \in Versions : Open(r, v)
         \/ \E key \in UNION {KeysOf[q] : q \in Reviewers}, at \in Ticks :
               \E form \in Proposals(r) : Send(r, form, key, at)
         \/ SendForbidden(r) \/ AnswerLost(r) \/ SendAgain(r)
  PROVE  ReviewInv'
<1>1. request[r] \in Requests /\ RequestTrue(request[r]) /\ clock \in Int
  BY DEF ReviewInv
<1>2. request[r].review \in ReviewRecords
  BY <1>1 DEF Requests
<1>3. NoReview \in ReviewRecords
  BY NoRequestTyped
<1>4. NoRequest \in Requests
  BY NoRequestTyped
<1>5. UNCHANGED batches
  BY DEF Open, Send, SendForbidden, AnswerLost, SendAgain
<1>6. ASSUME NEW v \in Versions, Open(r, v)
      PROVE  ReviewInv'
  <2>1. Latest(v) \in Int
    BY LatestOf, LogRows DEF ReviewInv, Newest, Nobody
  <2>2. PICK latest \in Int : latest = Latest(v)
    BY <2>1
  <2>3. PICK s : s = [NoReview EXCEPT !.target = v, !.expected = latest]
    OBVIOUS
  <2>4. s \in ReviewRecords /\ s.target = v
    BY <1>3, <2>3 DEF ReviewRecords, NoReview
  <2>5. PICK q : q = [NoRequest EXCEPT !.pc = "deciding", !.review = s]
    OBVIOUS
  <2>6. q \in Requests /\ q.pc = "deciding" /\ q.answer = "none" /\ q.review = s
    BY <1>4, <2>4, <2>5 DEF Requests, NoRequest
  <2>7. RequestTrue(q)
    BY <2>4, <2>6 DEF RequestTrue
  <2>8. request' = [request EXCEPT ![r] = q]
    BY <1>6, <2>2, <2>3, <2>5 DEF Open
  <2> QED  BY <1>5, <2>6, <2>7, <2>8, RequestStep
<1>7. ASSUME NEW key \in UNION {KeysOf[q] : q \in Reviewers}, NEW at \in Ticks, NEW form \in Proposals(r),
             Send(r, form, key, at)
      PROVE  ReviewInv'
  <2>1. request[r].pc = "deciding" /\ form \in Forms[request[r].review.target]
        /\ request[r].review.target \in Versions
    BY <1>1, <1>7 DEF Send, Step, Proposals, RequestTrue
  <2>2. form \in ReviewForms /\ key \in ReviewKeys /\ r \in Authors
    BY <2>1 DEF ReviewForms, ReviewKeys, Authors
  <2>3. at \in Int
    BY <1>1, <1>7, ReviewsAssumption DEF Send
  <2>4. PICK s : s = Signed(r, form, key, at)
    OBVIOUS
  <2>5. s \in ReviewRecords
    BY <1>2, <2>2, <2>3, <2>4 DEF Signed, ReviewRecords
  <2>6. PICK q : q = [request[r] EXCEPT !.pc = "sent", !.review = s]
    OBVIOUS
  <2>7. q \in Requests /\ q.pc = "sent" /\ q.answer = request[r].answer
    BY <1>1, <2>5, <2>6 DEF Requests
  <2>8. RequestTrue(q)
    BY <1>1, <2>1, <2>7 DEF RequestTrue
  <2>9. request' = [request EXCEPT ![r] = q]
    BY <1>7, <2>4, <2>6 DEF Send
  <2> QED  BY <1>5, <2>7, <2>8, <2>9, RequestStep
<1>8. CASE SendForbidden(r)
  <2>1. PICK answer : answer = Admission(r, {"reviewer", "admin"}, TRUE, TRUE)
    OBVIOUS
  <2>2. answer \in Answers \ {"recorded", "verified_existing"}
    BY <2>1 DEF Admission, Answers
  <2>3. PICK q : q = [NoRequest EXCEPT !.pc = "told", !.answer = answer]
    OBVIOUS
  <2>4. q \in Requests /\ q.pc = "told" /\ q.answer = answer
    BY <1>4, <2>2, <2>3 DEF Requests, NoRequest
  <2>5. RequestTrue(q)
    BY <2>2, <2>4 DEF RequestTrue
  <2>6. request' = [request EXCEPT ![r] = q]
    BY <1>8, <2>1, <2>3 DEF SendForbidden
  <2> QED  BY <1>5, <2>4, <2>5, <2>6, RequestStep
<1>9. CASE AnswerLost(r)
  <2>1. PICK q : q = [request[r] EXCEPT !.pc = "unanswered", !.answer = "none", !.batch = Nobody, !.state = "none"]
    OBVIOUS
  <2>2. Nobody \in Int /\ "none" \in Answers /\ "none" \in ReviewStates
    BY DEF Nobody, Answers, ReviewStates
  <2>3. q \in Requests /\ q.pc = "unanswered" /\ q.answer = "none"
    BY <1>1, <2>1, <2>2 DEF Requests
  <2>4. RequestTrue(q)
    BY <2>3 DEF RequestTrue
  <2>5. request' = [request EXCEPT ![r] = q]
    BY <1>9, <2>1 DEF AnswerLost
  <2> QED  BY <1>5, <2>3, <2>4, <2>5, RequestStep
<1>10. CASE SendAgain(r)
  <2>1. PICK s : s = IF r \in Scripted THEN request[r].review ELSE [request[r].review EXCEPT !.at = clock]
    OBVIOUS
  <2>2. s \in ReviewRecords
    BY <1>1, <1>2, <2>1 DEF ReviewRecords
  <2>3. PICK q : q = [request[r] EXCEPT !.pc = "sent", !.review = s]
    OBVIOUS
  <2>4. q \in Requests /\ q.pc = "sent" /\ q.answer = request[r].answer
    BY <1>1, <2>2, <2>3 DEF Requests
  <2>5. RequestTrue(q)
    BY <1>1, <1>10, <2>4 DEF RequestTrue, SendAgain, Step
  <2>6. request' = [request EXCEPT ![r] = q]
    BY <1>10, <2>1, <2>3 DEF SendAgain
  <2> QED  BY <1>5, <2>4, <2>5, <2>6, RequestStep
<1> QED  BY <1>6, <1>7, <1>8, <1>9, <1>10

\* A known key is answered by its batch, and only by one that says the same.
LEMMA AgainStep ==
  ASSUME ReviewInv, NEW r \in Reviewers, clock' = clock, SubmitAgain(r)
  PROVE  ReviewInv'
<1>1. PICK s : s = request[r].review
  OBVIOUS
<1>2. PICK known : known = CHOOSE b \in Bound(s.key) : TRUE
  OBVIOUS
<1>3. known \in DOMAIN batches /\ batches[known].key = s.key
  BY <1>1, <1>2 DEF SubmitAgain, Bound
<1>4. known \in Int /\ batches[known] \in ReviewRecords /\ s \in ReviewRecords
  BY <1>1, <1>3, LogRows DEF ReviewInv, Requests
<1>5. PICK answer : answer = ReplayAnswer(s)
  OBVIOUS
<1>6. answer \in Answers
  BY <1>5 DEF ReplayAnswer, Answers
<1>7. answer # "recorded" /\ (answer = "verified_existing" => SameFacts(batches[known], s))
  BY <1>2, <1>5 DEF ReplayAnswer
<1>8. SameFacts(batches[known], s) => batches[known] = s
  BY <1>3, <1>4 DEF SameFacts, ReviewRecords
<1> QED  BY <1>1, <1>2, <1>3, <1>4, <1>5, <1>6, <1>7, <1>8, TellStep DEF SubmitAgain

\* A ledger entry, the lack of outputs, a form that is not legal, a newer review or
\* an older time: whatever refuses a review, it is not an acknowledgement.
LEMMA Refusals ==
  ASSUME NEW s
  PROVE  /\ Refusal(s) \in Answers \ {"recorded", "verified_existing"}
         /\ Refusal(s) = "none" =>
              /\ OutputIds(s.target, TRUE) # {} /\ Normal(s, OutputIds(s.target, TRUE))
              /\ Latest(s.target) = s.expected
              /\ ~(Latest(s.target) # Nobody /\ s.at < batches[Latest(s.target)].at)
<1>1. FactsVerdict(s.target) \in {"drifted", "blocked", "eligible"}
  BY DEF FactsVerdict, QueueVerdict
<1> QED  BY <1>1 DEF Refusal, Answers

\* A refused review leaves the log alone.
LEMMA RefusedStep ==
  ASSUME ReviewInv, NEW r \in Reviewers, clock' = clock, SubmitRefused(r)
  PROVE  ReviewInv'
<1>1. PICK answer : answer = Refusal(request[r].review)
  OBVIOUS
<1>2. answer \in Answers /\ answer \notin {"recorded", "verified_existing"}
  BY <1>1, Refusals
<1>3. Tell(r, answer, Nobody) /\ UNCHANGED batches /\ Nobody \in Int
  BY <1>1 DEF SubmitRefused, Nobody
<1> QED  BY <1>2, <1>3, TellStep

\* A recorded review extends the log lawfully, and is the one that is told.
LEMMA RecordedStep ==
  ASSUME ReviewInv, NEW r \in Reviewers, clock' = clock, SubmitRecorded(r)
  PROVE  ReviewInv'
<1>1. PICK s : s = request[r].review
  OBVIOUS
<1>2. request[r] \in Requests /\ s \in ReviewRecords /\ Lawful(batches) /\ s.at \in Int
  BY <1>1 DEF ReviewInv, Requests, ReviewRecords
<1>3. /\ OutputIds(s.target, TRUE) # {} /\ Normal(s, OutputIds(s.target, TRUE))
      /\ Latest(s.target) = s.expected
      /\ ~(Latest(s.target) # Nobody /\ s.at < batches[Latest(s.target)].at)
  BY <1>1, Refusals DEF SubmitRecorded
<1>4. /\ DOMAIN s.form.decisions = Facts[s.target].outputs
      /\ \A o \in DOMAIN s.form.decisions : Consistent(s.form.decisions[o])
  BY <1>3 DEF OutputIds, Normal
<1>5. Latest(s.target) # Nobody => batches[Latest(s.target)].at <= s.at
  <2>1. Latest(s.target) # Nobody => batches[Latest(s.target)].at \in Int
    BY <1>2, LatestOf, LogRows DEF Newest
  <2> QED  BY <1>2, <1>3, <2>1
<1>6. batches' = Append(batches, s) /\ Lawful(batches)'
  <2>1. Lawful(Append(batches, s))
    BY <1>2, <1>3, <1>4, <1>5, LawfulAppend
  <2>2. batches' = Append(batches, s)
    BY <1>1 DEF SubmitRecorded
  <2> QED  BY <2>1, <2>2
<1>7. PICK n \in Nat : n = Len(batches)
  BY <1>2 DEF Lawful
<1>8. DOMAIN batches = 1 .. n /\ DOMAIN batches' = 1 .. n + 1 /\ batches'[n + 1] = s
      /\ \A b \in 1 .. n : batches'[b] = batches[b]
  BY <1>2, <1>6, <1>7 DEF Lawful
<1>9. PICK state : state = InspectedState(batches', n + 1)
  OBVIOUS
<1>10. state \in ReviewStates
  BY <1>9, InspectedStates
<1>11. PICK q : q = [request[r] EXCEPT !.pc = "told", !.answer = "recorded", !.batch = n + 1, !.state = state]
  OBVIOUS
<1>12. q \in Requests /\ q.pc = "told" /\ q.review = s /\ q.answer = "recorded" /\ q.batch = n + 1
  <2>1. "recorded" \in Answers /\ n + 1 \in Int
    BY <1>7 DEF Answers
  <2> QED  BY <1>1, <1>2, <1>10, <1>11, <2>1 DEF Requests
<1>13. request' = [request EXCEPT ![r] = q]
  BY <1>7, <1>9, <1>11 DEF SubmitRecorded, Tell
<1>14. \A x \in Reviewers : request'[x] = IF x = r THEN q ELSE request[x]
  BY <1>13 DEF ReviewInv
<1>15. ASSUME NEW x \in Reviewers
       PROVE  RequestTrue(request[x])'
  BY <1>8, <1>12, <1>14 DEF ReviewInv, RequestTrue
<1>16. request' \in [Reviewers -> Requests]
  BY <1>12, <1>13 DEF ReviewInv
<1> QED  BY <1>6, <1>15, <1>16 DEF ReviewInv

\* Nobody else touches the log or a request; imports and deployments touch neither.
LEMMA ReviewKeeps == ReviewInv /\ [Next]_vars => ReviewInv'
<1> DEFINE Other == UNCHANGED <<batches, request>> /\ clock' \in Int
<1>1. ReviewInv /\ Other => ReviewInv'
  BY DEF ReviewInv, RequestTrue
<1>2. ReviewInv /\ ReviewNext => ReviewInv'
  <2> SUFFICES ASSUME ReviewInv, ReviewNext
               PROVE  ReviewInv'
    OBVIOUS
  <2>1. clock' = clock /\ clock \in Int
    BY DEF ReviewInv, ReviewNext, Reviewing, In
  <2>2. ImportNext \/ DeployLedger => Other
    BY <2>1 DEF ImportNext, DeployLedger
  <2> QED  BY <1>1, <2>1, <2>2, PageSteps, AgainStep, RefusedStep, RecordedStep DEF ReviewNext
<1>3. ReviewInv /\ [Next]_vars => Other \/ ReviewNext
  <2> SUFFICES ASSUME clock \in Int, [Next]_vars
               PROVE  Other \/ ReviewNext
    BY DEF ReviewInv
  <2>1. UNCHANGED vars => Other
    BY DEF vars, reviewVars
  <2>2. Tick => Other
    BY DEF Tick, reviewVars
  <2>3. LoginNext => Other
    BY DEF LoginNext, In, OnlySessions, reviewVars
  <2>4. Publication1Next \/ Publication2Next \/ PublicApiNext => Other
    BY DEF Publication1Next, Publication2Next, PublicApiNext, In, OnlyPublication, reviewVars
  <2>5. PreviewNext \/ IdentityNext => Other
    BY DEF PreviewNext, IdentityNext, In, OnlyPreview, OnlyIdentity, reviewVars
  <2>6. StoreNext \/ MirrorNext => Other
    BY DEF StoreNext, MirrorNext, In, OnlyStore, OnlyMirror, reviewVars
  <2> QED  BY <2>1, <2>2, <2>3, <2>4, <2>5, <2>6 DEF Next
<1> QED  BY <1>1, <1>2, <1>3

\* The invariant of the log and the requests holds of every behaviour.
LEMMA ReviewInvariance == Spec => []ReviewInv
BY ReviewsInitially, ReviewKeeps, PTL DEF Spec

\* Whoever is told that a review is recorded finds it in the log as it was sent, and
\* every review was decided in sight of the one before it: for any number of
\* reviewers, keys, lost answers and requests that are sent again.
THEOREM AcknowledgedAlwaysRecorded == Spec => []AcknowledgedIsRecorded
<1>1. ReviewInv => AcknowledgedIsRecorded
  BY DEF ReviewInv, RequestTrue, Lawful, AcknowledgedIsRecorded
<1> QED  BY <1>1, ReviewInvariance, PTL

-----------------------------------------------------------------------------
(* The candidate.                                                          *)

\* A publishable candidate is the latest review of its case version: approved, with
\* one primary image, which is shown, and approved in every image it shows.
LEMMA PublishableIsApproved ==
  ASSUME ReviewInv, NEW v \in Versions, NEW c, c = Candidate(v), c.state = "publishable"
  PROVE  /\ c.batch \in DOMAIN batches
         /\ batches[c.batch].form.prompt = "approved"
         /\ Cardinality(Chosen(batches[c.batch].form, "public_primary")) = 1
         /\ Chosen(batches[c.batch].form, "public_primary") \subseteq c.shown
         /\ c.shown \subseteq Facts[v].outputs
         /\ DOMAIN batches[c.batch].form.decisions = Facts[v].outputs
         /\ \A o \in c.shown : LET d == batches[c.batch].form.decisions[o]
                               IN d.rights = "approved" /\ d.policy \in PublicPolicies
<1>1. PICK m : m = Latest(v)
  OBVIOUS
<1>2. PICK form : form = batches[m].form
  OBVIOUS
<1>3. StateUnder(v, FactsVerdict(v)) = "publishable" /\ c.batch = m /\ c.shown = Shown(v, "publishable")
  BY <1>1 DEF Candidate, InvalidCandidate
<1>4. m # Nobody /\ EffectiveState(form) = "publishable"
  BY <1>1, <1>2, <1>3 DEF StateUnder
<1>5. m \in DOMAIN batches /\ batches[m].target = v
  BY <1>1, <1>4, LatestOf DEF ReviewInv, Newest
<1>6. DOMAIN form.decisions = Facts[v].outputs
      /\ \A o \in DOMAIN form.decisions : Consistent(form.decisions[o])
  BY <1>2, <1>5 DEF ReviewInv, Lawful
<1>7. form.prompt = "approved" /\ Cardinality(Chosen(form, "public_primary")) = 1
  BY <1>4 DEF EffectiveState
<1>8. c.shown = {o \in Facts[v].outputs : form.decisions[o].role # "hidden"}
  BY <1>1, <1>2, <1>3 DEF Shown
<1>9. Chosen(form, "public_primary") \subseteq c.shown
  BY <1>6, <1>8 DEF Chosen
<1>10. \A o \in c.shown : form.decisions[o].rights = "approved" /\ form.decisions[o].policy \in PublicPolicies
  BY <1>6, <1>8 DEF Consistent
<1> QED  BY <1>2, <1>3, <1>5, <1>6, <1>7, <1>8, <1>9, <1>10

\* What the list calls publishable is what a build freezes, with one primary image;
\* they part only on a text that may not be public.
THEOREM QueueAlwaysCandidate == Spec => []QueueIsCandidate
<1>1. ReviewInv => QueueIsCandidate
  <2> SUFFICES ASSUME ReviewInv, NEW v \in Versions, InQueue(v), FactsVerdict(v) # "drifted",
                      NEW c, c = Candidate(v)
               PROVE  \/ /\ c.state = QueueState(v)
                         /\ c.state = "publishable" =>
                              /\ Cardinality(c.shown \cap Chosen(batches[c.batch].form, "public_primary")) = 1
                              /\ \A o \in c.shown :
                                   LET d == batches[c.batch].form.decisions[o]
                                   IN d.rights = "approved" /\ d.policy \in PublicPolicies
                      \/ /\ c = InvalidCandidate
                         /\ ~SourceTextsPublic(v) \/ ~OutputTextsPublic(v) \/ ~AuthorPublic(v)
    BY DEF QueueIsCandidate
  <2>1. QueueState(v) = StateUnder(v, FactsVerdict(v))
    BY DEF QueueState, FactsVerdict
  <2>2. CASE c.state = "publishable"
    <3>1. c.shown \cap Chosen(batches[c.batch].form, "public_primary")
            = Chosen(batches[c.batch].form, "public_primary")
      BY <2>2, PublishableIsApproved
    <3>2. c.state = QueueState(v)
      BY <2>1, <2>2 DEF Candidate, InvalidCandidate
    <3> QED  BY <2>2, <3>1, <3>2, PublishableIsApproved
  <2>3. CASE c.state # "publishable"
    BY <2>1, <2>3 DEF Candidate
  <2> QED  BY <2>2, <2>3
<1> QED  BY <1>1, ReviewInvariance, PTL

-----------------------------------------------------------------------------
(* The reviews of publication v1.                                          *)

\* The event that counts is one of the example, if it has any.
LEMMA EffectiveOf ==
  ASSUME Dated(events), NEW e
  PROVE  Effective(e) \in {0} \cup DOMAIN events
<1> DEFINE of == {i \in DOMAIN events : events[i].example = e}
           Wins(i) == \A j \in of :
             events[j].at < events[i].at \/ (events[j].at = events[i].at /\ j <= i)
<1>1. CASE of = {}
  BY <1>1 DEF Effective
<1>2. CASE of # {}
  <2>1. PICK i \in DOMAIN events : events[i].example = e
    BY <1>2
  <2>2. PICK m \in DOMAIN events : NewestEvent(events, e, m)
    BY <2>1 DEF Dated
  <2>3. m \in of /\ Wins(m)
    BY <2>2 DEF NewestEvent
  <2>4. \A k \in of : k \in Nat /\ events[k].at \in Int
    <3>1. events \in Seq(EventRecords)
      BY DEF Dated
    <3>2. \A k \in DOMAIN events : k \in Nat /\ events[k] \in EventRecords
      BY <3>1
    <3> QED  BY <3>2 DEF EventRecords
  <2>5. \A k \in of : Wins(k) => k = m
    BY <2>3, <2>4
  <2>6. Effective(e) = m
    BY <1>2, <2>3, <2>5 DEF Effective
  <2> QED  BY <2>2, <2>6
<1> QED  BY <1>1, <1>2

\* An event of any time leaves every example with a newest one.
LEMMA DatedAppend ==
  ASSUME Dated(events), NEW x \in EventRecords
  PROVE  Dated(Append(events, x))
<1>1. PICK log : log = Append(events, x)
  OBVIOUS
<1>2. PICK n \in Nat : n = Len(events)
  BY DEF Dated
<1>3. events \in Seq(EventRecords) /\ DOMAIN events = 1 .. n
  BY <1>2 DEF Dated
<1>4. log \in Seq(EventRecords) /\ DOMAIN log = 1 .. n + 1 /\ log[n + 1] = x
      /\ \A i \in 1 .. n : log[i] = events[i]
  BY <1>1, <1>2, <1>3
<1>5. \A i \in 1 .. n : events[i].at \in Int
  <2>1. \A i \in 1 .. n : events[i] \in EventRecords
    BY <1>3
  <2> QED  BY <2>1 DEF EventRecords
<1>6. x.at \in Int
  BY DEF EventRecords
<1>7. \E m \in DOMAIN log : NewestEvent(log, x.example, m)
  <2>1. CASE \A i \in 1 .. n : events[i].example = x.example => events[i].at <= x.at
    <3>1. NewestEvent(log, x.example, n + 1)
      BY <1>4, <1>5, <1>6, <2>1 DEF NewestEvent
    <3> QED  BY <1>4, <3>1
  <2>2. ASSUME NEW i \in 1 .. n, events[i].example = x.example, ~(events[i].at <= x.at)
        PROVE  \E m \in DOMAIN log : NewestEvent(log, x.example, m)
    <3>1. PICK m \in 1 .. n : NewestEvent(events, x.example, m)
      BY <1>3, <2>2 DEF Dated
    <3>2. x.at < events[m].at
      <4>1. events[i].at < events[m].at \/ events[i].at = events[m].at
        BY <1>3, <2>2, <3>1 DEF NewestEvent
      <4> QED  BY <1>5, <1>6, <2>2, <4>1
    <3>3. NewestEvent(log, x.example, m)
      BY <1>3, <1>4, <3>1, <3>2 DEF NewestEvent
    <3> QED  BY <1>4, <3>3
  <2> QED  BY <2>1, <2>2
<1>8. ASSUME NEW i \in 1 .. n
      PROVE  \E m \in DOMAIN log : NewestEvent(log, events[i].example, m)
  <2>1. CASE events[i].example = x.example
    BY <1>7, <2>1
  <2>2. CASE events[i].example # x.example
    <3>1. PICK m \in 1 .. n : NewestEvent(events, events[i].example, m)
      BY <1>3 DEF Dated
    <3>2. NewestEvent(log, events[i].example, m)
      BY <1>3, <1>4, <2>2, <3>1 DEF NewestEvent
    <3> QED  BY <1>4, <3>2
  <2> QED  BY <2>1, <2>2
<1>9. ASSUME NEW i \in DOMAIN log
      PROVE  \E m \in DOMAIN log : NewestEvent(log, log[i].example, m)
  <2>1. CASE i = n + 1
    BY <1>4, <1>7, <2>1
  <2>2. CASE i # n + 1
    <3>1. i \in 1 .. n
      BY <1>4, <2>2
    <3> QED  BY <1>4, <1>8, <3>1
  <2> QED  BY <2>1, <2>2
<1> QED  BY <1>1, <1>4, <1>9 DEF Dated

-----------------------------------------------------------------------------
(* The versions of both publications and the requests that read them.      *)

Outputs == UNION {Facts[v].outputs : v \in Versions}
Frozen1 ==
  [case : {KeyOf[e] : e \in Examples}, example : Examples, event : Nat,
   located : SUBSET UNION {AssetsOf[e] : e \in Examples}]
Frozen2 == [case : {CaseOf[v] : v \in Versions}, version : Versions, batch : Nat, shown : SUBSET Outputs]
Frozen(api) == IF api = 1 THEN Frozen1 ELSE Frozen2

Built(api) == IF api = 1 THEN versions1 ELSE versions2
Numbers(api) == {0} \cup DOMAIN Built(api)

\* An entry was approved by a review that the log still has, and it is whole: what a
\* request asks for again, of an entry it reads, is what the build asked for.
Approved(api, e) ==
  IF api = 1
  THEN /\ e.event \in DOMAIN events /\ ApprovedEntry1(e)
       /\ e.located = IF events[e.event].form.policy = "link_only" THEN {} ELSE AssetsOf[e.example]
  ELSE e.batch \in DOMAIN batches /\ ApprovedEntry2(e) /\ Readable(2, e)

Shaped(q) ==
  q \in [pc : {"idle", "pointed", "located", "answered"}, api : {1, 2}, ask : Asks \cup {NoAsk},
         version : Nat, span : {q.span}, answer : {q.answer}]

\* What a request has read is a version that was current since it began; an image it
\* located is in that version, and so is what it has answered with.
ReaderTrue(q) ==
  /\ q.version \in Numbers(q.api)
  /\ q.pc # "idle" => q.version \in q.span
  /\ q.pc \in {"pointed", "located"} => q.ask \in Asks /\ q.answer.code = "none"
  /\ q.pc = "located" =>
       /\ q.ask.what = "asset"
       /\ \E e \in Entries(q.api, q.version) : q.ask.content \in Deliverable(q.api, e)
  /\ q.answer.code = "ok" =>
       /\ q.answer.version \in Numbers(q.api) \cap q.span
       /\ q.ask.what = "asset" =>
            \E e \in Entries(q.api, q.answer.version) : q.ask.content \in Deliverable(q.api, e)
       /\ q.ask.what = "list" => CountsOf(q.api, q.answer.version, q.ask, q.answer)
  /\ q.answer.code = "not_found" /\ q.ask.what = "detail" =>
       \E v \in Numbers(q.api) \cap q.span : q.ask.case \notin CasesOf(Entries(q.api, v))
  /\ q.answer.code # "unavailable"
\* A request knows of the version that is current now.
Informed(q) == q.pc # "idle" => Pointer(q.api) \in q.span

VersionsTrue(api) ==
  /\ Built(api) \in Seq(SUBSET Frozen(api))
  /\ Pointer(api) \in Numbers(api)
  /\ \A v \in DOMAIN Built(api) : \A e \in Built(api)[v] : Approved(api, e)
BuildingTrue == building # NotBuilding => building \in [Examples -> {0} \cup DOMAIN events]
ReadersTrue ==
  /\ DOMAIN reader = Readers
  /\ \A r \in Readers : Shaped(reader[r]) /\ ReaderTrue(reader[r]) /\ Informed(reader[r])

PublicInv ==
  /\ Dated(events)
  /\ BuildingTrue
  /\ \A api \in {1, 2} : VersionsTrue(api)
  /\ ReadersTrue

\* A copy is delivered only of an image whose review allows one.
LEMMA DeliverableIsAllowed ==
  ASSUME NEW api \in {1, 2}, NEW e, NEW content \in Deliverable(api, e)
  PROVE  CopyAllowed(api, e, content)
<1>1. CASE api = 1
  BY <1>1 DEF Deliverable, CopyAllowed, MirrorPolicies
<1>2. CASE api # 1
  BY <1>2 DEF Deliverable, CopyAllowed, MirrorPolicies
<1> QED  BY <1>1, <1>2

\* The entries that a request reads are those of a version that was built.
LEMMA EntriesOf ==
  ASSUME NEW api \in {1, 2}, NEW v \in Numbers(api), NEW e \in Entries(api, v)
  PROVE  v \in DOMAIN Built(api) /\ e \in Built(api)[v]
<1>1. CASE api = 1
  <2>1. e \in Entries1(v) /\ Built(api) = versions1
    BY <1>1 DEF Entries, Built
  <2> QED  BY <2>1 DEF Entries1, Numbers
<1>2. CASE api # 1
  <2>1. e \in Entries2(v) /\ Built(api) = versions2
    BY <1>2 DEF Entries, Built
  <2> QED  BY <2>1 DEF Entries2, Numbers
<1> QED  BY <1>1, <1>2

\* The invariant says more than what is served.
LEMMA PublicImplies == PublicInv => ServedIsApproved
<1> SUFFICES ASSUME PublicInv, NEW r \in Readers, NEW q, q = reader[r], q.answer.code = "ok",
                    NEW api \in {1, 2}, api = q.api,
                    NEW v, v = q.answer.version
             PROVE  /\ \A e \in Entries(api, v) : IF api = 1 THEN ApprovedEntry1(e) ELSE ApprovedEntry2(e)
                    /\ q.ask.what = "asset" => \E e \in Entries(api, v) : CopyAllowed(api, e, q.ask.content)
  BY DEF ServedIsApproved, PublicInv, ReadersTrue, Shaped
<1>1. /\ v \in Numbers(api)
      /\ q.ask.what = "asset" => \E e \in Entries(api, v) : q.ask.content \in Deliverable(api, e)
  BY DEF PublicInv, ReadersTrue, ReaderTrue
<1>2. ASSUME NEW e \in Entries(api, v)
      PROVE  IF api = 1 THEN ApprovedEntry1(e) ELSE ApprovedEntry2(e)
  <2>1. v \in DOMAIN Built(api) /\ e \in Built(api)[v]
    BY <1>1, <1>2, EntriesOf
  <2> QED  BY <2>1 DEF PublicInv, VersionsTrue, Approved
<1>3. ASSUME q.ask.what = "asset"
      PROVE  \E e \in Entries(api, v) : CopyAllowed(api, e, q.ask.content)
  <2>1. PICK e \in Entries(api, v) : q.ask.content \in Deliverable(api, e)
    BY <1>1, <1>3
  <2>2. CopyAllowed(api, e, q.ask.content)
    BY <2>1, DeliverableIsAllowed
  <2> QED  BY <2>2
<1> QED  BY <1>2, <1>3

\* Nothing is built and nobody reads when the services begin.
LEMMA PublicInitially == Init => PublicInv
<1> SUFFICES ASSUME Init
             PROVE  PublicInv
  OBVIOUS
<1>1. Dated(<<>>)
  BY DEF Dated
<1>2. \E log \in {Recorded1, <<>>} : ApiInit(log)
  BY DEF Init
<1>3. Dated(events)
  BY <1>1, <1>2, EventsAssumption DEF ApiInit
<1>4. building = NotBuilding /\ versions1 = <<>> /\ versions2 = <<>> /\ current1 = 0 /\ current2 = 0
  BY <1>2 DEF ApiInit
<1>5. ASSUME NEW api \in {1, 2}
      PROVE  Built(api) = <<>> /\ Pointer(api) = 0
  BY <1>4 DEF Built, Pointer
<1>6. ASSUME NEW api \in {1, 2}
      PROVE  /\ Built(api) \in Seq(SUBSET Frozen(api))
             /\ Pointer(api) \in Numbers(api)
             /\ \A v \in DOMAIN Built(api) : \A e \in Built(api)[v] : Approved(api, e)
  <2>1. <<>> \in Seq(SUBSET Frozen(api)) /\ DOMAIN <<>> = {}
    OBVIOUS
  <2> QED  BY <1>5, <2>1 DEF Numbers
<1>7. Shaped(NoReader)
  BY DEF Shaped, NoReader
<1>8. ReaderTrue(NoReader) /\ Informed(NoReader)
  BY DEF ReaderTrue, Informed, NoReader, NoAnswer, Numbers
<1>9. reader = [r \in Readers |-> NoReader]
  BY <1>2 DEF ApiInit
<1> QED  BY <1>3, <1>4, <1>6, <1>7, <1>8, <1>9 DEF PublicInv, BuildingTrue, VersionsTrue, ReadersTrue

\* The logs and the versions grow at their ends, so an entry stays approved.
VersionsKept ==
  \A api \in {1, 2} : \A v \in DOMAIN Built(api) :
    v \in DOMAIN Built(api)' /\ Built(api)'[v] = Built(api)[v]
Grow ==
  /\ \A i \in DOMAIN events : i \in DOMAIN events' /\ events'[i] = events[i]
  /\ \A b \in DOMAIN batches : b \in DOMAIN batches' /\ batches'[b] = batches[b]
  /\ VersionsKept

\* An entry keeps its approval, what may be delivered of it and its policies.
LEMMA ApprovedStays ==
  ASSUME Grow, NEW api \in {1, 2}, NEW e, Approved(api, e)
  PROVE  /\ Approved(api, e)'
         /\ Deliverable(api, e)' = Deliverable(api, e)
         /\ PoliciesOf(api, e)' = PoliciesOf(api, e)
<1>1. CASE api = 1
  <2>1. e.event \in DOMAIN events' /\ events'[e.event] = events[e.event]
    BY <1>1 DEF Grow, VersionsKept, Approved
  <2> QED  BY <1>1, <2>1 DEF Approved, ApprovedEntry1, Deliverable, PoliciesOf
<1>2. CASE api # 1
  <2>1. e.batch \in DOMAIN batches' /\ batches'[e.batch] = batches[e.batch]
    BY <1>2 DEF Grow, VersionsKept, Approved
  <2>2. \A o : Decision(e, o)' = Decision(e, o)
    BY <2>1 DEF Decision
  <2>3. Readable(2, e)'
    <3>1. Readable(2, e)
      BY <1>2 DEF Approved
    <3>2. {o \in e.shown : Decision(e, o).role = "public_primary"}'
            = {o \in e.shown : Decision(e, o).role = "public_primary"}
      BY <2>2
    <3> QED  BY <2>1, <2>2, <3>1, <3>2 DEF Readable
  <2>4. Approved(api, e)'
    BY <1>2, <2>1, <2>3 DEF Approved, ApprovedEntry2
  <2>5. Deliverable(api, e)' = Deliverable(api, e) /\ PoliciesOf(api, e)' = PoliciesOf(api, e)
    BY <1>2, <2>2 DEF Deliverable, PoliciesOf
  <2> QED  BY <2>4, <2>5
<1> QED  BY <1>1, <1>2

\* The cases of approved entries keep the values they show under, and their counts.
LEMMA MatchesStay ==
  ASSUME Grow, NEW api \in {1, 2}, NEW entries, \A e \in entries : Approved(api, e), NEW filter
  PROVE  Matching(api, entries, filter)' = Matching(api, entries, filter)
<1>1. ASSUME NEW c
      PROVE  FacetsOf(api, entries, c)' = FacetsOf(api, entries, c)
  <2> DEFINE those == {e \in entries : e.case = c}
             Values(policies, e) == {<<"source", AboutEntry(api, e).source>>}
                          \cup {<<"policy", policy>> : policy \in policies}
                          \cup {<<"tag", tag>> : tag \in AboutEntry(api, e).tags}
  <2>1. \A e \in those : PoliciesOf(api, e)' = PoliciesOf(api, e)
    BY ApprovedStays
  <2>2. {Values(PoliciesOf(api, e)', e) : e \in those} = {Values(PoliciesOf(api, e), e) : e \in those}
    <3> HIDE DEF Values, those
    <3> QED  BY <2>1
  <2> QED  BY <2>2 DEF FacetsOf
<1> QED  BY <1>1 DEF Matching

\* A version keeps its entries.
LEMMA EntriesStay ==
  ASSUME VersionsKept, NEW api \in {1, 2}, NEW v \in Numbers(api)
  PROVE  v \in Numbers(api)' /\ Entries(api, v)' = Entries(api, v)
<1>1. v # 0 => v \in DOMAIN Built(api) /\ v \in DOMAIN Built(api)' /\ Built(api)'[v] = Built(api)[v]
  BY DEF VersionsKept, Numbers
<1>2. v \in Numbers(api)'
  BY <1>1 DEF Numbers
<1>3. CASE api = 1
  BY <1>1, <1>2, <1>3 DEF Entries, Entries1, Built
<1>4. CASE api # 1
  BY <1>1, <1>2, <1>4 DEF Entries, Entries2, Built
<1> QED  BY <1>3, <1>4

\* What a request relies on stays true while the versions and logs grow.
LEMMA ReaderStays ==
  ASSUME PublicInv, Grow, NEW q, Shaped(q), ReaderTrue(q)
  PROVE  ReaderTrue(q)'
<1>1. q.api \in {1, 2}
  BY DEF Shaped
<1>2. ASSUME NEW v \in Numbers(q.api), NEW e \in Entries(q.api, v), q.ask.content \in Deliverable(q.api, e)
      PROVE  \E f \in Entries(q.api, v)' : q.ask.content \in Deliverable(q.api, f)'
  <2>1. Approved(q.api, e)
    BY <1>1, <1>2, EntriesOf DEF PublicInv, VersionsTrue
  <2> QED  BY <1>1, <1>2, <2>1, ApprovedStays, EntriesStay DEF Grow
<1>3. \A v \in Numbers(q.api) : v \in Numbers(q.api)'
  BY <1>1, EntriesStay DEF Grow
<1>4. q.pc = "located" => \E e \in Entries(q.api, q.version)' : q.ask.content \in Deliverable(q.api, e)'
  BY <1>2 DEF ReaderTrue
<1>5. q.answer.code = "ok" /\ q.ask.what = "asset" =>
        \E e \in Entries(q.api, q.answer.version)' : q.ask.content \in Deliverable(q.api, e)'
  BY <1>2 DEF ReaderTrue
<1>6. ASSUME q.answer.code = "ok", q.ask.what = "list"
      PROVE  CountsOf(q.api, q.answer.version, q.ask, q.answer)'
  <2>1. PICK v \in Numbers(q.api) : v = q.answer.version
    BY <1>6 DEF ReaderTrue
  <2>2. PICK entries : entries = Entries(q.api, v)
    OBVIOUS
  <2>3. \A e \in entries : Approved(q.api, e)
    BY <1>1, <2>2, EntriesOf DEF PublicInv, VersionsTrue
  <2>4. Entries(q.api, v)' = entries
    BY <1>1, <2>2, EntriesStay DEF Grow
  <2>5. \A filter : Matching(q.api, entries, filter)' = Matching(q.api, entries, filter)
    BY <1>1, <2>3, MatchesStay
  <2>6. CountsOf(q.api, v, q.ask, q.answer)
    BY <1>6, <2>1 DEF ReaderTrue
  <2>7. CountsOf(q.api, v, q.ask, q.answer)'
    BY <2>2, <2>4, <2>5, <2>6 DEF CountsOf
  <2> QED  BY <2>1, <2>7
<1>7. \A v \in Numbers(q.api) : Entries(q.api, v)' = Entries(q.api, v)
  BY <1>1, EntriesStay DEF Grow
<1>8. q.answer.code = "not_found" /\ q.ask.what = "detail" =>
        \E v \in Numbers(q.api)' \cap q.span : q.ask.case \notin CasesOf(Entries(q.api, v))'
  BY <1>3, <1>7 DEF ReaderTrue, CasesOf
<1> QED  BY <1>3, <1>4, <1>5, <1>6, <1>8 DEF ReaderTrue

\* Where the logs and versions do not change they have not shrunk.
LEMMA GrowNothing ==
  ASSUME UNCHANGED <<events, batches, versions1, versions2>>
  PROVE  Grow
BY DEF Grow, VersionsKept, Built

\* An append keeps what was there.
LEMMA AppendGrows ==
  ASSUME NEW S, NEW s \in Seq(S), NEW x \in S
  PROVE  /\ Append(s, x) \in Seq(S)
         /\ \A i \in DOMAIN s : i \in DOMAIN Append(s, x) /\ Append(s, x)[i] = s[i]
         /\ \A i \in DOMAIN Append(s, x) : i \in DOMAIN s \/ Append(s, x)[i] = x
OBVIOUS

\* The four parts of the invariant, where a step leaves them alone.
LEMMA PartsStay ==
  ASSUME PublicInv, Grow
  PROVE  /\ UNCHANGED <<reader, current1, current2>> => ReadersTrue'
         /\ UNCHANGED building => BuildingTrue'
         /\ \A api \in {1, 2} : UNCHANGED <<Built(api), Pointer(api)>> => VersionsTrue(api)'
<1>1. UNCHANGED <<reader, current1, current2>> => ReadersTrue'
  BY ReaderStays DEF PublicInv, ReadersTrue, Shaped, Informed, Pointer
<1>2. UNCHANGED building => BuildingTrue'
  <2> SUFFICES ASSUME UNCHANGED building, building # NotBuilding
               PROVE  building \in [Examples -> {0} \cup DOMAIN events']
    BY DEF BuildingTrue
  <2>1. building \in [Examples -> {0} \cup DOMAIN events]
    BY DEF PublicInv, BuildingTrue
  <2>2. {0} \cup DOMAIN events \subseteq {0} \cup DOMAIN events'
    BY DEF Grow, VersionsKept
  <2> QED  BY <2>1, <2>2
<1>3. ASSUME NEW api \in {1, 2}, UNCHANGED <<Built(api), Pointer(api)>>
      PROVE  VersionsTrue(api)'
  <2>1. VersionsTrue(api)
    BY DEF PublicInv
  <2>2. \A v \in DOMAIN Built(api) : \A e \in Built(api)[v] : Approved(api, e)'
    BY <2>1, ApprovedStays DEF VersionsTrue
  <2> QED  BY <1>3, <2>1, <2>2 DEF VersionsTrue, Numbers, Frozen
<1> QED  BY <1>1, <1>2, <1>3

\* A version of approved entries is added to its publication.
LEMMA VersionAdded ==
  ASSUME PublicInv, Grow, NEW api \in {1, 2}, NEW entries \in SUBSET Frozen(api),
         \A e \in entries : Approved(api, e)',
         Built(api)' = Append(Built(api), entries), UNCHANGED Pointer(api)
  PROVE  VersionsTrue(api)'
<1>1. VersionsTrue(api)
  BY DEF PublicInv
<1>2. PICK before \in Seq(SUBSET Frozen(api)) : before = Built(api)
  BY <1>1 DEF VersionsTrue
<1>3. PICK after : after = Append(before, entries)
  OBVIOUS
<1>4. /\ after \in Seq(SUBSET Frozen(api))
      /\ \A i \in DOMAIN before : i \in DOMAIN after /\ after[i] = before[i]
      /\ \A i \in DOMAIN after : i \in DOMAIN before \/ after[i] = entries
  BY <1>3, AppendGrows
<1>5. \A v \in DOMAIN before : \A e \in before[v] : Approved(api, e)'
  BY <1>1, <1>2, ApprovedStays DEF VersionsTrue
<1>6. \A v \in DOMAIN after : \A e \in after[v] : Approved(api, e)'
  BY <1>4, <1>5
<1>7. Built(api)' = after /\ Pointer(api)' \in {0} \cup DOMAIN after
  BY <1>1, <1>2, <1>3, <1>4 DEF VersionsTrue, Numbers
<1>8. Frozen(api)' = Frozen(api)
  BY DEF Frozen, Frozen1, Frozen2, Outputs
<1> QED  BY <1>4, <1>6, <1>7, <1>8 DEF VersionsTrue, Numbers

\* Steps that add a review, block a taxonomy or take something down.
LEMMA OutsideStep ==
  ASSUME PublicInv, Grow,
         UNCHANGED <<events, building, versions1, current1, versions2, current2, reader>>
  PROVE  PublicInv'
<1>1. \A api \in {1, 2} : UNCHANGED <<Built(api), Pointer(api)>>
  BY DEF Built, Pointer
<1> QED  BY <1>1, PartsStay DEF PublicInv

\* A review of v1 is recorded, or its reviews are read for a build.
LEMMA RightsSteps ==
  ASSUME PublicInv, UNCHANGED batches, clock \in Int,
         \/ \E e \in Examples, form \in RightsForms, at \in Ticks : RecordRights(e, form, at)
         \/ BeginBuild1
  PROVE  PublicInv'
<1>1. UNCHANGED <<versions1, current1, versions2, current2, reader>>
  BY DEF RecordRights, BeginBuild1
<1>2. \A api \in {1, 2} : UNCHANGED <<Built(api), Pointer(api)>>
  BY <1>1 DEF Built, Pointer
<1>3. ASSUME NEW e \in Examples, NEW form \in RightsForms, NEW at \in Ticks, RecordRights(e, form, at)
      PROVE  PublicInv'
  <2>1. PICK x : x = [example |-> e, at |-> at, form |-> form]
    OBVIOUS
  <2>2. form \in EventForms /\ at \in Int
    BY DEF EventForms, Ticks
  <2>3. x \in EventRecords
    BY <2>1, <2>2 DEF EventRecords
  <2>4. events' = Append(events, x) /\ UNCHANGED building
    BY <1>3, <2>1 DEF RecordRights
  <2>5. Dated(events') /\ events \in Seq(EventRecords)
    BY <2>3, <2>4, DatedAppend DEF PublicInv, Dated
  <2>6. \A i \in DOMAIN events : i \in DOMAIN events' /\ events'[i] = events[i]
    BY <2>3, <2>4, <2>5, AppendGrows
  <2>7. Grow
    BY <1>1, <2>6 DEF Grow, VersionsKept, Built
  <2>8. Dated(events)'
    BY <2>5
  <2> QED  BY <1>1, <1>2, <2>4, <2>7, <2>8, PartsStay DEF PublicInv
<1>4. CASE BeginBuild1
  <2>1. UNCHANGED events /\ Grow
    BY <1>1, <1>4, GrowNothing DEF BeginBuild1
  <2>2. building' = [e \in Examples |-> Effective(e)]
    BY <1>4 DEF BeginBuild1
  <2>3. building' \in [Examples -> {0} \cup DOMAIN events']
    BY <2>1, <2>2, EffectiveOf DEF PublicInv
  <2>4. Dated(events)'
    BY <2>1 DEF PublicInv
  <2> QED  BY <1>1, <1>2, <2>1, <2>3, <2>4, PartsStay DEF PublicInv, BuildingTrue
<1> QED  BY <1>3, <1>4

\* A version of v1 holds what passed the gate with the reviews that were read.
LEMMA Build1Step ==
  ASSUME PublicInv, UNCHANGED batches, Build1
  PROVE  PublicInv'
<1>1. /\ UNCHANGED <<events, current1, versions2, current2, reader>>
      /\ building # NotBuilding /\ building' = NotBuilding
  BY DEF Build1
<1>2. building \in [Examples -> {0} \cup DOMAIN events]
  BY <1>1 DEF PublicInv, BuildingTrue
<1>3. PICK entries : entries = {Snapshot1(e, building[e]) : e \in {f \in Examples : Gate(f, building[f]) = {}}}
  OBVIOUS
<1>4. versions1' = Append(versions1, entries)
  BY <1>3 DEF Build1
<1>5. ASSUME NEW e \in Examples, Gate(e, building[e]) = {}, NEW x, x = Snapshot1(e, building[e])
      PROVE  x \in Frozen1 /\ Approved(1, x) /\ Approved(1, x)'
  <2>1. PICK i : i = building[e]
    OBVIOUS
  <2>2. ReviewReasons(i) = {}
    BY <1>5, <2>1 DEF Gate
  <2>3. i # 0
    BY <2>2 DEF ReviewReasons
  <2>4. i \in DOMAIN events /\ i \in Nat
    BY <1>2, <2>1, <2>3 DEF PublicInv, Dated
  <2>5. PICK form : form = events[i].form
    OBVIOUS
  <2>6. {form.prompt, form.asset} = {"approved"} /\ form.policy \in PublicPolicies
    BY <2>2, <2>3, <2>5 DEF ReviewReasons
  <2>7. form.prompt = "approved" /\ form.asset = "approved"
    BY <2>6
  <2>8. x = [case |-> KeyOf[e], example |-> e, event |-> i,
             located |-> IF form.policy = "link_only" THEN {} ELSE AssetsOf[e]]
    BY <1>5, <2>1, <2>5 DEF Snapshot1
  <2>9. x.event = i
    BY <2>8
  <2>10. x \in Frozen1
    <3>1. PICK located : located = IF form.policy = "link_only" THEN {} ELSE AssetsOf[e]
      OBVIOUS
    <3>2. located \in SUBSET UNION {AssetsOf[f] : f \in Examples}
      BY <3>1
    <3>3. KeyOf[e] \in {KeyOf[f] : f \in Examples}
      OBVIOUS
    <3> QED  BY <2>4, <2>8, <3>1, <3>2, <3>3 DEF Frozen1
  <2>11. Approved(1, x)
    <3>1. x.event \in DOMAIN events /\ events[x.event].form = form
      BY <2>4, <2>5, <2>9
    <3>2. x.located = (IF form.policy = "link_only" THEN {} ELSE AssetsOf[e]) /\ x.example = e
      BY <2>8
    <3> QED  BY <2>6, <2>7, <3>1, <3>2 DEF Approved, ApprovedEntry1
  <2>12. Approved(1, x)'
    BY <1>1, <2>11 DEF Approved, ApprovedEntry1
  <2> QED  BY <2>10, <2>11, <2>12
<1>6. entries \in SUBSET Frozen(1) /\ \A x \in entries : Approved(1, x)'
  BY <1>3, <1>5 DEF Frozen
<1>7. Grow
  <2>1. versions1 \in Seq(SUBSET Frozen(1))
    BY DEF PublicInv, VersionsTrue, Built
  <2>2. \A v \in DOMAIN versions1 : v \in DOMAIN versions1' /\ versions1'[v] = versions1[v]
    BY <1>4, <1>6, <2>1, AppendGrows
  <2> QED  BY <1>1, <2>2 DEF Grow, VersionsKept, Built
<1>8. Built(1)' = Append(Built(1), entries) /\ UNCHANGED <<Pointer(1), Built(2), Pointer(2)>>
  BY <1>1, <1>4 DEF Built, Pointer
<1>9. VersionsTrue(1)' /\ VersionsTrue(2)'
  BY <1>6, <1>7, <1>8, VersionAdded, PartsStay
<1>10. Dated(events)' /\ BuildingTrue' /\ ReadersTrue'
  BY <1>1, <1>7, PartsStay DEF PublicInv, BuildingTrue
<1> QED  BY <1>9, <1>10 DEF PublicInv

\* A version of v2 holds the publishable candidates, without the images that are
\* taken down; an entry whose primary image is one of those is left out.
LEMMA Build2Step ==
  ASSUME ReviewInv, PublicInv, UNCHANGED batches, Build2
  PROVE  PublicInv'
<1>1. UNCHANGED <<events, building, versions1, current1, current2, reader>>
  BY DEF Build2
<1>2. PICK entries : entries = {Freeze(v) : v \in {w \in Versions : Includes(w)}}
  OBVIOUS
<1>3. versions2' = Append(versions2, entries)
  BY <1>2 DEF Build2
<1>4. ASSUME NEW v \in Versions, Includes(v), NEW x, x = Freeze(v)
      PROVE  x \in Frozen2 /\ Approved(2, x) /\ Approved(2, x)'
  <2>1. PICK c : c = Candidate(v)
    OBVIOUS
  <2>2. c.state = "publishable" /\ ~RemovedContent(Primary(c.batch))
    BY <1>4, <2>1 DEF Includes
  <2>3. PICK form : form = batches[c.batch].form
    OBVIOUS
  <2>4. PICK primary : primary = Chosen(form, "public_primary")
    OBVIOUS
  <2>5. /\ c.batch \in DOMAIN batches
        /\ form.prompt = "approved"
        /\ Cardinality(primary) = 1
        /\ primary \subseteq c.shown
        /\ c.shown \subseteq Facts[v].outputs
        /\ DOMAIN form.decisions = Facts[v].outputs
        /\ \A o \in c.shown : form.decisions[o].rights = "approved"
                              /\ form.decisions[o].policy \in PublicPolicies
    BY <2>1, <2>2, <2>3, <2>4, PublishableIsApproved
  <2>6. PICK o : primary = {o}
    <3>1. IsFiniteSet(primary)
      <4>1. primary \subseteq Facts[v].outputs /\ IsFiniteSet(Facts[v].outputs)
        BY <2>5, ReviewsAssumption
      <4> QED  BY <4>1, FS_Subset
    <3> QED  BY <2>5, <3>1, FS_Singleton
  <2>7. Primary(c.batch) = o
    BY <2>3, <2>4, <2>6 DEF Primary, Chosen
  <2>8. x = [case |-> CaseOf[v], version |-> v, batch |-> c.batch,
             shown |-> {p \in c.shown : ~RemovedContent(p)}]
    BY <1>4, <2>1 DEF Freeze
  <2>9. x.batch = c.batch /\ x.shown = {p \in c.shown : ~RemovedContent(p)}
    BY <2>8
  <2>10. x.shown \cap primary = primary
    BY <2>2, <2>5, <2>6, <2>7, <2>9
  <2>11. x \in Frozen2
    <3>1. x.shown \in SUBSET Outputs
      BY <2>5, <2>9 DEF Outputs
    <3>2. c.batch \in Nat
      BY <2>5 DEF ReviewInv, Lawful
    <3> QED  BY <2>8, <2>9, <3>1, <3>2 DEF Frozen2
  <2>12. Approved(2, x)
    <3>1. form = batches[x.batch].form /\ x.batch \in DOMAIN batches
      BY <2>3, <2>5, <2>9
    <3>2. Cardinality(x.shown \cap Chosen(form, "public_primary")) = 1
      BY <2>4, <2>5, <2>10
    <3>3. \A p \in x.shown : form.decisions[p].rights = "approved"
      BY <2>5, <2>9
    <3>4. ApprovedEntry2(x)
      BY <2>5, <3>1, <3>2, <3>3 DEF ApprovedEntry2
    <3>5. \A p : Decision(x, p) = form.decisions[p]
      BY <3>1 DEF Decision
    <3>6. {p \in x.shown : Decision(x, p).role = "public_primary"} = x.shown \cap Chosen(form, "public_primary")
      BY <2>5, <2>9, <3>5 DEF Chosen
    <3>7. Readable(2, x)
      BY <2>5, <2>9, <3>1, <3>2, <3>5, <3>6 DEF Readable
    <3> QED  BY <3>1, <3>4, <3>7 DEF Approved
  <2>13. Approved(2, x)'
    BY <2>12 DEF Approved, ApprovedEntry2, Readable, Decision
  <2> QED  BY <2>11, <2>12, <2>13
<1>5. entries \in SUBSET Frozen(2) /\ \A x \in entries : Approved(2, x)'
  BY <1>2, <1>4 DEF Frozen
<1>6. Grow
  <2>1. versions2 \in Seq(SUBSET Frozen(2))
    BY DEF PublicInv, VersionsTrue, Built
  <2>2. \A v \in DOMAIN versions2 : v \in DOMAIN versions2' /\ versions2'[v] = versions2[v]
    BY <1>3, <1>5, <2>1, AppendGrows
  <2> QED  BY <1>1, <2>2 DEF Grow, VersionsKept, Built
<1>7. Built(2)' = Append(Built(2), entries) /\ UNCHANGED <<Pointer(2), Built(1), Pointer(1)>>
  BY <1>1, <1>3 DEF Built, Pointer
<1>8. VersionsTrue(1)' /\ VersionsTrue(2)'
  BY <1>5, <1>6, <1>7, VersionAdded, PartsStay
<1>9. Dated(events)' /\ BuildingTrue' /\ ReadersTrue'
  BY <1>1, <1>6, PartsStay DEF PublicInv
<1> QED  BY <1>8, <1>9 DEF PublicInv

\* A pointer moves to a version, and every request takes note.
LEMMA SwitchSteps ==
  ASSUME PublicInv, UNCHANGED batches,
         \/ \E v \in 1 .. MaxPublished : Switch1(v)
         \/ \E v \in 1 .. MaxPublished, rollback \in BOOLEAN : Switch2(v, rollback)
  PROVE  PublicInv'
<1>1. UNCHANGED <<events, building, versions1, versions2>> /\ Grow
  BY GrowNothing DEF Switch1, Switch2
<1> DEFINE Moves(api, v) ==
             /\ v \in DOMAIN Built(api)
             /\ Witness(api, v)
             /\ Pointer(api)' = v
             /\ \A other \in {1, 2} : other # api => UNCHANGED Pointer(other)
<1>2. PICK api \in {1, 2} : \E w : Moves(api, w)
  <2>1. ASSUME NEW w \in 1 .. MaxPublished, Switch1(w)
        PROVE  Moves(1, w)
    BY <2>1 DEF Switch1, Built, Pointer
  <2>2. ASSUME NEW w \in 1 .. MaxPublished, NEW rollback \in BOOLEAN, Switch2(w, rollback)
        PROVE  Moves(2, w)
    BY <2>2 DEF Switch2, Built, Pointer
  <2> HIDE DEF Moves
  <2> QED  BY <2>1, <2>2
<1>3. PICK v : Moves(api, v)
  BY <1>2
<1>4. ASSUME NEW other \in {1, 2}
      PROVE  VersionsTrue(other)'
  <2>1. UNCHANGED Built(other)
    BY <1>1 DEF Built
  <2>2. CASE other # api
    BY <1>1, <1>3, <2>1, <2>2, PartsStay
  <2>3. CASE other = api
    <3>1. VersionsTrue(api)
      BY DEF PublicInv
    <3>2. \A w \in DOMAIN Built(api) : \A e \in Built(api)[w] : Approved(api, e)'
      BY <1>1, <3>1, ApprovedStays DEF VersionsTrue
    <3>3. Pointer(api)' \in Numbers(api)'
      BY <1>3, <2>1, <2>3 DEF Numbers
    <3>4. Frozen(api)' = Frozen(api)
      BY DEF Frozen, Frozen1, Frozen2, Outputs
    <3> QED  BY <2>1, <2>3, <3>1, <3>2, <3>3, <3>4 DEF VersionsTrue
  <2> QED  BY <2>2, <2>3
<1>5. ASSUME NEW r \in Readers
      PROVE  Shaped(reader'[r]) /\ ReaderTrue(reader'[r]) /\ Informed(reader[r])'
  <2>1. Shaped(reader[r]) /\ ReaderTrue(reader[r]) /\ Informed(reader[r])
    BY DEF PublicInv, ReadersTrue
  <2>2. PICK q : q = [reader[r] EXCEPT !.span = @ \cup {v}]
    OBVIOUS
  <2>3. /\ Shaped(q)
        /\ q.pc = reader[r].pc /\ q.api = reader[r].api /\ q.ask = reader[r].ask
        /\ q.version = reader[r].version /\ q.answer = reader[r].answer
        /\ q.span = reader[r].span \cup {v}
    BY <2>1, <2>2 DEF Shaped
  <2>4. ReaderTrue(q)
    BY <2>1, <2>3 DEF ReaderTrue
  <2>5. /\ reader[r].api = api /\ reader[r].pc # "idle" => reader'[r] = q
        /\ ~(reader[r].api = api /\ reader[r].pc # "idle") => reader'[r] = reader[r]
    BY <1>3, <2>2 DEF Witness
  <2>6. Informed(reader[r])'
    <3>1. CASE reader[r].api = api /\ reader[r].pc # "idle"
      BY <1>3, <2>3, <2>5, <3>1 DEF Informed
    <3>2. CASE reader[r].api # api
      <4>1. reader[r].api \in {1, 2}
        BY <2>1 DEF Shaped
      <4> QED  BY <1>3, <2>1, <2>5, <3>2, <4>1 DEF Informed
    <3>3. CASE reader[r].pc = "idle"
      BY <2>5, <3>3 DEF Informed
    <3> QED  BY <3>1, <3>2, <3>3
  <2> QED  BY <2>1, <2>3, <2>4, <2>5, <2>6
<1>6. \A r \in Readers : ReaderTrue(reader[r])'
  BY <1>1, <1>5, ReaderStays
<1>7. ReadersTrue'
  BY <1>3, <1>5, <1>6 DEF ReadersTrue, Witness, Shaped
<1>8. Dated(events)' /\ BuildingTrue'
  BY <1>1, PartsStay DEF PublicInv
<1> QED  BY <1>4, <1>7, <1>8 DEF PublicInv

\* A step of one request.
LEMMA ReaderStep ==
  ASSUME PublicInv, UNCHANGED batches, NEW r \in Readers, NEW q, Shaped(q), ReaderTrue(q), Informed(q),
         reader' = [reader EXCEPT ![r] = q], Untouched
  PROVE  PublicInv'
<1>1. UNCHANGED <<events, building, versions1, current1, versions2, current2>> /\ Grow
  BY GrowNothing DEF Untouched
<1>2. \A api \in {1, 2} : UNCHANGED <<Built(api), Pointer(api)>>
  BY <1>1 DEF Built, Pointer
<1>3. ReadersTrue
  BY DEF PublicInv
<1>4. \A x \in Readers : reader'[x] = IF x = r THEN q ELSE reader[x]
  BY <1>3 DEF ReadersTrue
<1>5. \A x \in Readers : Shaped(reader'[x]) /\ ReaderTrue(reader'[x]) /\ Informed(reader'[x])
  BY <1>3, <1>4 DEF ReadersTrue
<1>6. \A x \in Readers : ReaderTrue(reader[x])' /\ Informed(reader[x])'
  <2>1. \A x \in Readers : Informed(reader[x])'
    BY <1>1, <1>5 DEF Informed, Pointer
  <2> QED  BY <1>1, <1>5, <2>1, ReaderStays
<1>7. ReadersTrue'
  BY <1>3, <1>5, <1>6 DEF ReadersTrue, Shaped
<1>8. Dated(events)'
  BY <1>1 DEF PublicInv
<1> QED  BY <1>1, <1>2, <1>7, <1>8, PartsStay DEF PublicInv

\* A request is answered, from what it has read if it is answered well.
LEMMA FinishStep ==
  ASSUME PublicInv, UNCHANGED batches, NEW r \in Readers, NEW answer,
         Finish(r, answer), Untouched,
         reader[r].pc \in {"pointed", "located"},
         answer.code # "unavailable",
         answer.code = "ok" =>
           /\ answer.version = reader[r].version
           /\ reader[r].ask.what = "asset" => reader[r].pc = "located"
           /\ reader[r].ask.what = "list" =>
                CountsOf(reader[r].api, reader[r].version, reader[r].ask, answer),
         answer.code = "not_found" /\ reader[r].ask.what = "detail" =>
           reader[r].ask.case \notin CasesOf(Entries(reader[r].api, reader[r].version))
  PROVE  PublicInv'
<1>1. Shaped(reader[r]) /\ ReaderTrue(reader[r]) /\ Informed(reader[r])
  BY DEF PublicInv, ReadersTrue
<1>2. PICK q : q = [reader[r] EXCEPT !.pc = "answered", !.answer = answer]
  OBVIOUS
<1>3. /\ Shaped(q)
      /\ q.pc = "answered" /\ q.api = reader[r].api /\ q.ask = reader[r].ask
      /\ q.version = reader[r].version /\ q.answer = answer /\ q.span = reader[r].span
  BY <1>1, <1>2 DEF Shaped
<1>4. ReaderTrue(q) /\ Informed(q)
  BY <1>1, <1>3 DEF ReaderTrue, Informed
<1>5. reader' = [reader EXCEPT ![r] = q]
  BY <1>2 DEF Finish
<1> QED  BY <1>3, <1>4, <1>5, ReaderStep

\* A list or a detail is of the version that was read, and so is what it counts; a case
\* it does not find is not in it.
LEMMA AnswerIsOfVersion ==
  ASSUME NEW api \in {1, 2}, NEW v, NEW entries, entries = Entries(api, v),
         NEW ask \in Asks, ask.what # "asset",
         NEW a, a = AnswerFrom(api, v, entries, ask)
  PROVE  /\ a.code \in {"ok", "not_found"}
         /\ a.code = "ok" => /\ a.version = v
                             /\ ask.what = "list" => CountsOf(api, v, ask, a)
         /\ a.code = "not_found" /\ ask.what = "detail" => ask.case \notin CasesOf(entries)
<1> DEFINE Says(x, code, total, facets) ==
             x \in [code : {code}, version : {0}, cases : {x.cases}, total : {total}, of : {0},
                    facets : {facets}, members : {x.members}]
           matching == Matching(api, entries, ask.filter)
           all == IF api = 1 THEN matching ELSE CasesOf(entries)
<1>1. ask.what \in {"list", "detail"}
  BY AsksAssumption
<1>2. ASSUME NEW code
      PROVE  Says(Say(code), code, 0, <<>>)
  BY DEF Say, NoAnswer
<1>3. ASSUME NEW shown, NEW total, NEW members
      PROVE  Says([Say("ok") EXCEPT !.cases = shown, !.total = total, !.members = members], "ok", total, <<>>)
  BY <1>2
<1>4. ASSUME NEW shown, NEW total, NEW facets
      PROVE  Says([Say("ok") EXCEPT !.cases = shown, !.total = total, !.facets = facets], "ok", total, facets)
  BY <1>2
<1>5. CASE ask.what = "list"
  <2>1. PICK x : /\ Says(x, "ok", Cardinality(matching), Facets(api, entries, all))
                 /\ a = [x EXCEPT !.version = v, !.of = Cardinality(CasesOf(entries))]
    <3>1. PICK x : x = IF api = 1 THEN List1(entries, ask) ELSE List2(entries, ask)
      OBVIOUS
    <3>2. Says(x, "ok", Cardinality(matching), Facets(api, entries, all))
      <4>1. CASE api = 1
        BY <1>4, <3>1, <4>1 DEF List1
      <4>2. CASE api = 2
        <5>1. x = [Say("ok") EXCEPT !.cases = Page(matching, ask), !.total = Cardinality(matching),
                                    !.facets = Facets(api, entries, CasesOf(entries))]
          BY <3>1, <4>2 DEF List2
        <5>2. all = CasesOf(entries)
          BY <4>2
        <5> HIDE DEF matching, all
        <5> QED  BY <1>4, <5>1, <5>2
      <4> QED  BY <4>1, <4>2
    <3>3. x.code = "ok"
      BY <3>2
    <3>4. a = [x EXCEPT !.version = v, !.of = Cardinality(CasesOf(entries))]
      BY <1>5, <3>1, <3>3 DEF AnswerFrom
    <3> QED  BY <3>2, <3>4
  <2>2. a.code = "ok" /\ a.version = v /\ a.total = Cardinality(matching) /\ a.facets = Facets(api, entries, all)
    BY <2>1
  <2>3. ASSUME NEW value \in DOMAIN a.facets
        PROVE  a.facets[value] =
                 Cardinality(Matching(api, entries, {value} \cup (IF api = 1 THEN ask.filter ELSE {})))
    <3>1. a.facets[value] = Cardinality({c \in all : value \in FacetsOf(api, entries, c)})
      BY <2>2, <2>3 DEF Facets
    <3>2. {c \in all : value \in FacetsOf(api, entries, c)}
            = Matching(api, entries, {value} \cup (IF api = 1 THEN ask.filter ELSE {}))
      BY DEF Matching
    <3> QED  BY <3>1, <3>2
  <2>4. ask.filter = {} => matching = CasesOf(entries)
    BY DEF Matching
  <2>5. CountsOf(api, v, ask, a)
    BY <2>2, <2>3, <2>4 DEF CountsOf
  <2> QED  BY <1>5, <2>2, <2>5
<1>6. CASE ask.what = "detail" /\ ask.case \notin CasesOf(entries)
  <2>1. a = Say("not_found")
    BY <1>6 DEF AnswerFrom, Say, NoAnswer
  <2> QED  BY <1>2, <1>6, <2>1
<1>7. CASE ask.what = "detail" /\ ask.case \in CasesOf(entries)
  <2>1. PICK x : /\ Says(x, "ok", 1, <<>>)
                 /\ a = [x EXCEPT !.version = v, !.of = Cardinality(CasesOf(entries))]
    <3>1. PICK x : x = [Say("ok") EXCEPT !.cases = <<ask.case>>, !.total = 1,
                                         !.members = Detail(api, entries, ask.case)]
      OBVIOUS
    <3>2. Says(x, "ok", 1, <<>>)
      BY <1>3, <3>1
    <3>3. x.code = "ok"
      BY <3>2
    <3>4. a = [x EXCEPT !.version = v, !.of = Cardinality(CasesOf(entries))]
      BY <1>7, <3>1, <3>3 DEF AnswerFrom
    <3> QED  BY <3>2, <3>4
  <2>2. a.code = "ok" /\ a.version = v
    BY <2>1
  <2> QED  BY <1>7, <2>2
<1> QED  BY <1>1, <1>5, <1>6, <1>7

\* A request reads the pointer, a version, and an image of it.
LEMMA ReadingStep ==
  ASSUME PublicInv, UNCHANGED batches, NEW r \in Readers,
         \/ \E api \in {1, 2}, ask \in Asks : ReadPointer(r, api, ask)
         \/ Project(r) \/ Locate1(r) \/ Locate2(r) \/ Fetch(r)
  PROVE  PublicInv'
<1>1. Shaped(reader[r]) /\ ReaderTrue(reader[r]) /\ Informed(reader[r]) /\ reader[r].api \in {1, 2}
  BY DEF PublicInv, ReadersTrue, Shaped
<1>2. \A api \in {1, 2} : Pointer(api) \in Numbers(api) /\ Numbers(api) \subseteq Nat
  BY DEF PublicInv, VersionsTrue, Numbers
<1>3. \A code : Say(code).code = code
  BY DEF Say, NoAnswer
<1>4. ASSUME NEW api \in {1, 2}, NEW v \in Numbers(api), NEW e \in Entries(api, v)
       PROVE  Approved(api, e) /\ Readable(api, e)
  <2>1. Approved(api, e)
    BY <1>4, EntriesOf DEF PublicInv, VersionsTrue
  <2> QED  BY <2>1 DEF Approved, Readable
<1>5. ASSUME NEW api \in {1, 2}, NEW ask \in Asks, ReadPointer(r, api, ask)
      PROVE  PublicInv'
  <2>1. PICK q : q = [NoReader EXCEPT !.pc = "pointed", !.api = api, !.ask = ask,
                                      !.version = Pointer(api), !.span = {Pointer(api)}]
    OBVIOUS
  <2>2. /\ Shaped(q)
        /\ q.pc = "pointed" /\ q.api = api /\ q.ask = ask /\ q.version = Pointer(api)
        /\ q.answer = NoAnswer /\ q.span = {Pointer(api)}
    BY <1>2, <2>1 DEF NoReader, Shaped
  <2>3. ReaderTrue(q) /\ Informed(q)
    BY <1>2, <2>2 DEF ReaderTrue, Informed, NoAnswer
  <2>4. reader' = [reader EXCEPT ![r] = q] /\ Untouched
    BY <1>5, <2>1 DEF ReadPointer
  <2> QED  BY <2>2, <2>3, <2>4, ReaderStep
<1>6. CASE Project(r)
  <2>1. /\ reader[r].pc = "pointed" /\ reader[r].ask \in Asks /\ reader[r].ask.what # "asset" /\ Untouched
        /\ reader[r].version \in Numbers(reader[r].api)
    BY <1>1, <1>6 DEF Project, Reading, ReaderTrue
  <2>2. PICK entries : entries = Entries(reader[r].api, reader[r].version)
    OBVIOUS
  <2>3. EntriesRead(r) = entries /\ \A e \in entries : Readable(reader[r].api, e)
    BY <1>1, <1>4, <2>1, <2>2 DEF EntriesRead
  <2>4. PICK answer :
          /\ Finish(r, answer)
          /\ \/ reader[r].ask.what = "list" /\ answer = Say("no_current")
             \/ answer = AnswerFrom(reader[r].api, reader[r].version, entries, reader[r].ask)
    BY <1>6, <2>3 DEF Project
  <2>5. CASE answer = Say("no_current")
    BY <1>3, <2>1, <2>4, <2>5, FinishStep
  <2>6. CASE answer = AnswerFrom(reader[r].api, reader[r].version, entries, reader[r].ask)
    <3>1. /\ answer.code \in {"ok", "not_found"}
          /\ answer.code = "ok" =>
               /\ answer.version = reader[r].version
               /\ reader[r].ask.what = "list" =>
                    CountsOf(reader[r].api, reader[r].version, reader[r].ask, answer)
          /\ answer.code = "not_found" /\ reader[r].ask.what = "detail" =>
               reader[r].ask.case \notin CasesOf(entries)
      BY <1>1, <2>1, <2>2, <2>6, AnswerIsOfVersion
    <3> QED  BY <2>1, <2>2, <2>4, <3>1, FinishStep
  <2> QED  BY <2>4, <2>5, <2>6
<1>7. ASSUME NEW v \in Numbers(reader[r].api) \cap reader[r].span,
             NEW q, q = [reader[r] EXCEPT !.pc = "located", !.version = v],
             reader[r].pc = "pointed", reader[r].ask.what = "asset",
             NEW e \in Entries(reader[r].api, v), reader[r].ask.content \in Deliverable(reader[r].api, e),
             reader' = [reader EXCEPT ![r] = q], Untouched
      PROVE  PublicInv'
  <2>1. /\ Shaped(q)
        /\ q.pc = "located" /\ q.api = reader[r].api /\ q.ask = reader[r].ask
        /\ q.version = v /\ q.answer = reader[r].answer /\ q.span = reader[r].span
    BY <1>1, <1>2, <1>7 DEF Shaped
  <2>2. reader[r].ask \in Asks /\ reader[r].answer.code = "none"
    BY <1>1, <1>7 DEF ReaderTrue
  <2>3. ReaderTrue(q) /\ Informed(q)
    BY <1>1, <1>7, <2>1, <2>2 DEF ReaderTrue, Informed
  <2> QED  BY <1>7, <2>1, <2>3, ReaderStep
<1>8. CASE Locate1(r)
  <2>1. /\ reader[r].pc = "pointed" /\ reader[r].api = 1 /\ reader[r].ask.what = "asset" /\ Untouched
        /\ reader[r].version \in Numbers(1) \cap reader[r].span
    BY <1>1, <1>8 DEF Locate1, Reading, ReaderTrue
  <2>2. \A e \in Entries(1, reader[r].version) :
          reader[r].ask.content \in Deliverable(1, e) => reader[r].ask.content \in e.located
    BY <1>4, <2>1 DEF Approved, Deliverable, MirrorPolicies
  <2>3. \/ Finish(r, Say("not_found"))
        \/ /\ \E e \in Entries(1, reader[r].version) : reader[r].ask.content \in Deliverable(1, e)
           /\ reader' = [reader EXCEPT ![r] = [reader[r] EXCEPT !.pc = "located"]]
    BY <1>8, <2>1, <2>2 DEF Locate1, EntriesRead
  <2>4. ASSUME Finish(r, Say("not_found"))
        PROVE  PublicInv'
    BY <1>3, <2>1, <2>4, FinishStep
  <2>5. ASSUME NEW e \in Entries(1, reader[r].version), reader[r].ask.content \in Deliverable(1, e),
               reader' = [reader EXCEPT ![r] = [reader[r] EXCEPT !.pc = "located"]]
        PROVE  PublicInv'
    <3>1. PICK v : v = reader[r].version
      OBVIOUS
    <3>2. PICK q : q = [reader[r] EXCEPT !.pc = "located", !.version = v]
      OBVIOUS
    <3>3. q = [reader[r] EXCEPT !.pc = "located"]
      BY <1>1, <3>1, <3>2 DEF Shaped
    <3> QED  BY <1>7, <2>1, <2>5, <3>1, <3>2, <3>3
  <2> QED  BY <2>3, <2>4, <2>5
<1>9. CASE Locate2(r)
  <2>1. /\ reader[r].pc = "pointed" /\ reader[r].api = 2 /\ reader[r].ask.what = "asset" /\ Untouched
        /\ reader[r].version \in Numbers(2)
    BY <1>1, <1>9 DEF Locate2, Reading, ReaderTrue
  <2>2. \A e \in Entries(2, reader[r].version) : Readable(2, e)
    BY <1>4, <2>1
  <2>3. \/ Finish(r, Say("not_found"))
        \/ /\ \E e \in Entries(2, current2) : reader[r].ask.content \in Deliverable(2, e)
           /\ reader' = [reader EXCEPT ![r] = [reader[r] EXCEPT !.pc = "located", !.version = current2]]
    BY <1>9, <2>1, <2>2 DEF Locate2, EntriesRead, Entries
  <2>4. ASSUME Finish(r, Say("not_found"))
        PROVE  PublicInv'
    BY <1>3, <2>1, <2>4, FinishStep
  <2>5. ASSUME NEW e \in Entries(2, current2), reader[r].ask.content \in Deliverable(2, e),
               reader' = [reader EXCEPT ![r] = [reader[r] EXCEPT !.pc = "located", !.version = current2]]
        PROVE  PublicInv'
    <3>1. current2 \in Numbers(2) /\ current2 \in reader[r].span
      BY <1>1, <1>2, <2>1 DEF Pointer, Informed
    <3>2. PICK q : q = [reader[r] EXCEPT !.pc = "located", !.version = current2]
      OBVIOUS
    <3> QED  BY <1>7, <2>1, <2>5, <3>1, <3>2
  <2> QED  BY <2>3, <2>4, <2>5
<1>10. CASE Fetch(r)
  <2>1. reader[r].pc = "located" /\ reader[r].ask.what = "asset" /\ Untouched
    BY <1>1, <1>10 DEF Fetch, Reading, ReaderTrue
  <2>2. PICK answer :
          /\ Finish(r, answer)
          /\ \/ \E code \in {"integrity_failed", "asset_unavailable"} : answer = Say(code)
             \/ answer = [Say("ok") EXCEPT !.version = reader[r].version, !.total = 1]
    BY <1>10 DEF Fetch
  <2>3. answer.code \notin {"unavailable", "not_found"} /\ answer.version \in {0, reader[r].version}
        /\ (answer.code = "ok" => answer.version = reader[r].version)
    BY <1>3, <2>2 DEF Say, NoAnswer
  <2> QED  BY <2>1, <2>2, <2>3, FinishStep
<1> QED  BY <1>5, <1>6, <1>8, <1>9, <1>10

\* A review only adds to the log that the versions refer to.
LEMMA ReviewsGrow == ReviewInv /\ ReviewNext => Grow
<1> SUFFICES ASSUME ReviewInv, ReviewNext
             PROVE  Grow
  OBVIOUS
<1>1. UNCHANGED <<events, versions1, versions2>>
  BY DEF ReviewNext, Reviewing, In, OnlyReviews, apiVars
<1>2. \/ UNCHANGED batches
      \/ \E r \in Reviewers : SubmitRecorded(r)
  BY DEF ReviewNext, Open, Send, SendForbidden, SubmitAgain, SubmitRefused, AnswerLost, SendAgain,
         ImportNext, DeployLedger
<1>3. ASSUME NEW r \in Reviewers, SubmitRecorded(r)
      PROVE  \A b \in DOMAIN batches : b \in DOMAIN batches' /\ batches'[b] = batches[b]
  <2>1. batches \in Seq(ReviewRecords) /\ request[r].review \in ReviewRecords
    BY DEF ReviewInv, Lawful, Requests
  <2>2. batches' = Append(batches, request[r].review)
    BY <1>3 DEF SubmitRecorded
  <2> QED  BY <2>1, <2>2, AppendGrows
<1> QED  BY <1>1, <1>2, <1>3 DEF Grow, VersionsKept, Built

\* Every step keeps what was approved approved.
LEMMA PublicKeeps == ReviewInv /\ PublicInv /\ [Next]_vars => PublicInv'
<1> SUFFICES ASSUME ReviewInv, PublicInv, [Next]_vars
             PROVE  PublicInv'
  OBVIOUS
<1>1. CASE UNCHANGED <<batches, apiVars>>
  BY <1>1, GrowNothing, OutsideStep DEF apiVars
<1>2. CASE ReviewNext
  <2>1. UNCHANGED apiVars
    BY <1>2 DEF ReviewNext, Reviewing, In, OnlyReviews
  <2> QED  BY <1>2, <2>1, ReviewsGrow, OutsideStep DEF apiVars
<1>3. CASE Publication1Next \/ Publication2Next \/ PublicApiNext
  <2>1. UNCHANGED batches /\ clock \in Int
    BY <1>3 DEF Publication1Next, Publication2Next, PublicApiNext, OnlyPublication, reviewVars, ReviewInv
  <2>2. ASSUME NEW e, BlockKey(e) \/ TakeDown(e)
        PROVE  PublicInv'
    <3>1. UNCHANGED <<events, building, versions1, current1, versions2, current2, reader>>
      BY <2>2 DEF BlockKey, TakeDown
    <3> QED  BY <2>1, <3>1, GrowNothing, OutsideStep
  <2>3. CASE Publication1Next
    BY <2>1, <2>2, <2>3, RightsSteps, Build1Step, SwitchSteps DEF Publication1Next
  <2>4. CASE Publication2Next
    BY <2>1, <2>2, <2>4, Build2Step, SwitchSteps DEF Publication2Next
  <2>5. CASE PublicApiNext
    BY <2>1, <2>5, ReadingStep DEF PublicApiNext
  <2> QED  BY <1>3, <2>3, <2>4, <2>5
<1>4. CASE UNCHANGED vars \/ Tick \/ LoginNext \/ PreviewNext \/ IdentityNext
  <2>1. UNCHANGED vars \/ Tick \/ LoginNext => UNCHANGED <<batches, apiVars>>
    BY DEF vars, Tick, LoginNext, OnlySessions, reviewVars
  <2>2. PreviewNext \/ IdentityNext => UNCHANGED <<batches, apiVars>>
    BY DEF PreviewNext, IdentityNext, OnlyPreview, OnlyIdentity, reviewVars
  <2> QED  BY <1>1, <1>4, <2>1, <2>2
<1>5. CASE StoreNext \/ MirrorNext
  <2>1. StoreNext \/ MirrorNext => UNCHANGED <<batches, apiVars>>
    BY DEF StoreNext, MirrorNext, OnlyStore, OnlyMirror, reviewVars
  <2> QED  BY <1>1, <1>5, <2>1
<1> QED  BY <1>2, <1>3, <1>4, <1>5 DEF Next

\* The invariant of the publications and their readers holds of every behaviour.
LEMMA PublicInvariance == Spec => []PublicInv
BY ReviewInvariance, PublicInitially, PublicKeeps, PTL DEF Spec

\* What the public gets was approved by the review it was built from, and a copy is
\* delivered only where that review allows one: for any reviews of either
\* publication, takedowns, builds, switches and readers.
THEOREM ServedAlwaysApproved == Spec => []ServedIsApproved
<1>1. PublicInv => ServedIsApproved
  BY PublicImplies
<1> QED  BY <1>1, PublicInvariance, PTL

\* An answer is of one version, which was public at some moment of the request: so
\* are its image, its counts and what it did not find. No version that was built is
\* refused. For any readers and requests, whatever is switched between their statements.
THEOREM AnswersAlwaysCurrent == Spec => []AnswersAreCurrent
<1>1. PublicInv => AnswersAreCurrent
  <2> SUFFICES ASSUME PublicInv, NEW r \in Readers, NEW q, q = reader[r],
                      Shaped(q), ReaderTrue(q)
               PROVE  /\ q.answer.code # "unavailable"
                      /\ q.answer.code = "ok" => q.answer.version \in q.span
                      /\ q.answer.code = "ok" /\ q.ask.what = "asset" =>
                           \E e \in Entries(q.api, q.answer.version) :
                             q.ask.content \in IF q.api = 1 THEN AssetsOf[e.example] ELSE Contents(e)
                      /\ q.answer.code = "ok" /\ q.ask.what = "list" =>
                           CountsOf(q.api, q.answer.version, q.ask, q.answer)
                      /\ q.answer.code = "not_found" /\ q.ask.what = "detail" =>
                           \E v \in q.span : q.ask.case \notin CasesOf(Entries(q.api, v))
    BY DEF PublicInv, ReadersTrue, AnswersAreCurrent
  <2>1. \A e : Deliverable(q.api, e) \subseteq IF q.api = 1 THEN AssetsOf[e.example] ELSE Contents(e)
    BY DEF Deliverable, Contents
  <2> QED  BY <2>1 DEF ReaderTrue
<1> QED  BY <1>1, PublicInvariance, PTL

-----------------------------------------------------------------------------
(* Pages and details. The entries of a version are of different examples   *)
(* (v1), or of the different cases of one revision (v2), so a sorted list   *)
(* of them has each once, and so has a page that is cut out of it.         *)

\* what a page shows, and the cases of the pages before it
Listing(page) == {page[i] : i \in DOMAIN page}
Preceding(keys, listed) == {c \in keys : \E d \in listed : c < d}

\* A page that is not empty begins where the pages before it end.
LEMMA PageFact ==
  ASSUME NEW keys \in SUBSET Int, IsFiniteSet(keys),
         NEW ask, ask.page \in Nat \ {0}, ask.size \in Nat \ {0},
         NEW page, page = Page(keys, ask), NEW listed, listed = Listing(page)
  PROVE  /\ listed \subseteq keys
         /\ listed # {} => Cardinality(Preceding(keys, listed) \ listed) = (ask.page - 1) * ask.size
<1> DEFINE n == Cardinality(keys)
           ordered == Ascending(keys)
           skip == (ask.page - 1) * ask.size
           end == ask.page * ask.size
           last == IF end < Len(ordered) THEN end ELSE Len(ordered)
<1>1. n \in Nat
  BY FS_CardinalityType
<1>2. Lists(ordered, keys, Less(keys))
  BY LessOrders, SortedByFact DEF Ascending
<1>3. /\ ordered \in [1..n -> keys]
      /\ \A i, j \in 1..n : i < j => ordered[i] < ordered[j]
      /\ \A i, j \in 1..n : ordered[i] = ordered[j] => i = j
      /\ \A x \in keys : \E i \in 1..n : ordered[i] = x
  <2> HIDE DEF n, ordered
  <2>1. /\ ordered \in [1..n -> keys]
        /\ \A i, j \in 1..n : ordered[i] = ordered[j] => i = j
        /\ \A x \in keys : \E i \in 1..n : ordered[i] = x
    BY <1>2 DEF Lists, n
  <2>2. \A i, j \in 1..n : i < j => <<ordered[i], ordered[j]>> \in Less(keys)
    BY <1>2, <2>1 DEF Lists, IsSortedBy
  <2> QED BY <2>1, <2>2 DEF Less
<1>4. skip \in Nat /\ end \in Nat
  OBVIOUS
<1>5. page = SubSeq(ordered, skip + 1, last)
  BY DEF Page
<1> HIDE DEF n, ordered, skip, end
<1>6. Len(ordered) = n
  BY <1>1, <1>3, LengthOf
<1>7. last \in Int /\ last <= n
  BY <1>1, <1>4, <1>6
<1> HIDE DEF last
<1>8. (skip + 1)..last \subseteq 1..n
  BY <1>1, <1>4, <1>7
<1>9. DOMAIN page = 1..(last - skip) /\ \A i \in 1..(last - skip) : page[i] = ordered[i + skip]
  <2>1. \A i \in (skip + 1)..last : ordered[i] \in keys
    BY <1>3, <1>8
  <2>2. /\ page \in Seq(keys)
        /\ Len(page) = IF skip + 1 <= last THEN last - (skip + 1) + 1 ELSE 0
        /\ \A i \in 1..(last - (skip + 1) + 1) : page[i] = ordered[(skip + 1) + i - 1]
    BY <1>4, <1>5, <1>7, <2>1, SubSeqProperties
  <2>3. DOMAIN page = 1..(last - skip)
    BY <1>4, <1>7, <2>2
  <2>4. \A i \in 1..(last - skip) : i \in 1..(last - (skip + 1) + 1) /\ (skip + 1) + i - 1 = i + skip
    BY <1>4, <1>7
  <2> QED BY <2>2, <2>3, <2>4
<1>10. listed = {ordered[i] : i \in (skip + 1)..last}
  <2>1. \A i \in 1..(last - skip) : i + skip \in (skip + 1)..last
    BY <1>4, <1>7
  <2>2. \A i \in (skip + 1)..last : i - skip \in 1..(last - skip) /\ (i - skip) + skip = i
    BY <1>4, <1>7
  <2>3. \A x \in listed : \E i \in (skip + 1)..last : x = ordered[i]
    BY <1>9, <2>1 DEF Listing
  <2>4. \A i \in (skip + 1)..last : \E j \in 1..(last - skip) : page[j] = ordered[i]
    BY <1>9, <2>2
  <2> QED BY <1>9, <2>3, <2>4 DEF Listing
<1>12. listed \subseteq keys
  <2>1. \A i \in (skip + 1)..last : ordered[i] \in keys
    BY <1>3, <1>8
  <2> QED BY <1>10, <2>1
<1>13. ASSUME listed # {}
       PROVE  Cardinality(Preceding(keys, listed) \ listed) = skip
  <2>1. skip + 1 <= last /\ skip <= n
    BY <1>1, <1>4, <1>7, <1>10, <1>13
  <2>2. \A i, j \in 1..n : ordered[i] \in Int /\ (ordered[i] < ordered[j] => i < j)
    <3> TAKE i, j \in 1..n
    <3>1. ordered[i] \in Int /\ ordered[j] \in Int
      BY <1>3
    <3>2. CASE i < j
      BY <3>1, <3>2
    <3>3. CASE i = j
      BY <3>1, <3>3
    <3>4. CASE j < i
      BY <1>3, <3>1, <3>4
    <3> QED BY <1>1, <3>1, <3>2, <3>3, <3>4
  <2>3. ASSUME NEW i \in 1..skip
        PROVE  ordered[i] \in Preceding(keys, listed) \ listed
    <3>1. i \in 1..n /\ skip + 1 \in 1..n /\ i < skip + 1
      BY <1>1, <1>4, <1>7, <2>1
    <3>2. ordered[skip + 1] \in listed
      BY <1>4, <1>7, <1>10, <2>1
    <3>3. ordered[i] \in keys /\ ordered[i] < ordered[skip + 1]
      BY <1>3, <3>1
    <3>4. ordered[i] \notin listed
      <4>1. \A j \in (skip + 1)..last : i # j
        BY <1>4
      <4>2. \A j \in (skip + 1)..last : ordered[i] # ordered[j]
        BY <1>3, <1>8, <3>1, <4>1
      <4> QED BY <1>10, <4>2
    <3> QED BY <3>2, <3>3, <3>4 DEF Preceding
  <2>4. ASSUME NEW c \in Preceding(keys, listed) \ listed
        PROVE  \E i \in 1..skip : c = ordered[i]
    <3>1. PICK i \in 1..n : ordered[i] = c
      BY <1>3 DEF Preceding
    <3>2. PICK j \in (skip + 1)..last : ordered[i] < ordered[j]
      BY <1>10, <3>1 DEF Preceding
    <3>3. i < j
      BY <1>8, <2>2, <3>2
    <3>4. i \notin (skip + 1)..last
      BY <1>10, <3>1
    <3>5. j \in Int /\ i \in Int /\ i >= 1 /\ j <= last
      BY <1>1, <1>4, <1>7
    <3>6. i \in 1..skip
      BY <1>4, <1>7, <3>3, <3>4, <3>5
    <3> QED BY <3>1, <3>6
  <2>5. Preceding(keys, listed) \ listed = {ordered[i] : i \in 1..skip}
    BY <2>3, <2>4
  <2>6. OneToOne(ordered, skip)
    <3>1. 1..skip \subseteq 1..n
      BY <1>1, <1>4, <2>1
    <3> QED BY <1>3, <3>1 DEF OneToOne
  <2>7. Cardinality({ordered[i] : i \in 1..skip}) = skip
    BY <1>4, <2>6, ImageCount
  <2> QED BY <2>5, <2>7
<1> QED BY <1>12, <1>13 DEF skip

\* The entries of a version are of different examples (v1) or cases (v2).
Distinct(api, entries) ==
  /\ IsFiniteSet(entries)
  /\ \A e, f \in entries : (IF api = 1 THEN e.example = f.example ELSE e.case = f.case) => e = f

\* What PagesAreWhole asks of one answer.
Whole(entries, ask, a) ==
  LET listed == Listing(a.cases)
  IN /\ ask.what = "detail" =>
          LET members == {e \in entries : e.case = ask.case}
          IN Len(a.members) = Cardinality(members) /\ members # {}
     /\ ask.what = "list" =>
          /\ listed \subseteq CasesOf(entries)
          /\ ask.filter = {} /\ listed # {} =>
               Cardinality(Preceding(CasesOf(entries), listed) \ listed) = (ask.page - 1) * ask.size

ReaderWhole(q) == q.answer.code = "ok" => Whole(Entries(q.api, q.answer.version), q.ask, q.answer)
WholeInv ==
  /\ \A api \in {1, 2} : \A v \in DOMAIN Built(api) : Distinct(api, Built(api)[v])
  /\ \A r \in Readers : ReaderWhole(reader[r])

\* The invariant says what the property asks.
LEMMA WholeIsEnough == WholeInv => PagesAreWhole
BY DEF WholeInv, ReaderWhole, Whole, PagesAreWhole, Preceding, Listing

\* A list shows a page of cases that match, and all cases match no filter.
LEMMA ListIsWhole ==
  ASSUME NEW api \in {1, 2}, NEW entries \in SUBSET Frozen(api), IsFiniteSet(entries),
         NEW v, NEW ask \in Asks, ask.what = "list",
         NEW a, a = AnswerFrom(api, v, entries, ask)
  PROVE  Whole(entries, ask, a)
<1> DEFINE matching == Matching(api, entries, ask.filter)
           listed == Listing(a.cases)
<1>1. a.cases = Page(matching, ask)
  <2>1. PICK page, total, facets :
          /\ page = Page(matching, ask) /\ total = Cardinality(matching)
          /\ facets = IF api = 1 THEN Facets(1, entries, matching) ELSE Facets(2, entries, CasesOf(entries))
    OBVIOUS
  <2>2. PICK x : x = [Say("ok") EXCEPT !.cases = page, !.total = total, !.facets = facets]
    OBVIOUS
  <2>3. x.code = "ok" /\ x.cases = page /\ DOMAIN x = DOMAIN NoAnswer
    BY <2>2 DEF Say, NoAnswer
  <2>4. (IF api = 1 THEN List1(entries, ask) ELSE List2(entries, ask)) = x
    <3>1. CASE api = 1
      BY <2>1, <2>2, <3>1 DEF List1
    <3>2. CASE api = 2
      BY <2>1, <2>2, <3>2 DEF List2
    <3> QED BY <3>1, <3>2
  <2>5. a = [x EXCEPT !.version = v, !.of = Cardinality(CasesOf(entries))]
    BY <2>3, <2>4 DEF AnswerFrom
  <2> QED BY <2>1, <2>3, <2>5 DEF NoAnswer
<1>2. matching \subseteq CasesOf(entries) /\ (ask.filter = {} => matching = CasesOf(entries))
  BY DEF Matching
<1>3. IsFiniteSet(CasesOf(entries))
  <2> DEFINE f == [e \in entries |-> e.case]
  <2>1. CasesOf(entries) = {f[e] : e \in entries}
    BY DEF CasesOf
  <2> HIDE DEF f
  <2> QED BY <2>1, ImageIsFinite DEF IsImage
<1>4. CasesOf(entries) \subseteq Int
  <2>1. \A e \in entries : e.case \in Int
    BY PublicAssumption DEF Frozen, Frozen1, Frozen2
  <2> QED BY <2>1 DEF CasesOf
<1>5. matching \in SUBSET Int /\ IsFiniteSet(matching)
  BY <1>2, <1>3, <1>4, FS_Subset
<1>6. ask.page \in Nat \ {0} /\ ask.size \in Nat \ {0}
  BY AsksAssumption
<1> HIDE DEF matching
<1>7. /\ listed \subseteq matching
      /\ listed # {} => Cardinality(Preceding(matching, listed) \ listed) = (ask.page - 1) * ask.size
  BY <1>1, <1>5, <1>6, PageFact
<1>8. ask.filter = {} /\ listed # {} =>
        Cardinality(Preceding(CasesOf(entries), listed) \ listed) = (ask.page - 1) * ask.size
  <2> HIDE DEF listed
  <2> QED BY <1>2, <1>7
<1>9. listed \subseteq CasesOf(entries)
  BY <1>2, <1>7
<1> HIDE DEF listed
<1>10. ask.what # "detail"
  OBVIOUS
<1> QED BY <1>8, <1>9, <1>10 DEF Whole, listed

\* A detail has a member for each entry of its case.
LEMMA DetailIsWhole ==
  ASSUME NEW api \in {1, 2}, NEW entries \in SUBSET Frozen(api), Distinct(api, entries),
         NEW v, NEW ask \in Asks, ask.what = "detail",
         NEW a, a = AnswerFrom(api, v, entries, ask), a.code = "ok"
  PROVE  Whole(entries, ask, a)
<1> DEFINE members == {e \in entries : e.case = ask.case}
<1>1. members # {} /\ a.members = Detail(api, entries, ask.case)
  <2>1. Say("not_found").code = "not_found"
    BY DEF Say, NoAnswer
  <2>2. ask.case \in CasesOf(entries)
    BY <2>1 DEF AnswerFrom
  <2>3. PICK detail : detail = Detail(api, entries, ask.case)
    OBVIOUS
  <2>4. PICK x : x = [Say("ok") EXCEPT !.cases = <<ask.case>>, !.total = 1, !.members = detail]
    OBVIOUS
  <2>5. x.code = "ok" /\ x.members = detail /\ DOMAIN x = DOMAIN NoAnswer
    BY <2>4 DEF Say, NoAnswer
  <2>6. a = [x EXCEPT !.version = v, !.of = Cardinality(CasesOf(entries))]
    BY <2>2, <2>3, <2>4, <2>5 DEF AnswerFrom
  <2>7. a.members = detail
    BY <2>5, <2>6 DEF NoAnswer
  <2> QED BY <2>2, <2>3, <2>7 DEF CasesOf
<1>2. IsFiniteSet(members)
  BY FS_Subset DEF Distinct
<1>3. CASE api = 1
  <2> DEFINE before == {p \in members \X members : p[1].example < p[2].example}
             m == MembersOf1(entries, ask.case)
             n == Cardinality(members)
             detail == Detail(api, entries, ask.case)
  <2>1. \A e \in members : e.example \in Int
    BY <1>3, PublicAssumption DEF Frozen, Frozen1
  <2>2. \A e, f \in members : e.example = f.example => e = f
    BY <1>3 DEF Distinct
  <2>3. StrictlyOrders(before, members)
    <3> HIDE DEF members
    <3> QED BY <2>1, <2>2 DEF StrictlyOrders
  <2>4. Lists(m, members, before)
    <3>1. m = SortedBy(members, before)
      BY DEF MembersOf1
    <3> HIDE DEF members, before, m
    <3> QED BY <1>2, <2>3, <3>1, SortedByFact
  <2>5. n \in Nat /\ DOMAIN m = 1..n
    <3> HIDE DEF members, before, m
    <3> QED BY <1>2, <2>4, FS_CardinalityType DEF Lists
  <2>6. detail = [i \in 1..n |-> Member1(m[i])]
    <3> HIDE DEF n
    <3> QED BY <1>3, <2>5 DEF Detail
  <2> HIDE DEF m, n, detail
  <2>7. detail = [i \in 1..n |-> detail[i]]
    BY <2>6
  <2>8. Len(detail) = n
    BY <2>5, <2>7, LengthOf
  <2> QED BY <1>1, <2>8 DEF Whole, detail, n
<1>4. CASE api = 2
  <2>1. PICK e \in members : TRUE
    BY <1>1
  <2>2. members = {e}
    BY <1>4 DEF Distinct
  <2>3. Cardinality(members) = 1
    BY <2>2, FS_Singleton
  <2>4. Len(a.members) = 1
    BY <1>1, <1>4 DEF Detail
  <2> QED BY <1>1, <2>3, <2>4 DEF Whole
<1> QED BY <1>3, <1>4

\* Nothing is asked or answered at first.
LEMMA WholeInitially == Init => WholeInv
<1> SUFFICES ASSUME Init
             PROVE  WholeInv
  OBVIOUS
<1>1. versions1 = <<>> /\ versions2 = <<>> /\ reader = [r \in Readers |-> NoReader]
  BY DEF Init, ApiInit
<1>2. \A api \in {1, 2} : DOMAIN Built(api) = {}
  BY <1>1 DEF Built
<1>3. NoReader.answer.code # "ok"
  BY DEF NoReader, NoAnswer
<1> QED BY <1>1, <1>2, <1>3 DEF WholeInv, ReaderWhole

\* A version of v1 has one entry for each example that passed.
LEMMA Build1Distinct ==
  ASSUME NEW entries, entries = {Snapshot1(e, building[e]) : e \in {f \in Examples : Gate(f, building[f]) = {}}}
  PROVE  Distinct(1, entries)
<1> DEFINE passed == {f \in Examples : Gate(f, building[f]) = {}}
           snapshot == [e \in passed |-> Snapshot1(e, building[e])]
<1>1. entries = {snapshot[e] : e \in passed}
  OBVIOUS
<1>2. \A e \in passed : snapshot[e].example = e
  BY DEF Snapshot1
<1>3. IsFiniteSet(passed)
  BY PublicAssumption, FS_Subset
<1> HIDE DEF passed, snapshot
<1>4. IsFiniteSet(entries)
  <2>1. IsImage(entries, snapshot, passed)
    BY <1>1 DEF IsImage
  <2> QED BY <1>3, <2>1, ImageIsFinite
<1>5. \A x, y \in entries : x.example = y.example => x = y
  BY <1>1, <1>2
<1> QED BY <1>4, <1>5 DEF Distinct

\* A version of v2 is of one revision, which has each case once.
LEMMA Build2Distinct ==
  ASSUME NEW entries, entries = {Freeze(v) : v \in {w \in Versions : Includes(w)}}
  PROVE  Distinct(2, entries)
<1> DEFINE included == {w \in Versions : Includes(w)}
           frozen == [v \in included |-> Freeze(v)]
<1>1. entries = {frozen[v] : v \in included}
  OBVIOUS
<1>2. \A v \in included : frozen[v].case = CaseOf[v]
  BY DEF Freeze
<1>3. \A v, w \in included : CaseOf[v] = CaseOf[w] => v = w
  BY PublicAssumption DEF Includes, InQueue, Selection
<1>4. IsFiniteSet(included)
  BY PublicAssumption, FS_Subset
<1> HIDE DEF included, frozen
<1>5. IsFiniteSet(entries)
  <2>1. IsImage(entries, frozen, included)
    BY <1>1 DEF IsImage
  <2> QED BY <1>4, <2>1, ImageIsFinite
<1> QED BY <1>1, <1>2, <1>3, <1>5 DEF Distinct

\* The other parts leave the publications and their readers alone.
LEMMA ElsewhereUntouched ==
  ASSUME UNCHANGED vars \/ Tick \/ LoginNext \/ ReviewNext \/ PreviewNext \/ IdentityNext \/ StoreNext \/ MirrorNext
  PROVE  UNCHANGED apiVars
<1>1. UNCHANGED vars \/ Tick \/ LoginNext => UNCHANGED apiVars
  BY DEF vars, Tick, LoginNext, OnlySessions
<1>2. ReviewNext => UNCHANGED apiVars
  BY DEF ReviewNext, Reviewing, In, OnlyReviews
<1>3. PreviewNext \/ IdentityNext => UNCHANGED apiVars
  BY DEF PreviewNext, IdentityNext, OnlyPreview, OnlyIdentity
<1>4. StoreNext \/ MirrorNext => UNCHANGED apiVars
  BY DEF StoreNext, MirrorNext, OnlyStore, OnlyMirror
<1> QED BY <1>1, <1>2, <1>3, <1>4

\* One version after the other is added at the end.
LEMMA VersionsGrow ==
  ASSUME NEW versions, NEW S, versions \in Seq(S), NEW new,
         NEW after, after = Append(versions, new)
  PROVE  /\ \A v \in DOMAIN versions : v \in DOMAIN after /\ after[v] = versions[v]
         /\ \A v \in DOMAIN after : v \in DOMAIN versions \/ after[v] = new
<1>1. versions \in Seq(S \cup {new})
  OBVIOUS
<1> QED BY <1>1, AppendGrows

\* The versions are kept, and a new one has distinct entries.
LEMMA VersionsKeep ==
  ASSUME PublicInv, WholeInv, [Next]_vars
  PROVE  VersionsKept /\ \A api \in {1, 2} : \A v \in DOMAIN Built(api)' : Distinct(api, Built(api)'[v])
<1>1. \A api \in {1, 2} : Built(api) \in Seq(SUBSET Frozen(api))
  BY DEF PublicInv, VersionsTrue
<1>2. \A api \in {1, 2} : \A v \in DOMAIN Built(api) : Distinct(api, Built(api)[v])
  BY DEF WholeInv
<1>3. CASE UNCHANGED <<versions1, versions2>>
  BY <1>2, <1>3 DEF VersionsKept, Built
<1>4. ASSUME NEW api \in {1, 2}, NEW entries, Distinct(api, entries), Built(api)' = Append(Built(api), entries),
             \A other \in {1, 2} : other # api => UNCHANGED Built(other)
      PROVE  VersionsKept /\ \A x \in {1, 2} : \A v \in DOMAIN Built(x)' : Distinct(x, Built(x)'[v])
  <2>1. /\ \A v \in DOMAIN Built(api) : v \in DOMAIN Built(api)' /\ Built(api)'[v] = Built(api)[v]
        /\ \A v \in DOMAIN Built(api)' : v \in DOMAIN Built(api) \/ Built(api)'[v] = entries
    BY <1>1, <1>4, VersionsGrow
  <2>2. VersionsKept
    BY <1>4, <2>1 DEF VersionsKept
  <2>3. ASSUME NEW x \in {1, 2}, NEW v \in DOMAIN Built(x)'
        PROVE  Distinct(x, Built(x)'[v])
    <3>1. CASE x = api
      BY <1>2, <1>4, <2>1, <2>3, <3>1
    <3>2. CASE x # api
      BY <1>2, <1>4, <2>3, <3>2
    <3> QED BY <3>1, <3>2
  <2> QED BY <2>2, <2>3
<1>5. CASE Build1
  <2>1. PICK entries : entries = {Snapshot1(e, building[e]) : e \in {f \in Examples : Gate(f, building[f]) = {}}}
    OBVIOUS
  <2>2. Built(1)' = Append(Built(1), entries) /\ UNCHANGED Built(2)
    BY <1>5, <2>1 DEF Build1, Built
  <2> QED BY <1>4, <2>1, <2>2, Build1Distinct
<1>6. CASE Build2
  <2>1. PICK entries : entries = {Freeze(v) : v \in {w \in Versions : Includes(w)}}
    OBVIOUS
  <2>2. Built(2)' = Append(Built(2), entries) /\ UNCHANGED Built(1)
    BY <1>6, <2>1 DEF Build2, Built
  <2> QED BY <1>4, <2>1, <2>2, Build2Distinct
<1>7. CASE Publication1Next \/ Publication2Next \/ PublicApiNext
  <2>1. Publication1Next => Build1 \/ UNCHANGED <<versions1, versions2>>
    BY DEF Publication1Next, RecordRights, BlockKey, BeginBuild1, Switch1
  <2>2. Publication2Next => Build2 \/ UNCHANGED <<versions1, versions2>>
    BY DEF Publication2Next, Switch2, TakeDown
  <2>3. PublicApiNext => UNCHANGED <<versions1, versions2>>
    BY DEF PublicApiNext, ReadPointer, Project, Locate1, Locate2, Fetch, Untouched
  <2> QED BY <1>3, <1>5, <1>6, <1>7, <2>1, <2>2, <2>3
<1>8. UNCHANGED vars \/ Tick \/ LoginNext \/ ReviewNext \/ PreviewNext \/ IdentityNext \/ StoreNext \/ MirrorNext
        => UNCHANGED <<versions1, versions2>>
  BY ElsewhereUntouched DEF apiVars
<1> QED BY <1>3, <1>7, <1>8 DEF Next, apiVars

\* An answer that stays is of a version that stays.
LEMMA WholeStays ==
  ASSUME PublicInv, WholeInv, VersionsKept, NEW r \in Readers,
         NEW q, q.api = reader[r].api, q.ask = reader[r].ask, q.answer = reader[r].answer
  PROVE  ReaderWhole(q)'
<1>1. reader[r].api \in {1, 2} /\ ReaderTrue(reader[r]) /\ ReaderWhole(reader[r])
  BY DEF PublicInv, ReadersTrue, Shaped, WholeInv
<1>2. SUFFICES ASSUME q.answer.code = "ok"
               PROVE  Whole(Entries(q.api, q.answer.version)', q.ask, q.answer)
  BY DEF ReaderWhole
<1>3. q.answer.version \in Numbers(q.api)
  BY <1>1, <1>2 DEF ReaderTrue
<1>4. Entries(q.api, q.answer.version)' = Entries(q.api, q.answer.version)
  BY <1>1, <1>3, EntriesStay
<1> QED BY <1>1, <1>2, <1>4 DEF ReaderWhole

\* What a request reads is a version, or nothing.
LEMMA EntriesAreDistinct ==
  ASSUME PublicInv, WholeInv, NEW api \in {1, 2}, NEW v \in Numbers(api), NEW entries, entries = Entries(api, v)
  PROVE  entries \in SUBSET Frozen(api) /\ Distinct(api, entries)
<1>1. CASE v = 0
  <2>1. entries = {}
    BY <1>1 DEF Entries, Entries1, Entries2
  <2> QED BY <2>1, FS_EmptySet DEF Distinct
<1>2. CASE v # 0
  <2>1. v \in DOMAIN Built(api) /\ entries = Built(api)[v]
    BY <1>2 DEF Numbers, Built, Entries, Entries1, Entries2
  <2>2. Built(api) \in Seq(SUBSET Frozen(api))
    BY DEF PublicInv, VersionsTrue
  <2> QED BY <2>1, <2>2 DEF WholeInv
<1> QED BY <1>1, <1>2

\* An answer to a list or a detail is whole, and so it stays.
LEMMA ReadersKeep ==
  ASSUME PublicInv, WholeInv, [Next]_vars, VersionsKept, NEW r \in Readers
  PROVE  ReaderWhole(reader[r])'
<1>1. Shaped(reader[r]) /\ ReaderTrue(reader[r]) /\ reader[r].api \in {1, 2} /\ DOMAIN reader = Readers
  BY DEF PublicInv, ReadersTrue, Shaped
<1> DEFINE Same(q) == q.api = reader[r].api /\ q.ask = reader[r].ask /\ q.answer = reader[r].answer
<1>2. ASSUME Same(reader'[r])
      PROVE  ReaderWhole(reader[r])'
  <2>1. PICK q : q = reader'[r]
    OBVIOUS
  <2>2. ReaderWhole(q)'
    BY <1>2, <2>1, WholeStays
  <2> QED BY <2>1, <2>2 DEF ReaderWhole
<1>3. ASSUME reader'[r].answer.code # "ok"
      PROVE  ReaderWhole(reader[r])'
  BY <1>3 DEF ReaderWhole
<1>4. CASE UNCHANGED reader
  BY <1>2, <1>4
<1>5. ASSUME NEW api, NEW v, Witness(api, v)
      PROVE  ReaderWhole(reader[r])'
  <2>1. Same(reader'[r])
    <3>1. reader'[r] \in {reader[r], [reader[r] EXCEPT !.span = @ \cup {v}]}
      BY <1>5 DEF Witness
    <3> QED BY <1>1, <3>1 DEF Shaped
  <2> QED BY <1>2, <2>1
<1>6. ASSUME NEW answer, Finish(r, answer)
      PROVE  /\ reader'[r].answer = answer /\ reader'[r].api = reader[r].api
             /\ reader'[r].ask = reader[r].ask
  BY <1>1, <1>6 DEF Finish, Shaped
<1>7. ASSUME NEW api \in {1, 2}, NEW ask \in Asks, ReadPointer(r, api, ask)
      PROVE  ReaderWhole(reader[r])'
  <2>1. reader'[r].answer = NoAnswer
    BY <1>1, <1>7 DEF ReadPointer, NoReader
  <2> QED BY <1>3, <2>1 DEF NoAnswer
<1>8. ASSUME Project(r)
      PROVE  ReaderWhole(reader[r])'
  <2>1. reader[r].ask \in Asks /\ reader[r].ask.what \in {"list", "detail"} /\ Untouched
        /\ reader[r].version \in Numbers(reader[r].api)
    BY <1>1, <1>8, AsksAssumption DEF Project, Reading, ReaderTrue
  <2>2. PICK api, v, ask, entries : /\ api = reader[r].api /\ v = reader[r].version /\ ask = reader[r].ask
                                    /\ entries = Entries(api, v)
    OBVIOUS
  <2>3. PICK answer : Finish(r, answer) /\ (answer.code = "ok" => answer = AnswerFrom(api, v, entries, ask))
    BY <1>8, <2>2 DEF Project, EntriesRead, Say, NoAnswer
  <2>4. CASE answer.code # "ok"
    BY <1>3, <1>6, <2>3, <2>4
  <2>5. CASE answer.code = "ok"
    <3>1. entries \in SUBSET Frozen(api) /\ Distinct(api, entries)
      BY <1>1, <2>1, <2>2, EntriesAreDistinct
    <3>2. Whole(entries, ask, answer)
      BY <1>1, <2>1, <2>2, <2>3, <2>5, <3>1, ListIsWhole, DetailIsWhole DEF Distinct
    <3>3. answer.version = v
      BY <1>1, <2>1, <2>2, <2>3, <2>5, AnswerIsOfVersion
    <3>4. Entries(api, v)' = entries
      BY <1>1, <2>1, <2>2, EntriesStay
    <3>5. Whole(Entries(api, answer.version)', ask, answer)
      BY <3>2, <3>3, <3>4
    <3>6. PICK q : q = reader'[r]
      OBVIOUS
    <3>7. q.api = api /\ q.ask = ask /\ q.answer = answer
      BY <1>6, <2>2, <2>3, <3>6
    <3>8. ReaderWhole(q)'
      BY <3>5, <3>7 DEF ReaderWhole
    <3> QED BY <3>6, <3>8 DEF ReaderWhole
  <2> QED BY <2>4, <2>5
<1>9. ASSUME Locate1(r) \/ Locate2(r)
       PROVE  ReaderWhole(reader[r])'
  <2>1. \/ \E code \in {"not_found", "unavailable"} : Finish(r, Say(code))
        \/ \E q : reader' = [reader EXCEPT ![r] = q] /\ Same(q)
    <3>1. Same([reader[r] EXCEPT !.pc = "located"]) /\ Same([reader[r] EXCEPT !.pc = "located", !.version = current2])
      BY <1>1 DEF Shaped
    <3> HIDE DEF Same
    <3> QED BY <1>9, <3>1 DEF Locate1, Locate2
  <2>2. ASSUME NEW code \in {"not_found", "unavailable"}, Finish(r, Say(code))
        PROVE  ReaderWhole(reader[r])'
    BY <1>3, <1>6, <2>2 DEF Say, NoAnswer
  <2>3. ASSUME NEW q, reader' = [reader EXCEPT ![r] = q], Same(q)
        PROVE  ReaderWhole(reader[r])'
    <3>1. reader'[r] = q
      BY <1>1, <2>3
    <3> QED BY <1>2, <2>3, <3>1
  <2> QED BY <2>1, <2>2, <2>3
<1>10. ASSUME Fetch(r)
       PROVE  ReaderWhole(reader[r])'
  <2>1. reader[r].ask.what = "asset"
    BY <1>1, <1>10 DEF Fetch, Reading, ReaderTrue
  <2>2. PICK answer : Finish(r, answer)
    BY <1>10 DEF Fetch
  <2> QED BY <1>6, <2>1, <2>2 DEF ReaderWhole, Whole
<1>11. CASE Publication1Next \/ Publication2Next
  <2>1. CASE Publication1Next
    BY <1>4, <1>5, <2>1 DEF Publication1Next, RecordRights, BlockKey, BeginBuild1, Build1, Switch1
  <2>2. CASE Publication2Next
    BY <1>4, <1>5, <2>2 DEF Publication2Next, Build2, Switch2, TakeDown
  <2> QED BY <1>11, <2>1, <2>2
<1>12. CASE PublicApiNext
  <2>1. PICK x \in Readers : \/ \E api \in {1, 2}, ask \in Asks : ReadPointer(x, api, ask)
                             \/ Project(x) \/ Locate1(x) \/ Locate2(x) \/ Fetch(x)
    BY <1>12 DEF PublicApiNext
  <2>2. CASE x = r
    BY <1>7, <1>8, <1>9, <1>10, <2>1, <2>2
  <2>3. CASE x # r
    <3>1. \E q : reader' = [reader EXCEPT ![x] = q]
      <4>1. \A answer : Finish(x, answer) => \E q : reader' = [reader EXCEPT ![x] = q]
        BY DEF Finish
      <4>2. ASSUME NEW api, NEW ask, ReadPointer(x, api, ask)
            PROVE  \E q : reader' = [reader EXCEPT ![x] = q]
        BY <4>2 DEF ReadPointer
      <4>3. Project(x) => \E answer : Finish(x, answer)
        BY DEF Project
      <4>4. Fetch(x) => \E answer : Finish(x, answer)
        BY DEF Fetch
      <4>5. Locate1(x) => (\E answer : Finish(x, answer)) \/ \E q : reader' = [reader EXCEPT ![x] = q]
        BY DEF Locate1
      <4>6. Locate2(x) => (\E answer : Finish(x, answer)) \/ \E q : reader' = [reader EXCEPT ![x] = q]
        BY DEF Locate2
      <4> QED BY <2>1, <4>1, <4>2, <4>3, <4>4, <4>5, <4>6
    <3>2. reader'[r] = reader[r]
      BY <2>3, <3>1
    <3> QED BY <1>2, <3>2
  <2> QED BY <2>2, <2>3
<1>13. UNCHANGED vars \/ Tick \/ LoginNext \/ ReviewNext \/ PreviewNext \/ IdentityNext \/ StoreNext \/ MirrorNext
        => UNCHANGED reader
  BY ElsewhereUntouched DEF apiVars
<1> QED BY <1>4, <1>11, <1>12, <1>13 DEF Next

\* Every step keeps it.
LEMMA WholeKeeps == PublicInv /\ WholeInv /\ [Next]_vars => WholeInv'
<1> SUFFICES ASSUME PublicInv, WholeInv, [Next]_vars
             PROVE  WholeInv'
  OBVIOUS
<1>1. /\ VersionsKept
      /\ \A api \in {1, 2} : \A v \in DOMAIN Built(api)' : Distinct(api, Built(api)'[v])
  BY VersionsKeep
<1>2. \A r \in Readers : ReaderWhole(reader[r])'
  BY <1>1, ReadersKeep
<1> QED BY <1>1, <1>2 DEF WholeInv

\* A page is cut out of the cases of its version where the pages before it end, and a
\* detail has every member of its case, for any pages, filters, versions and readers.
THEOREM PagesAlwaysWhole == Spec => []PagesAreWhole
BY PublicInvariance, WholeInitially, WholeKeeps, WholeIsEnough, PTL DEF Spec

-----------------------------------------------------------------------------
(* Logins. Failures that began within one window of t are counted; a login *)
(* that began in it and passed the check may fail yet. While the window may *)
(* be open nothing of it is forgotten, so the last check of it bounds both *)
(* with the limit. Once it is past, the logins of the window are those that *)
(* have begun, and the check of a later one may forget what they count.    *)

Logins == [pc : {"idle", "checking", "verifying"}, user : Users \cup {"nobody"}, begun : Nat]
LoginTrue(q) == q.pc # "idle" => q.user \in Users /\ q.begun <= clock

\* a login of u that began within one window of t
Tries(q, pc, u, t) == q.pc = pc /\ q.user = u /\ t <= q.begun /\ q.begun < t + Window
Trying(pc, u, t) == {b \in Browsers : Tries(login[b], pc, u, t)}

\* failures of a user are numbered in the order they are counted
Numbered(all) ==
  /\ IsFiniteSet(all)
  /\ \A f \in all : f.begun \in Nat /\ f.number \in Nat /\ f.number < Cardinality(all)
WindowOpen(u, t) ==
  /\ InWindow(failures[u], t) = InWindow(tried[u], t)
  /\ Cardinality(InWindow(tried[u], t)) + Cardinality(Trying("verifying", u, t))
       <= Limit - 1 + Cardinality(Browsers)
WindowPast(u, t) ==
  /\ clock >= t + Window
  /\ Cardinality(InWindow(tried[u], t)) + Cardinality(Trying("verifying", u, t))
       + Cardinality(Trying("checking", u, t)) <= Limit + 2 * (Cardinality(Browsers) - 1)

LoginsTrue ==
  /\ clock \in Nat
  /\ login \in [Browsers -> Logins]
  /\ \A b \in Browsers : LoginTrue(login[b])
FailuresTrue ==
  /\ DOMAIN failures = Users /\ DOMAIN tried = Users
  /\ \A u \in Users : Numbered(tried[u]) /\ failures[u] \subseteq tried[u]
WindowsTrue == \A u \in Users : \A t \in Nat : WindowOpen(u, t) \/ WindowPast(u, t)
SessionInv == LoginsTrue /\ FailuresTrue /\ WindowsTrue

\* A service begins with failures of the time before, at most the limit, and no login.
LEMMA SessionsInitially == Init => SessionInv
<1> SUFFICES ASSUME Init
             PROVE  SessionInv
  OBVIOUS
<1> DEFINE first == {Failure(0, n) : n \in 0 .. Earlier - 1}
<1>1. /\ clock = 0 /\ login = [b \in Browsers |-> NoLogin]
      /\ failures = [u \in Users |-> first] /\ tried = failures
  BY DEF Init, SessionInit
<1>2. LoginsTrue
  <2>1. NoLogin \in Logins /\ NoLogin.pc = "idle"
    BY DEF NoLogin, Logins
  <2> QED  BY <1>1, <2>1 DEF LoginsTrue, LoginTrue
<1>3. IsFiniteSet(first) /\ Cardinality(first) = Earlier
  <2> PICK f : f = [n \in 0 .. Earlier - 1 |-> Failure(0, n)]
    OBVIOUS
  <2>1. Earlier \in Nat /\ IsFiniteSet(0 .. Earlier - 1) /\ Cardinality(0 .. Earlier - 1) = Earlier
    BY SessionsAssumption, FS_Interval
  <2>2. f \in Bijection(0 .. Earlier - 1, first)
    <3>1. \A n \in 0 .. Earlier - 1 : f[n] = Failure(0, n) /\ f[n].number = n
      BY DEF Failure
    <3>2. f \in [0 .. Earlier - 1 -> first]
      OBVIOUS
    <3>3. \A m, n \in 0 .. Earlier - 1 : f[m] = f[n] => m = n
      BY <3>1
    <3>4. \A x \in first : \E n \in 0 .. Earlier - 1 : f[n] = x
      BY <3>1
    <3> HIDE DEF first
    <3> QED  BY <3>2, <3>3, <3>4 DEF Bijection, Injection, IsInjective, Surjection
  <2>3. ExistsBijection(0 .. Earlier - 1, first)
    BY <2>2 DEF ExistsBijection
  <2> HIDE DEF first
  <2> QED  BY <2>1, <2>3, FS_Bijection
<1>4. \A f \in first : f.begun = 0 /\ f.number \in 0 .. Earlier - 1
  BY DEF Failure
<1> HIDE DEF first
<1>5. FailuresTrue
  BY <1>1, <1>3, <1>4, SessionsAssumption DEF FailuresTrue, Numbered
<1>6. ASSUME NEW u \in Users, NEW t \in Nat
      PROVE  WindowOpen(u, t)
  <2>1. Trying("verifying", u, t) = {}
    BY <1>1 DEF Trying, Tries, NoLogin
  <2>2. InWindow(tried[u], t) \subseteq first
    BY <1>1 DEF InWindow
  <2>3. Cardinality(InWindow(tried[u], t)) \in Nat /\ Cardinality(InWindow(tried[u], t)) <= Earlier
    BY <1>3, <2>2, FS_Subset, FS_CardinalityType
  <2>4. Cardinality(Browsers) \in Nat /\ Cardinality(Browsers) # 0
    BY SessionsAssumption, FS_CardinalityType, FS_EmptySet
  <2> QED  BY <1>1, <2>1, <2>3, <2>4, FS_EmptySet, SessionsAssumption DEF WindowOpen
<1> QED  BY <1>2, <1>5, <1>6 DEF SessionInv, WindowsTrue

\* There are no more logins in one state than there are browsers, and fewer where one
\* is known to be in another.
LEMMA TryingBounds ==
  ASSUME NEW pc, NEW u, NEW t
  PROVE  /\ IsFiniteSet(Trying(pc, u, t))
         /\ Cardinality(Trying(pc, u, t)) \in Nat
         /\ Cardinality(Browsers) \in Nat /\ Cardinality(Browsers) >= 1
         /\ Cardinality(Trying(pc, u, t)) <= Cardinality(Browsers)
         /\ \A b \in Browsers \ Trying(pc, u, t) :
              Cardinality(Trying(pc, u, t)) <= Cardinality(Browsers) - 1
<1>1. Trying(pc, u, t) \subseteq Browsers
  BY DEF Trying
<1>2. IsFiniteSet(Browsers) /\ Cardinality(Browsers) \in Nat /\ Cardinality(Browsers) # 0
  BY SessionsAssumption, FS_CardinalityType, FS_EmptySet
<1>3. IsFiniteSet(Trying(pc, u, t)) /\ Cardinality(Trying(pc, u, t)) \in Nat
      /\ Cardinality(Trying(pc, u, t)) <= Cardinality(Browsers)
      /\ (Cardinality(Browsers) = Cardinality(Trying(pc, u, t)) => Browsers = Trying(pc, u, t))
  BY <1>1, <1>2, FS_Subset, FS_CardinalityType
<1> QED  BY <1>2, <1>3

\* The failures of a window are finitely many.
LEMMA WindowCounts ==
  ASSUME NEW all, IsFiniteSet(all), NEW t
  PROVE  /\ IsFiniteSet(InWindow(all, t))
         /\ Cardinality(InWindow(all, t)) \in Nat
         /\ Cardinality(InWindow(all, t)) <= Cardinality(all)
<1>1. InWindow(all, t) \subseteq all
  BY DEF InWindow
<1> QED  BY <1>1, FS_Subset, FS_CardinalityType

\* One login moves on; the others try what they tried.
LEMMA LoginStep ==
  ASSUME LoginsTrue, NEW b \in Browsers, NEW q \in Logins,
         login' = [login EXCEPT ![b] = q], clock' = clock, LoginTrue(q)
  PROVE  /\ LoginsTrue'
         /\ \A pc, u, t : Trying(pc, u, t)' =
              IF Tries(q, pc, u, t) THEN Trying(pc, u, t) \cup {b} ELSE Trying(pc, u, t) \ {b}
<1>1. \A x \in Browsers : login'[x] = IF x = b THEN q ELSE login[x]
  BY DEF LoginsTrue
<1>2. LoginsTrue'
  BY <1>1 DEF LoginsTrue, LoginTrue
<1>3. ASSUME NEW pc, NEW u, NEW t
      PROVE  Trying(pc, u, t)' =
               IF Tries(q, pc, u, t) THEN Trying(pc, u, t) \cup {b} ELSE Trying(pc, u, t) \ {b}
  <2>1. Trying(pc, u, t)' = {x \in Browsers : Tries(login'[x], pc, u, t)}
    BY DEF Trying
  <2> QED  BY <1>1, <2>1 DEF Trying
<1> QED  BY <1>2, <1>3

\* A login that begins now is in no window that is past.
LEMMA BeginStep ==
  ASSUME SessionInv, clock' = clock, NEW b \in Browsers, NEW w \in Users, BeginLogin(b, w)
  PROVE  SessionInv'
<1>1. PICK q : q = [NoLogin EXCEPT !.pc = "checking", !.user = w, !.begun = clock]
  OBVIOUS
<1>2. q \in Logins /\ q.pc = "checking" /\ q.begun = clock /\ q.user = w /\ LoginTrue(q)
  <2>1. clock \in Nat
    BY DEF SessionInv, LoginsTrue
  <2>2. q = [pc |-> "checking", user |-> w, begun |-> clock]
    BY <1>1 DEF NoLogin
  <2> QED  BY <2>1, <2>2 DEF Logins, LoginTrue
<1>3. login' = [login EXCEPT ![b] = q] /\ UNCHANGED <<failures, tried>> /\ login[b].pc = "idle"
  BY <1>1 DEF BeginLogin
<1>4. /\ LoginsTrue'
      /\ \A pc, u, t : Trying(pc, u, t)' =
           IF Tries(q, pc, u, t) THEN Trying(pc, u, t) \cup {b} ELSE Trying(pc, u, t) \ {b}
  BY <1>2, <1>3, LoginStep DEF SessionInv
<1>5. ASSUME NEW u \in Users, NEW t \in Nat
      PROVE  (WindowOpen(u, t) \/ WindowPast(u, t))'
  <2>1. \A pc : b \in Trying(pc, u, t) => pc = "idle"
    BY <1>3 DEF Trying, Tries
  <2>2. Trying("verifying", u, t)' = Trying("verifying", u, t)
    BY <1>2, <1>4, <2>1 DEF Tries
  <2>3. CASE WindowOpen(u, t)
    BY <1>3, <2>2, <2>3 DEF WindowOpen
  <2>4. CASE WindowPast(u, t)
    <3>1. ~Tries(q, "checking", u, t)
      BY <1>2, <2>4, SessionsAssumption DEF Tries, WindowPast, SessionInv, LoginsTrue
    <3>2. Trying("checking", u, t)' = Trying("checking", u, t)
      BY <1>4, <2>1, <3>1
    <3> QED  BY <1>3, <2>2, <2>4, <3>2 DEF WindowPast
  <2> QED  BY <2>3, <2>4 DEF SessionInv, WindowsTrue
<1>6. FailuresTrue'
  BY <1>3 DEF SessionInv, FailuresTrue
<1> QED  BY <1>4, <1>5, <1>6 DEF SessionInv, WindowsTrue

\* The check forgets what no longer counts. While the window may be open that is none
\* of its failures, and what is left of them is below the limit if the login goes on.
LEMMA CheckStep ==
  ASSUME SessionInv, clock' = clock, NEW b \in Browsers, CheckThrottle(b)
  PROVE  SessionInv'
<1>1. PICK w : w = login[b].user
  OBVIOUS
<1>2. PICK n : n = login[b].begun
  OBVIOUS
<1>3. PICK recent : recent = Recent(w, n)
  OBVIOUS
<1>4. login[b].pc = "checking" /\ login[b] \in Logins /\ LoginTrue(login[b])
  BY DEF CheckThrottle, SessionInv, LoginsTrue
<1>5. w \in Users /\ n \in Nat /\ n <= clock /\ clock \in Nat
  BY <1>1, <1>2, <1>4 DEF LoginTrue, Logins, SessionInv, LoginsTrue
<1>6. /\ failures' = [failures EXCEPT ![w] = recent] /\ tried' = tried
      /\ Closed(recent) => login' = [login EXCEPT ![b] = NoLogin]
      /\ ~Closed(recent) => login' = [login EXCEPT ![b].pc = "verifying"]
  BY <1>1, <1>2, <1>3 DEF CheckThrottle, Answer
<1>7. PICK q : q = IF Closed(recent) THEN NoLogin ELSE [login[b] EXCEPT !.pc = "verifying"]
  OBVIOUS
<1>8. /\ q \in Logins /\ LoginTrue(q)
      /\ Closed(recent) => q.pc = "idle"
      /\ ~Closed(recent) => q.pc = "verifying" /\ q.user = w /\ q.begun = n
  <2>1. CASE Closed(recent)
    BY <1>7, <2>1 DEF NoLogin, Logins, LoginTrue
  <2>2. CASE ~Closed(recent)
    BY <1>1, <1>2, <1>4, <1>5, <1>7, <2>2 DEF Logins, LoginTrue
  <2> QED  BY <2>1, <2>2
<1>9. login' = [login EXCEPT ![b] = q]
  BY <1>6, <1>7
<1>10. /\ LoginsTrue'
       /\ \A pc, u, t : Trying(pc, u, t)' =
            IF Tries(q, pc, u, t) THEN Trying(pc, u, t) \cup {b} ELSE Trying(pc, u, t) \ {b}
  BY <1>8, <1>9, LoginStep DEF SessionInv
<1>11. \A u \in Users : Numbered(tried[u]) /\ failures[u] \subseteq tried[u]
  BY DEF SessionInv, FailuresTrue
<1>12. /\ recent \subseteq tried[w] /\ failures'[w] = recent /\ IsFiniteSet(recent)
       /\ Cardinality(recent) \in Nat /\ DOMAIN failures' = Users
       /\ \A u \in Users \ {w} : failures'[u] = failures[u]
  <2>1. recent \subseteq tried[w]
    BY <1>3, <1>5, <1>11 DEF Recent
  <2>2. IsFiniteSet(tried[w])
    BY <1>5, <1>11 DEF Numbered
  <2>3. IsFiniteSet(recent) /\ Cardinality(recent) \in Nat
    BY <2>1, <2>2, FS_Subset, FS_CardinalityType
  <2> QED  BY <1>5, <1>6, <2>1, <2>3 DEF SessionInv, FailuresTrue
<1>13. FailuresTrue'
  BY <1>6, <1>11, <1>12 DEF SessionInv, FailuresTrue
<1>14. ASSUME NEW u \in Users, NEW t \in Nat
       PROVE  (WindowOpen(u, t) \/ WindowPast(u, t))'
  <2> DEFINE counted == InWindow(tried[u], t)
             verifying == Trying("verifying", u, t)
             checking == Trying("checking", u, t)
  <2>1. b \notin verifying
    BY <1>4 DEF Trying, Tries
  <2>2. /\ IsFiniteSet(counted) /\ Cardinality(counted) \in Nat
        /\ IsFiniteSet(verifying) /\ Cardinality(verifying) \in Nat
        /\ IsFiniteSet(checking) /\ Cardinality(checking) \in Nat
        /\ Cardinality(Browsers) \in Nat /\ Cardinality(Browsers) >= 1
        /\ Cardinality(verifying) <= Cardinality(Browsers)
        /\ b \notin checking => Cardinality(checking) <= Cardinality(Browsers) - 1
    BY <1>11, WindowCounts, TryingBounds DEF Numbered
  <2>3. checking' = checking \ {b}
    BY <1>8, <1>10 DEF Tries
  <2>4. verifying' \in {verifying, verifying \cup {b}}
        /\ (verifying' # verifying => ~Closed(recent) /\ u = w /\ b \in checking)
    <3>1. CASE Tries(q, "verifying", u, t)
      <4>1. ~Closed(recent) /\ q.user = w /\ q.begun = n
        BY <1>8, <3>1 DEF Tries
      <4>2. u = w /\ b \in checking
        BY <1>1, <1>2, <1>4, <3>1, <4>1 DEF Tries, Trying
      <4> QED  BY <1>10, <3>1, <4>1, <4>2
    <3>2. CASE ~Tries(q, "verifying", u, t)
      BY <1>10, <2>1, <3>2
    <3> QED  BY <3>1, <3>2
  <2>5. counted' = counted
    BY <1>6
  <2>6. ASSUME WindowPast(u, t)
        PROVE  WindowPast(u, t)'
    <3>1. CASE verifying' = verifying
      <4>1. Cardinality(checking') <= Cardinality(checking) /\ Cardinality(checking') \in Nat
        <5>1. checking \ {b} \subseteq checking
          OBVIOUS
        <5>2. Cardinality(checking \ {b}) <= Cardinality(checking) /\ Cardinality(checking \ {b}) \in Nat
          BY <2>2, <5>1, FS_Subset, FS_CardinalityType
        <5> QED  BY <2>3, <5>2
      <4> QED  BY <2>2, <2>5, <2>6, <3>1, <4>1, SessionsAssumption DEF WindowPast
    <3>2. CASE verifying' # verifying
      <4>1. b \in checking /\ verifying' = verifying \cup {b}
        BY <2>4, <3>2
      <4>2. Cardinality(checking') = Cardinality(checking) - 1
        BY <2>2, <2>3, <4>1, FS_RemoveElement
      <4>3. Cardinality(verifying') = Cardinality(verifying) + 1
        BY <2>1, <2>2, <4>1, FS_AddElement
      <4> QED  BY <2>2, <2>5, <2>6, <4>2, <4>3, SessionsAssumption DEF WindowPast
    <3> QED  BY <3>1, <3>2
  <2>7. ASSUME WindowOpen(u, t), u # w
        PROVE  WindowOpen(u, t)'
    BY <1>12, <2>4, <2>5, <2>7 DEF WindowOpen
  <2>8. ASSUME WindowOpen(u, t), u = w, n < t + Window
        PROVE  WindowOpen(u, t)'
    <3>1. InWindow(recent, t) = counted
      <4>1. \A f \in failures[u] : f.begun \in Nat
        BY <1>11 DEF Numbered
      <4>2. InWindow(recent, t) = InWindow(failures[u], t)
        BY <1>3, <1>5, <2>8, <4>1, SessionsAssumption DEF InWindow, Recent
      <4> QED  BY <2>8, <4>2 DEF WindowOpen
    <3>2. CASE verifying' = verifying
      BY <1>12, <2>5, <2>8, <3>1, <3>2 DEF WindowOpen
    <3>3. CASE verifying' # verifying
      <4>1. Cardinality(recent) < Limit
        BY <1>12, <2>4, <3>3, SessionsAssumption DEF Closed
      <4>2. Cardinality(counted) <= Cardinality(recent)
        BY <1>12, <3>1, WindowCounts
      <4>3. Cardinality(verifying') \in Nat /\ Cardinality(verifying') <= Cardinality(Browsers)
        <5>1. verifying' \subseteq Browsers
          BY <2>4 DEF Trying
        <5> QED  BY <5>1, SessionsAssumption, FS_Subset, FS_CardinalityType
      <4> QED  BY <1>12, <2>2, <2>5, <2>8, <3>1, <4>1, <4>2, <4>3, SessionsAssumption DEF WindowOpen
    <3> QED  BY <3>2, <3>3
  <2>9. ASSUME WindowOpen(u, t), ~(n < t + Window)
        PROVE  WindowPast(u, t)'
    <3>1. b \notin checking
      BY <1>2, <2>9 DEF Trying, Tries
    <3>2. verifying' = verifying /\ checking' = checking
      BY <2>3, <2>4, <3>1
    <3>3. clock >= t + Window
      BY <1>5, <2>9, SessionsAssumption
    <3> QED  BY <2>2, <2>5, <2>9, <3>1, <3>2, <3>3, SessionsAssumption DEF WindowOpen, WindowPast
  <2> QED  BY <2>6, <2>7, <2>8, <2>9 DEF SessionInv, WindowsTrue
<1> QED  BY <1>10, <1>13, <1>14 DEF SessionInv, WindowsTrue

\* A failure is counted when its login ends, so the two together stay as many.
LEMMA DenyStep ==
  ASSUME SessionInv, clock' = clock, NEW b \in Browsers, Deny(b)
  PROVE  SessionInv'
<1>1. PICK w : w = login[b].user
  OBVIOUS
<1>2. PICK f : f = Failure(login[b].begun, Cardinality(tried[w]))
  OBVIOUS
<1>3. login[b].pc = "verifying" /\ login[b] \in Logins /\ LoginTrue(login[b])
  BY DEF Deny, SessionInv, LoginsTrue
<1>4. w \in Users /\ login[b].begun \in Nat
  BY <1>1, <1>3 DEF LoginTrue, Logins
<1>5. /\ login' = [login EXCEPT ![b] = NoLogin]
      /\ failures' = [failures EXCEPT ![w] = @ \cup {f}]
      /\ tried' = [tried EXCEPT ![w] = @ \cup {f}]
  BY <1>1, <1>2 DEF Deny, Answer
<1>6. NoLogin \in Logins /\ LoginTrue(NoLogin) /\ NoLogin.pc = "idle"
  BY DEF NoLogin, Logins, LoginTrue
<1>7. LoginsTrue'
  BY <1>5, <1>6, LoginStep DEF SessionInv
<1>8. \A pc, u, t : pc # "idle" => Trying(pc, u, t)' = Trying(pc, u, t) \ {b}
  <2>1. \A pc, u, t : Tries(NoLogin, pc, u, t) => pc = "idle"
    BY <1>6 DEF Tries
  <2>2. \A pc, u, t : Trying(pc, u, t)' =
           IF Tries(NoLogin, pc, u, t) THEN Trying(pc, u, t) \cup {b} ELSE Trying(pc, u, t) \ {b}
    BY <1>5, <1>6, LoginStep DEF SessionInv
  <2> QED  BY <2>1, <2>2
<1>9. \A u \in Users : Numbered(tried[u]) /\ failures[u] \subseteq tried[u]
  BY DEF SessionInv, FailuresTrue
<1>10. DOMAIN failures = Users /\ DOMAIN tried = Users
  BY DEF SessionInv, FailuresTrue
<1>11. /\ failures'[w] = failures[w] \cup {f} /\ tried'[w] = tried[w] \cup {f}
       /\ \A u \in Users \ {w} : failures'[u] = failures[u] /\ tried'[u] = tried[u]
       /\ DOMAIN failures' = Users /\ DOMAIN tried' = Users
  BY <1>4, <1>5, <1>10
<1>12. f.begun = login[b].begun /\ f.number = Cardinality(tried[w])
  BY <1>2 DEF Failure
<1>13. f \notin tried[w] /\ IsFiniteSet(tried[w]) /\ Cardinality(tried[w]) \in Nat
  BY <1>4, <1>9, <1>12, FS_CardinalityType DEF Numbered
<1>14. IsFiniteSet(tried[w] \cup {f}) /\ Cardinality(tried[w] \cup {f}) = Cardinality(tried[w]) + 1
  BY <1>13, FS_AddElement
<1>15. Numbered(tried[w] \cup {f})
  BY <1>4, <1>9, <1>12, <1>13, <1>14 DEF Numbered
<1>16. FailuresTrue'
  <2>1. ASSUME NEW u \in Users
        PROVE  Numbered(tried'[u]) /\ failures'[u] \subseteq tried'[u]
    BY <1>4, <1>9, <1>11, <1>15
  <2> QED  BY <1>11, <2>1 DEF FailuresTrue
<1>17. ASSUME NEW u \in Users, NEW t \in Nat
       PROVE  (WindowOpen(u, t) \/ WindowPast(u, t))'
  <2> DEFINE counted == InWindow(tried[u], t)
             verifying == Trying("verifying", u, t)
             checking == Trying("checking", u, t)
  <2>1. checking' = checking /\ verifying' = verifying \ {b}
    <3>1. b \notin checking
      BY <1>3 DEF Trying, Tries
    <3> QED  BY <1>8, <3>1
  <2>2. /\ IsFiniteSet(counted) /\ Cardinality(counted) \in Nat
        /\ IsFiniteSet(verifying) /\ Cardinality(verifying) \in Nat
        /\ Cardinality(checking) \in Nat
        /\ Cardinality(Browsers) \in Nat
    BY <1>9, WindowCounts, TryingBounds DEF Numbered
  <2>3. /\ Cardinality(counted') + Cardinality(verifying') <= Cardinality(counted) + Cardinality(verifying)
        /\ Cardinality(counted') \in Nat /\ Cardinality(verifying') \in Nat
        /\ InWindow(failures[u], t) = counted => InWindow(failures'[u], t) = counted'
    <3>1. CASE u = w /\ t <= f.begun /\ f.begun < t + Window
      <4>1. InWindow(failures'[u], t) = InWindow(failures[u], t) \cup {f}
        BY <1>11, <3>1 DEF InWindow
      <4>2. counted' = counted \cup {f} /\ f \notin counted
        BY <1>11, <1>13, <3>1 DEF InWindow
      <4>3. b \in verifying
        BY <1>1, <1>3, <1>12, <3>1 DEF Trying, Tries
      <4>4. Cardinality(counted') = Cardinality(counted) + 1
        BY <2>2, <4>2, FS_AddElement
      <4>5. Cardinality(verifying') = Cardinality(verifying) - 1 /\ Cardinality(verifying') \in Nat
        <5>1. IsFiniteSet(verifying \ {b}) /\ Cardinality(verifying \ {b}) = Cardinality(verifying) - 1
          BY <2>2, <4>3, FS_RemoveElement
        <5>2. Cardinality(verifying \ {b}) \in Nat
          BY <5>1, FS_CardinalityType
        <5> QED  BY <2>1, <5>1, <5>2
      <4> QED  BY <2>2, <4>1, <4>2, <4>4, <4>5
    <3>2. CASE ~(u = w /\ t <= f.begun /\ f.begun < t + Window)
      <4>1. InWindow(failures'[u], t) = InWindow(failures[u], t) /\ counted' = counted
        <5>1. InWindow(tried'[u], t) = InWindow(tried[u], t)
          BY <1>11, <3>2 DEF InWindow
        <5>2. InWindow(failures'[u], t) = InWindow(failures[u], t)
          BY <1>11, <3>2 DEF InWindow
        <5> QED  BY <5>1, <5>2
      <4>2. b \notin verifying
        BY <1>1, <1>12, <3>2 DEF Trying, Tries
      <4>3. verifying' = verifying
        BY <2>1, <4>2
      <4> QED  BY <2>2, <4>1, <4>3
    <3> QED  BY <3>1, <3>2
  <2> QED  BY <2>1, <2>2, <2>3, SessionsAssumption DEF WindowOpen, WindowPast, SessionInv, WindowsTrue
<1> QED  BY <1>7, <1>16, <1>17 DEF SessionInv, WindowsTrue

\* A user whose failures have just been forgotten has every window open.
LEMMA ForgottenWindow ==
  ASSUME NEW u \in Users, NEW t, failures'[u] = {}, tried'[u] = {}
  PROVE  WindowOpen(u, t)'
<1>1. InWindow({}, t) = {} /\ Cardinality({}) = 0
  BY FS_EmptySet DEF InWindow
<1>2. InWindow(tried'[u], t) = {} /\ InWindow(failures'[u], t) = {}
  BY <1>1
<1>3. PICK those : those = Trying("verifying", u, t)'
  OBVIOUS
<1>4. those \subseteq Browsers
  BY <1>3 DEF Trying
<1>5. Cardinality(those) \in Nat /\ Cardinality(Browsers) \in Nat /\ Cardinality(those) <= Cardinality(Browsers)
  BY <1>4, SessionsAssumption, FS_Subset, FS_CardinalityType
<1>6. Limit \in Nat /\ Limit > 0
  BY SessionsAssumption
<1>7. 0 + Cardinality(those) <= Limit - 1 + Cardinality(Browsers)
  BY <1>5, <1>6
<1> QED  BY <1>1, <1>2, <1>3, <1>7 DEF WindowOpen

\* A right password forgets the failures of its user and leaves the others alone.
LEMMA AcceptStep ==
  ASSUME SessionInv, clock' = clock, NEW b \in Browsers, Accept(b)
  PROVE  SessionInv'
<1>1. PICK w : w = login[b].user
  OBVIOUS
<1>2. login[b].pc = "verifying" /\ login[b] \in Logins /\ LoginTrue(login[b])
  BY DEF Accept, SessionInv, LoginsTrue
<1>3. w \in Users
  BY <1>1, <1>2 DEF LoginTrue
<1>4. /\ login' = [login EXCEPT ![b] = NoLogin]
      /\ failures' = [failures EXCEPT ![w] = {}]
      /\ tried' = [tried EXCEPT ![w] = {}]
  BY <1>1 DEF Accept, Answer
<1>5. NoLogin \in Logins /\ LoginTrue(NoLogin) /\ NoLogin.pc = "idle"
  BY DEF NoLogin, Logins, LoginTrue
<1>6. LoginsTrue'
  BY <1>4, <1>5, LoginStep DEF SessionInv
<1>7. \A pc, u, t : Trying(pc, u, t)' =
         IF Tries(NoLogin, pc, u, t) THEN Trying(pc, u, t) \cup {b} ELSE Trying(pc, u, t) \ {b}
  BY <1>4, <1>5, LoginStep DEF SessionInv
<1>8. \A u \in Users : failures'[u] = (IF u = w THEN {} ELSE failures[u])
                       /\ tried'[u] = IF u = w THEN {} ELSE tried[u]
  BY <1>3, <1>4 DEF SessionInv, FailuresTrue
<1>9. FailuresTrue'
  <2>1. Numbered({})
    BY FS_EmptySet DEF Numbered
  <2> QED  BY <1>4, <1>8, <2>1 DEF SessionInv, FailuresTrue
<1>10. ASSUME NEW u \in Users, NEW t \in Nat
       PROVE  (WindowOpen(u, t) \/ WindowPast(u, t))'
  <2>1. CASE u = w
    <3>1. failures'[u] = {} /\ tried'[u] = {}
      BY <1>8, <2>1
    <3> QED  BY <3>1, ForgottenWindow
  <2>2. CASE u # w
    <3>1. \A pc : pc # "idle" => Trying(pc, u, t)' = Trying(pc, u, t)
      <4>1. \A pc : b \notin Trying(pc, u, t)
        BY <1>1, <2>2 DEF Trying, Tries
      <4>2. \A pc : Tries(NoLogin, pc, u, t) => pc = "idle"
        BY <1>5 DEF Tries
      <4> QED  BY <1>7, <4>1, <4>2
    <3>2. Trying("verifying", u, t)' = Trying("verifying", u, t)
          /\ Trying("checking", u, t)' = Trying("checking", u, t)
      BY <3>1
    <3> QED  BY <1>8, <2>2, <3>2 DEF SessionInv, WindowsTrue, WindowOpen, WindowPast
  <2> QED  BY <2>1, <2>2
<1> QED  BY <1>6, <1>9, <1>10 DEF SessionInv, WindowsTrue

\* A restart forgets every failure, and every login that is under way.
LEMMA RestartStep ==
  ASSUME SessionInv, clock' = clock, Restart
  PROVE  SessionInv'
<1>1. /\ login' = [b \in Browsers |-> NoLogin]
      /\ failures' = [u \in Users |-> {}] /\ tried' = [u \in Users |-> {}]
  BY DEF Restart
<1>2. NoLogin \in Logins /\ NoLogin.pc = "idle" /\ Numbered({})
  BY FS_EmptySet DEF NoLogin, Logins, Numbered
<1>3. LoginsTrue' /\ FailuresTrue'
  BY <1>1, <1>2 DEF SessionInv, LoginsTrue, LoginTrue, FailuresTrue
<1>4. ASSUME NEW u \in Users, NEW t \in Nat
      PROVE  WindowOpen(u, t)'
  <2>1. failures'[u] = {} /\ tried'[u] = {}
    BY <1>1
  <2> QED  BY <2>1, ForgottenWindow
<1> QED  BY <1>3, <1>4 DEF SessionInv, WindowsTrue

\* Time passes windows, and opens none.
LEMMA TimeStep ==
  ASSUME SessionInv, UNCHANGED <<login, failures, tried>>, clock' \in {clock, clock + 1}
  PROVE  SessionInv'
<1>1. clock \in Nat /\ clock' \in Nat /\ clock' >= clock
  BY DEF SessionInv, LoginsTrue
<1>2. LoginsTrue'
  <2>1. ASSUME NEW b \in Browsers
        PROVE  LoginTrue(login[b])'
    <3>1. LoginTrue(login[b]) /\ login[b].begun \in Nat
      BY DEF SessionInv, LoginsTrue, Logins
    <3> QED  BY <1>1, <3>1 DEF LoginTrue
  <2> QED  BY <1>1, <2>1 DEF SessionInv, LoginsTrue
<1>3. FailuresTrue'
  BY DEF SessionInv, FailuresTrue
<1>4. ASSUME NEW u \in Users, NEW t \in Nat
      PROVE  (WindowOpen(u, t) \/ WindowPast(u, t))'
  <2>1. \A pc : Trying(pc, u, t)' = Trying(pc, u, t)
    BY DEF Trying
  <2>2. WindowOpen(u, t) => WindowOpen(u, t)'
    BY <2>1 DEF WindowOpen
  <2>3. WindowPast(u, t) => WindowPast(u, t)'
    <3>1. clock >= t + Window => clock' >= t + Window
      BY <1>1, SessionsAssumption
    <3> QED  BY <2>1, <3>1 DEF WindowPast
  <2> QED  BY <2>2, <2>3 DEF SessionInv, WindowsTrue
<1> QED  BY <1>2, <1>3, <1>4 DEF SessionInv, WindowsTrue

\* Nobody else touches the throttle.
LEMMA SessionKeeps == SessionInv /\ [Next]_vars => SessionInv'
<1> SUFFICES ASSUME SessionInv, [Next]_vars
             PROVE  SessionInv'
  OBVIOUS
<1>1. CASE UNCHANGED vars \/ Tick
  BY <1>1, TimeStep DEF vars, Tick, sessionVars
<1>2. CASE LoginNext
  <2>1. clock' = clock
    BY <1>2 DEF LoginNext, In
  <2>2. ASSUME NEW b \in Browsers, Logout(b)
        PROVE  SessionInv'
    BY <2>1, <2>2, TimeStep DEF Logout
  <2> QED  BY <1>2, <2>1, <2>2, BeginStep, CheckStep, AcceptStep, DenyStep, RestartStep DEF LoginNext
<1>3. CASE ReviewNext
  BY <1>3, TimeStep DEF ReviewNext, Reviewing, In, OnlyReviews, sessionVars
<1>4. CASE Publication1Next \/ Publication2Next \/ PublicApiNext
  BY <1>4, TimeStep DEF Publication1Next, Publication2Next, PublicApiNext, In, OnlyPublication, sessionVars
<1>5. CASE PreviewNext \/ IdentityNext
  BY <1>5, TimeStep DEF PreviewNext, IdentityNext, In, OnlyPreview, OnlyIdentity, sessionVars
<1>6. CASE StoreNext \/ MirrorNext
  BY <1>6, TimeStep DEF StoreNext, MirrorNext, In, OnlyStore, OnlyMirror, sessionVars
<1> QED  BY <1>1, <1>2, <1>3, <1>4, <1>5, <1>6 DEF Next

\* Between two successes, no more wrong passwords of a user are verified within one
\* window than the limit and two for each other browser: for any number of browsers,
\* any limit and any window.
THEOREM ThrottleAlwaysBounds == Spec => []ThrottleBounds
<1>1. SessionInv => ThrottleBounds
  <2> SUFFICES ASSUME SessionInv, NEW u \in Users, NEW first \in tried[u]
               PROVE  Cardinality(InWindow(tried[u], first.begun)) <= Limit + 2 * (Cardinality(Browsers) - 1)
    BY DEF ThrottleBounds
  <2>1. PICK t \in Nat : t = first.begun
    BY DEF SessionInv, FailuresTrue, Numbered
  <2>2. Cardinality(InWindow(tried[u], t)) \in Nat
    BY WindowCounts DEF SessionInv, FailuresTrue, Numbered
  <2>3. WindowOpen(u, t) \/ WindowPast(u, t)
    BY DEF SessionInv, WindowsTrue
  <2> QED  BY <2>1, <2>2, <2>3, TryingBounds, SessionsAssumption DEF WindowOpen, WindowPast
<1> QED  BY <1>1, SessionsInitially, SessionKeeps, PTL DEF Spec

-----------------------------------------------------------------------------
(* The bucket.                                                             *)

Errors ==
  {"none", "object_endpoint_insecure", "bucket_create_failed", "bucket_policy", "bucket_policy_public",
   "bucket_acl", "object_conflict", "object_upload_failed", "object_acl", "unavailable"}
GrantLists == Seq(Grantees)
Uploads ==
  [pc : {"idle", "reach", "create", "policy", "status", "acl", "head", "verify", "put", "headed", "recheck"},
   image : Pictures \cup {0},
   error : Errors,
   policies : SUBSET Policies,
   grants : SUBSET GrantLists,
   facts : SUBSET Pictures]

\* Types of the bucket, its objects and the calls.
StoreTypes ==
  /\ bucket \in BucketStates
  /\ DOMAIN objects = Pictures
  /\ upload \in [Importers -> Uploads]

Persons == {"owner", "email"}
Owned(o) == ToSet(o.grants) \subseteq Persons

\* An object that was there before is still what it was.
StraysStay == \A c \in Pictures : strays[c] # NoObject => objects[c] = strays[c]

\* What a call may rely on between two requests: a call that stores found
\* nothing at its key, and one that is about to report has seen its bytes.
CallKeeps(u) ==
  /\ u.pc # "idle" => u.image \in Pictures
  /\ u.pc = "put" => strays[u.image] = NoObject
  /\ u.pc \in {"headed", "recheck"} => objects[u.image].bytes = u.image
  /\ \A c \in u.facts : objects[c].bytes = c /\ Owned(objects[c])

\* What a call has already been shown of the bucket, whatever it is by now.
CallHasSeen(u) ==
  /\ u.pc # "idle" => bucket.policy \in u.policies /\ bucket.grants \in u.grants
  /\ u.pc \in {"status", "acl", "head", "put", "headed"} => \E policy \in u.policies : ForPersons(policy)
  /\ u.pc \in {"head", "put", "headed"} => \E grants \in u.grants : ToSet(grants) \subseteq Persons

StoreInv ==
  /\ StoreTypes
  /\ StraysStay
  /\ \A p \in Importers : CallKeeps(upload[p])
  /\ \A p \in Importers : CallHasSeen(upload[p])

\* The two checks of privacy refuse whatever names somebody else than a person.
LEMMA PolicyIsPrivate ==
  ASSUME NEW policy \in Policies, PolicyVerdict(policy) = "private"
  PROVE  ForPersons(policy)
<1>1. CASE policy = <<"absent">>
  BY <1>1 DEF ForPersons
<1>2. CASE policy # <<"absent">>
  <2>1. policy \in Seq(Statements)
    BY <1>2 DEF Policies
  <2>2. policy # <<>>
    BY <1>2 DEF PolicyVerdict
  <2>3. {i \in DOMAIN policy : Opens(policy[i]) \/ Unprovable(policy[i])} = {}
    BY <1>2, <2>2 DEF PolicyVerdict
  <2>4. \A i \in DOMAIN policy : policy[i] \in Statements
    BY <2>1
  <2>5. \A i \in DOMAIN policy : policy[i] \in {"allow_account", "deny_anyone"}
    BY <2>3, <2>4 DEF Statements, Opens, Unprovable
  <2>6. ToSet(policy) \subseteq {"allow_account", "deny_anyone"}
    BY <2>5 DEF ToSet
  <2> QED  BY <2>2, <2>6 DEF ForPersons
<1> QED  BY <1>1, <1>2

\* the grants of a bucket and those of an object
LEMMA AclIsPrivate ==
  ASSUME NEW grants, AclVerdict(grants) = "private"
  PROVE  ToSet(grants) \subseteq Persons
<1>1. {i \in DOMAIN grants : grants[i] \notin Persons} = {}
  BY DEF AclVerdict, Persons
<1> QED  BY <1>1 DEF ToSet

\* The bucket begins as any of its states, and no call has been told anything.
LEMMA StoreInitially == Init => StoreInv
<1> SUFFICES ASSUME Init
             PROVE  StoreInv
  OBVIOUS
<1>0. (CHOOSE b \in Buckets : TRUE) \in Buckets
  BY BucketsAssumption
<1>1. PICK buckets, before : StoreInit(buckets, before) /\ buckets \subseteq Buckets
  <2>1. CASE scene = "store"
    BY <2>1 DEF Init
  <2>2. CASE scene # "store"
    BY <1>0, <2>2 DEF Init
  <2> QED  BY <2>1, <2>2
<1>2. NoUpload \in Uploads /\ NoUpload.pc = "idle" /\ NoUpload.facts = {}
  BY DEF NoUpload, Uploads, Errors
<1>3. bucket \in BucketStates
  BY <1>1, BucketsAssumption DEF StoreInit
<1>4. DOMAIN objects = Pictures /\ strays = objects
  BY <1>1 DEF StoreInit
<1>5. upload = [p \in Importers |-> NoUpload]
  BY <1>1 DEF StoreInit
<1> QED
  BY <1>2, <1>3, <1>4, <1>5 DEF StoreInv, StoreTypes, StraysStay, CallKeeps, CallHasSeen

\* A step of one call that leaves the bucket and its objects alone.
LEMMA CallStep ==
  ASSUME StoreInv, NEW p \in Importers, NEW u \in Uploads,
         upload' = [upload EXCEPT ![p] = u], UNCHANGED World,
         CallKeeps(u), CallHasSeen(u)
  PROVE  StoreInv'
<1>1. UNCHANGED <<bucket, objects, strays>>
  BY DEF World
<1>2. StoreTypes' /\ StraysStay'
  BY <1>1 DEF StoreInv, StoreTypes, StraysStay
<1>3. \A q \in Importers : upload'[q] = IF q = p THEN u ELSE upload[q]
  BY DEF StoreInv, StoreTypes
<1>4. \A q \in Importers : CallKeeps(upload'[q]) /\ CallHasSeen(upload'[q])
  BY <1>3 DEF StoreInv
<1>5. \A q \in Importers : CallKeeps(upload[q])'
  BY <1>1, <1>4 DEF CallKeeps
<1>6. \A q \in Importers : CallHasSeen(upload[q])'
  BY <1>1, <1>4 DEF CallHasSeen
<1> QED  BY <1>2, <1>5, <1>6 DEF StoreInv

\* A call that ends with an error keeps what it was told before.
LEMMA FailStep ==
  ASSUME StoreInv, NEW p \in Importers, NEW error \in Errors, Fail(p, error), UNCHANGED World
  PROVE  StoreInv'
<1>1. PICK u : u = [upload[p] EXCEPT !.pc = "idle", !.error = error]
  OBVIOUS
<1>2. upload[p] \in Uploads
  BY DEF StoreInv, StoreTypes
<1>3. u \in Uploads /\ u.pc = "idle" /\ u.facts = upload[p].facts
  BY <1>1, <1>2 DEF Uploads
<1>4. CallKeeps(upload[p])
  BY DEF StoreInv
<1>5. CallKeeps(u) /\ CallHasSeen(u)
  BY <1>3, <1>4 DEF CallKeeps, CallHasSeen
<1>6. upload' = [upload EXCEPT ![p] = u]
  BY <1>1 DEF Fail
<1> QED  BY <1>3, <1>5, <1>6, CallStep

\* A call that goes on to its next request.
LEMMA GoStep ==
  ASSUME StoreInv, NEW p \in Importers, ~At(p, "idle"),
         NEW pc \in {"create", "policy", "status", "acl", "head", "verify", "put", "recheck"},
         Go(p, pc), UNCHANGED World,
         pc = "put" => strays[Asked(p)] = NoObject,
         pc = "recheck" => objects[Asked(p)].bytes = Asked(p),
         pc \in {"status", "acl", "head", "put"} => \E policy \in upload[p].policies : ForPersons(policy),
         pc \in {"head", "put"} => \E grants \in upload[p].grants : ToSet(grants) \subseteq Persons
  PROVE  StoreInv'
<1>1. PICK u : u = [upload[p] EXCEPT !.pc = pc]
  OBVIOUS
<1>2. upload[p] \in Uploads
  BY DEF StoreInv, StoreTypes
<1>3. u \in Uploads /\ u.pc = pc /\ u.image = upload[p].image /\ u.facts = upload[p].facts
      /\ u.policies = upload[p].policies /\ u.grants = upload[p].grants
  BY <1>1, <1>2 DEF Uploads
<1>4. CallKeeps(upload[p]) /\ CallHasSeen(upload[p]) /\ upload[p].pc # "idle"
  BY DEF StoreInv, At
<1>5. CallKeeps(u)
  BY <1>3, <1>4 DEF CallKeeps, Asked
<1>6. CallHasSeen(u)
  BY <1>3, <1>4 DEF CallHasSeen
<1>7. upload' = [upload EXCEPT ![p] = u]
  BY <1>1 DEF Go
<1> QED  BY <1>3, <1>5, <1>6, <1>7, CallStep

\* A call begins with what the bucket is at that moment.
LEMMA BeginningStep ==
  ASSUME StoreInv, NEW p \in Importers, NEW c \in Pictures, NEW pc \in {"reach", "verify"},
         upload' = [upload EXCEPT ![p] = [Beginning(p, c) EXCEPT !.pc = pc]], UNCHANGED World
  PROVE  StoreInv'
<1>1. PICK u : u = [Beginning(p, c) EXCEPT !.pc = pc]
  OBVIOUS
<1>2. upload[p] \in Uploads /\ bucket.policy \in Policies /\ bucket.grants \in GrantLists
  BY DEF StoreInv, StoreTypes, BucketStates, GrantLists
<1>3. u \in Uploads /\ u.pc = pc /\ u.image = c /\ u.facts = upload[p].facts
      /\ u.policies = {bucket.policy} /\ u.grants = {bucket.grants}
  BY <1>1, <1>2 DEF Uploads, Beginning, NoUpload, Errors
<1>4. CallKeeps(upload[p])
  BY DEF StoreInv
<1>5. CallKeeps(u) /\ CallHasSeen(u)
  BY <1>3, <1>4 DEF CallKeeps, CallHasSeen
<1> QED  BY <1>1, <1>3, <1>5, CallStep

\* Calls that are refused or go on by what they read.
LEMMA ReadingSteps ==
  ASSUME StoreInv, NEW p \in Importers,
         \/ Reach(p) \/ CheckPolicy(p) \/ CheckStatus(p) \/ CheckAcl(p) \/ HeadObject(p)
         \/ Download(p) \/ HeadAfter(p)
  PROVE  StoreInv'
<1>1. CallKeeps(upload[p]) /\ CallHasSeen(upload[p]) /\ bucket.policy \in Policies
  BY DEF StoreInv, StoreTypes, BucketStates
<1>2. CASE Reach(p)
  <2>1. \E pc \in {"create", "policy"} : Go(p, pc)
    BY <1>2 DEF Reach
  <2> QED  BY <1>2, <2>1, GoStep DEF Reach, At
<1>3. CASE CheckPolicy(p)
  <2>1. CASE PolicyVerdict(bucket.policy) = "private"
    <3>1. ForPersons(bucket.policy)
      BY <1>1, <2>1, PolicyIsPrivate
    <3> QED  BY <1>1, <1>3, <2>1, <3>1, GoStep DEF CheckPolicy, GoIf, At, CallHasSeen
  <2>2. CASE PolicyVerdict(bucket.policy) # "private"
    BY <1>3, <2>2, FailStep DEF CheckPolicy, GoIf, Errors
  <2> QED  BY <2>1, <2>2
<1>4. CASE CheckStatus(p)
  BY <1>1, <1>4, GoStep, FailStep DEF CheckStatus, GoIf, Errors, At, CallHasSeen
<1>5. CASE CheckAcl(p)
  <2>1. CASE AclVerdict(bucket.grants) = "private"
    <3>1. ToSet(bucket.grants) \subseteq Persons
      BY <2>1, AclIsPrivate
    <3> QED  BY <1>1, <1>5, <2>1, <3>1, GoStep DEF CheckAcl, GoIf, At, CallHasSeen
  <2>2. CASE AclVerdict(bucket.grants) # "private"
    BY <1>5, <2>2, FailStep DEF CheckAcl, GoIf, Errors
  <2> QED  BY <2>1, <2>2
<1>6. CASE HeadObject(p)
  <2>1. CASE Found(p) = NoObject
    <3>1. strays[Asked(p)] = NoObject
      BY <1>1, <1>6, <2>1 DEF HeadObject, At, CallKeeps, Asked, Found, StoreInv, StraysStay
    <3> QED  BY <1>1, <1>6, <2>1, <3>1, GoStep DEF HeadObject, At, CallHasSeen
  <2>2. CASE Found(p) # NoObject
    BY <1>6, <2>2, GoStep DEF HeadObject, At
  <2> QED  BY <2>1, <2>2
<1>7. CASE Download(p)
  <2>1. CASE AclVerdict(Found(p).grants) = "private" /\ Verified(Found(p), Asked(p))
    BY <1>7, <2>1, GoStep DEF Download, GoIf, At, Verified, Found
  <2>2. CASE ~(AclVerdict(Found(p).grants) = "private" /\ Verified(Found(p), Asked(p)))
    BY <1>7, <2>2, FailStep DEF Download, GoIf, Errors
  <2> QED  BY <2>1, <2>2
<1>8. CASE HeadAfter(p)
  BY <1>1, <1>8, GoStep, FailStep DEF HeadAfter, GoIf, Errors, At, CallKeeps, Asked
<1> QED  BY <1>2, <1>3, <1>4, <1>5, <1>6, <1>7, <1>8

\* A call reports an object whose bytes it has seen and whose grants it reads.
LEMMA RecheckStep ==
  ASSUME StoreInv, NEW p \in Importers, Recheck(p)
  PROVE  StoreInv'
<1>1. CASE AclVerdict(Found(p).grants) = "private"
  <2>1. PICK u : u = [upload[p] EXCEPT !.pc = "idle", !.facts = upload[p].facts \cup {Asked(p)}]
    OBVIOUS
  <2>2. upload' = [upload EXCEPT ![p] = u]
    BY <1>1, <2>1 DEF Recheck
  <2>3. upload[p] \in Uploads /\ CallKeeps(upload[p]) /\ upload[p].pc = "recheck"
    BY DEF StoreInv, StoreTypes, Recheck, At
  <2>4. u \in Uploads /\ u.pc = "idle" /\ u.facts = upload[p].facts \cup {Asked(p)}
    BY <2>1, <2>3 DEF Uploads, CallKeeps, Asked
  <2>5. objects[Asked(p)].bytes = Asked(p) /\ Owned(objects[Asked(p)])
    BY <1>1, <2>3, AclIsPrivate DEF CallKeeps, Asked, Found, Owned
  <2>6. CallKeeps(u) /\ CallHasSeen(u)
    BY <2>3, <2>4, <2>5 DEF CallKeeps, CallHasSeen
  <2>7. UNCHANGED World
    BY DEF Recheck
  <2> QED  BY <2>2, <2>4, <2>6, <2>7, CallStep
<1>2. CASE AclVerdict(Found(p).grants) # "private"
  BY <1>2, FailStep DEF Recheck, Errors
<1> QED  BY <1>1, <1>2

\* A bucket that changes, by its operator or because it is made, is shown to the
\* calls in progress; the call that made it goes on to its policy.
LEMMA WitnessedSafe ==
  ASSUME StoreInv, NEW b \in BucketStates, UNCHANGED <<objects, strays>>, bucket' = b,
         upload' \in [Importers -> {upload'[p] : p \in Importers}],
         \A p \in Importers :
           \/ upload'[p] = Witnessed(b)[p]
           \/ upload[p].pc = "create" /\ upload'[p] = [Witnessed(b)[p] EXCEPT !.pc = "policy"]
  PROVE  StoreInv'
<1>1. ASSUME NEW p \in Importers
      PROVE  upload'[p] \in Uploads /\ CallKeeps(upload[p])' /\ CallHasSeen(upload[p])'
  <2>1. upload[p] \in Uploads /\ CallKeeps(upload[p]) /\ CallHasSeen(upload[p])
    BY DEF StoreInv, StoreTypes
  <2>2. CASE upload[p].pc = "idle"
    <3>1. upload'[p] = upload[p]
      BY <2>2 DEF Witnessed, At
    <3> QED  BY <2>1, <2>2, <3>1 DEF CallKeeps, CallHasSeen
  <2>3. CASE upload[p].pc # "idle"
    <3>1. PICK w : w = [upload[p] EXCEPT !.policies = upload[p].policies \cup {b.policy},
                                         !.grants = upload[p].grants \cup {b.grants}]
      OBVIOUS
    <3>2. Witnessed(b)[p] = w
      BY <2>3, <3>1 DEF Witnessed, At
    <3>3. b.policy \in Policies /\ b.grants \in GrantLists
      BY DEF BucketStates, GrantLists
    <3>4. w \in Uploads /\ w.pc = upload[p].pc /\ w.image = upload[p].image /\ w.facts = upload[p].facts
          /\ w.policies = upload[p].policies \cup {b.policy} /\ w.grants = upload[p].grants \cup {b.grants}
      BY <2>1, <3>1, <3>3 DEF Uploads
    <3>5. PICK u : u = upload'[p]
      OBVIOUS
    <3>6. u \in Uploads /\ u.pc \in {w.pc, "policy"} /\ (w.pc # "create" => u.pc = w.pc) /\ u.image = w.image
          /\ u.facts = w.facts /\ u.policies = w.policies /\ u.grants = w.grants
      BY <3>2, <3>4, <3>5 DEF Uploads
    <3>7. CallKeeps(upload[p])'
      BY <2>1, <2>3, <3>4, <3>5, <3>6 DEF CallKeeps
    <3>8. CallHasSeen(upload[p])'
      BY <2>1, <2>3, <3>4, <3>5, <3>6 DEF CallHasSeen
    <3> QED  BY <3>5, <3>6, <3>7, <3>8
  <2> QED  BY <2>2, <2>3
<1>2. StoreTypes' /\ StraysStay'
  BY <1>1 DEF StoreInv, StoreTypes, StraysStay
<1> QED  BY <1>1, <1>2 DEF StoreInv

\* The missing bucket is made, or was by another call.
LEMMA CreateStep ==
  ASSUME StoreInv, NEW p \in Importers, Create(p)
  PROVE  StoreInv'
<1>1. CASE bucket.exists
  BY <1>1, FailStep DEF Create, Errors, World
<1>2. CASE ~bucket.exists
  <2>1. PICK b : b = Created
    OBVIOUS
  <2>2. b \in BucketStates
    <3>1. <<"owner">> \in Seq(Grantees)
      BY DEF Grantees
    <3> QED  BY <2>1, <3>1 DEF Created, StoreInv, StoreTypes, BucketStates, Policies
  <2>3. upload' = [Witnessed(b) EXCEPT ![p].pc = "policy"]
    BY <1>2, <2>1 DEF Create
  <2>4. \A q \in Importers : upload'[q] = IF q = p THEN [Witnessed(b)[p] EXCEPT !.pc = "policy"] ELSE Witnessed(b)[q]
    BY <2>3 DEF Witnessed
  <2>5. upload' \in [Importers -> {upload'[q] : q \in Importers}]
    BY <2>3 DEF Witnessed
  <2>6. bucket' = b /\ UNCHANGED <<objects, strays>> /\ upload[p].pc = "create"
    BY <1>2, <2>1 DEF Create, At
  <2> QED  BY <2>2, <2>4, <2>5, <2>6, WitnessedSafe
<1> QED  BY <1>1, <1>2

\* The operator changes the bucket.
LEMMA ReconfigureStep ==
  ASSUME StoreInv, NEW b \in Buckets, Reconfigure(b)
  PROVE  StoreInv'
<1>1. b \in BucketStates /\ bucket' = b /\ UNCHANGED <<objects, strays>> /\ upload' = Witnessed(b)
  BY BucketsAssumption DEF Reconfigure
<1>2. upload' \in [Importers -> {upload'[q] : q \in Importers}]
  BY <1>1 DEF Witnessed
<1> QED  BY <1>1, <1>2, WitnessedSafe

\* What a call uploads is what it asks for, and lies at a key that held nothing.
LEMMA PutStep ==
  ASSUME StoreInv, NEW p \in Importers, Put(p)
  PROVE  StoreInv'
<1>1. upload[p] \in Uploads /\ upload[p].pc = "put" /\ upload[p].image \in Pictures
      /\ strays[upload[p].image] = NoObject
  BY DEF StoreInv, StoreTypes, CallKeeps, Put, At
<1>2. PICK c : c = upload[p].image
  OBVIOUS
<1>3. PICK o : o = Original(c)
  OBVIOUS
<1>4. o.bytes = c /\ Owned(o)
  BY <1>3 DEF Original, Owned, ToSet, Persons
<1>5. \A d \in Pictures : objects'[d] = IF d = c THEN o ELSE objects[d]
  BY <1>2, <1>3 DEF Put, Asked, StoreInv, StoreTypes
<1>6. DOMAIN objects' = Pictures
  BY DEF Put, Asked, StoreInv, StoreTypes
<1>7. PICK u \in Uploads :
        /\ upload' = [upload EXCEPT ![p] = u]
        /\ u.pc \in {"headed", "idle"} /\ u.image = c /\ u.facts = upload[p].facts
        /\ u.policies = upload[p].policies /\ u.grants = upload[p].grants
  <2>1. CASE Go(p, "headed")
    <3>1. PICK u : u = [upload[p] EXCEPT !.pc = "headed"]
      OBVIOUS
    <3>2. u \in Uploads
      BY <1>1, <3>1 DEF Uploads
    <3>3. /\ upload' = [upload EXCEPT ![p] = u]
          /\ u.pc = "headed" /\ u.image = c /\ u.facts = upload[p].facts
          /\ u.policies = upload[p].policies /\ u.grants = upload[p].grants
      BY <1>1, <1>2, <2>1, <3>1 DEF Go, Uploads
    <3> QED  BY <3>2, <3>3
  <2>2. CASE Fail(p, "object_upload_failed")
    <3>1. PICK u : u = [upload[p] EXCEPT !.pc = "idle", !.error = "object_upload_failed"]
      OBVIOUS
    <3>2. u \in Uploads
      BY <1>1, <3>1 DEF Uploads, Errors
    <3>3. /\ upload' = [upload EXCEPT ![p] = u]
          /\ u.pc = "idle" /\ u.image = c /\ u.facts = upload[p].facts
          /\ u.policies = upload[p].policies /\ u.grants = upload[p].grants
      BY <1>1, <1>2, <2>2, <3>1 DEF Fail, Uploads
    <3> QED  BY <3>2, <3>3
  <2> QED  BY <2>1, <2>2 DEF Put
<1>8. \A q \in Importers : upload'[q] = IF q = p THEN u ELSE upload[q]
  BY <1>7 DEF StoreInv, StoreTypes
<1>9. UNCHANGED <<bucket, strays>>
  BY DEF Put
<1>10. ASSUME NEW v, CallKeeps(v), v.facts \subseteq Pictures
       PROVE  CallKeeps(v)'
  BY <1>4, <1>5, <1>9, <1>10 DEF CallKeeps
<1>11. \A q \in Importers : CallKeeps(upload[q]) /\ CallHasSeen(upload[q]) /\ upload[q].facts \subseteq Pictures
  BY DEF StoreInv, StoreTypes, Uploads
<1>12. ASSUME NEW q \in Importers
       PROVE  CallKeeps(upload[q])'
  <2>1. CASE q = p
    <3>1. \A d \in u.facts : objects'[d].bytes = d /\ Owned(objects'[d])
      BY <1>4, <1>5, <1>7, <1>11 DEF CallKeeps
    <3> QED  BY <1>1, <1>2, <1>4, <1>5, <1>7, <1>8, <1>9, <2>1, <3>1 DEF CallKeeps
  <2>2. CASE q # p
    BY <1>8, <1>10, <1>11, <2>2 DEF CallKeeps
  <2> QED  BY <2>1, <2>2
<1>13. ASSUME NEW q \in Importers
       PROVE  CallHasSeen(upload[q])'
  BY <1>1, <1>7, <1>8, <1>9, <1>11 DEF CallHasSeen
<1>14. StoreTypes'
  BY <1>6, <1>7, <1>9 DEF StoreInv, StoreTypes
<1>15. StraysStay'
  BY <1>1, <1>2, <1>5, <1>9 DEF StoreInv, StraysStay
<1> QED  BY <1>12, <1>13, <1>14, <1>15 DEF StoreInv

\* A call ends: it is not answered, or its process is killed and starts anew.
LEMMA StoreFailsStep ==
  ASSUME StoreInv, NEW p \in Importers, StoreFails(p)
  PROVE  StoreInv'
<1>1. UNCHANGED World
  BY DEF StoreFails
<1>2. CASE Fail(p, "unavailable")
  BY <1>1, <1>2, FailStep DEF Errors
<1>3. CASE upload' = [upload EXCEPT ![p] = NoUpload]
  <2>1. NoUpload \in Uploads /\ NoUpload.pc = "idle" /\ NoUpload.facts = {}
    BY DEF NoUpload, Uploads, Errors
  <2>2. CallKeeps(NoUpload) /\ CallHasSeen(NoUpload)
    BY <2>1 DEF CallKeeps, CallHasSeen
  <2> QED  BY <1>1, <1>3, <2>1, <2>2, CallStep
<1> QED  BY <1>2, <1>3 DEF StoreFails

\* A call begins, or a fact that was given before is read again.
LEMMA BeginSteps ==
  ASSUME StoreInv, NEW p \in Importers, NEW c \in Pictures, BeginStore(p, c) \/ Reverify(p, c)
  PROVE  StoreInv'
<1>1. CASE BeginStore(p, c)
  <2>1. CASE Usable(bucket.endpoint)
    <3>1. Beginning(p, c) = [Beginning(p, c) EXCEPT !.pc = "reach"]
      BY DEF Beginning, NoUpload
    <3> QED  BY <1>1, <2>1, <3>1, BeginningStep DEF BeginStore
  <2>2. CASE ~Usable(bucket.endpoint)
    BY <1>1, <2>2, FailStep DEF BeginStore, Errors
  <2> QED  BY <2>1, <2>2
<1>2. CASE Reverify(p, c)
  BY <1>2, BeginningStep DEF Reverify
<1> QED  BY <1>1, <1>2

\* Every step of every service keeps the invariant of the bucket.
LEMMA StoreKeeps == StoreInv /\ [Next]_vars => StoreInv'
<1>1. ASSUME StoreInv, UNCHANGED storeVars
      PROVE  StoreInv'
  BY <1>1 DEF StoreInv, StoreTypes, StraysStay, CallKeeps, CallHasSeen, storeVars
<1>2. ASSUME StoreInv, StoreNext
      PROVE  StoreInv'
  BY <1>2, BeginSteps, ReadingSteps, CreateStep, PutStep, RecheckStep, StoreFailsStep, ReconfigureStep
     DEF StoreNext
<1>3. [Next]_vars => UNCHANGED storeVars \/ StoreNext
  <2>1. UNCHANGED vars \/ Tick => UNCHANGED storeVars
    BY DEF vars, Tick
  <2>2. LoginNext \/ ReviewNext => UNCHANGED storeVars
    BY DEF LoginNext, ReviewNext, Reviewing, OnlySessions, OnlyReviews
  <2>3. Publication1Next \/ Publication2Next \/ PublicApiNext => UNCHANGED storeVars
    BY DEF Publication1Next, Publication2Next, PublicApiNext, OnlyPublication
  <2>4. PreviewNext \/ IdentityNext \/ MirrorNext => UNCHANGED storeVars
    BY DEF PreviewNext, IdentityNext, MirrorNext, OnlyPreview, OnlyIdentity, OnlyMirror
  <2> QED  BY <2>1, <2>2, <2>3, <2>4 DEF Next
<1> QED  BY <1>1, <1>2, <1>3

\* Whoever was told that a content is stored has it, a stray object is kept, and
\* nothing is uploaded to a bucket that was never shown to be private: for any
\* importers, contents and changes of the bucket.
THEOREM StoredAlwaysVerified == Spec => []StoredIsVerified
<1>1. StoreInv => StoredIsVerified
  BY DEF StoreInv, StraysStay, CallKeeps, CallHasSeen, StoredIsVerified, Owned, Persons
<1> QED  BY <1>1, StoreInitially, StoreKeeps, PTL DEF Spec

-----------------------------------------------------------------------------
(* The mirror. What a commit consists of stays abstract: History is any     *)
(* function, and the argument only asks that git keeps what is behind the   *)
(* anchors.                                                                *)

Detecting == {"listing", "updating", "resolving"}
GitCalls ==
  [pc : Detecting \cup {"idle", "prove", "extract", "extracting", "import", "importing", "keep"},
   todo : Seq(Commits),
   listed : Commits \cup {0},
   candidate : Commits \cup {0},
   previous : Commits \cup {0},
   got : SUBSET Commits,
   heads : SUBSET Commits,
   fresh : {"unknown", "yes", "no"}]

\* Types of the refs of the mirror, its worktrees and the calls.
MirrorTypes ==
  /\ branch \in Commits
  /\ tip \in Commits
  /\ kept \subseteq Commits
  /\ trees \subseteq (Gits \cup {"left"}) \X Commits
  /\ inventoried \subseteq Commits
  /\ git \in [Gits -> GitCalls]

\* A detection knows every head that it or another running one can still write
\* to the tip: the branch of this moment and what others have listed.
HeadsAreKnown ==
  \A p \in Gits : git[p].pc \in Detecting =>
    /\ branch \in git[p].heads
    /\ \A q \in Gits : git[q].pc = "updating" => git[q].listed \in git[p].heads
    /\ git[p].pc = "resolving" => tip \in git[p].heads

\* What a call relies on: its candidate was a head, follows what it was compared
\* with, and is in ready inventory before it is kept.
GitCallKeeps(g) ==
  /\ g.pc = "updating" => g.listed \in Commits
  /\ g.pc \notin Detecting \cup {"idle"} => g.candidate \in Commits
  /\ g.pc = "prove" => g.previous \in Commits
  /\ g.fresh # "no"
  /\ g.pc # "prove" /\ g.previous # 0 => g.previous \in History[g.candidate]
  /\ g.pc = "keep" => g.candidate \in inventoried

\* A worktree belongs to the call that reads it, or to nobody.
TreesAreRead ==
  /\ \A t \in trees :
       /\ t[2] \notin Filtered
       /\ Complete(t[2])
       /\ t[1] \in Gits => git[t[1]].pc \in {"extracting", "importing"} /\ t[2] = git[t[1]].candidate
  /\ \A p \in Gits : git[p].pc \in {"extracting", "importing"} => <<p, git[p].candidate>> \in trees

KeptAreReady == \A c \in kept : Complete(c) /\ c \in inventoried

MirrorInv ==
  /\ MirrorTypes
  /\ HeadsAreKnown
  /\ \A p \in Gits : GitCallKeeps(git[p])
  /\ TreesAreRead
  /\ KeptAreReady

\* The clone is made of the registered commit; nothing is kept or read yet.
LEMMA MirrorInitially == Init => MirrorInv
<1> SUFFICES ASSUME Init
             PROVE  MirrorInv
  OBVIOUS
<1>1. MirrorInit
  BY DEF Init
<1>2. NoCall \in GitCalls /\ NoCall.pc = "idle" /\ NoCall.previous = 0 /\ NoCall.fresh = "unknown"
  BY DEF NoCall, GitCalls, Detecting
<1>3. \A p \in Gits : git[p] = NoCall
  BY <1>1 DEF MirrorInit
<1>4. MirrorTypes
  BY <1>1, <1>2, MirrorAssumption DEF MirrorInit, MirrorTypes
<1>5. HeadsAreKnown /\ \A p \in Gits : GitCallKeeps(git[p])
  BY <1>2, <1>3 DEF HeadsAreKnown, GitCallKeeps, Detecting
<1>6. TreesAreRead /\ KeptAreReady
  BY <1>1, <1>2, <1>3 DEF MirrorInit, TreesAreRead, KeptAreReady
<1> QED  BY <1>4, <1>5, <1>6 DEF MirrorInv

\* What a detection at g has to know of the heads, and what its own head is.
Knows(p, g) ==
  /\ g.pc \in Detecting =>
       /\ branch \in g.heads
       /\ \A q \in Gits \ {p} : git[q].pc = "updating" => git[q].listed \in g.heads
  /\ g.pc = "updating" => /\ g.listed \in g.heads
                          /\ g.listed = branch \/ (git[p].pc = "updating" /\ g.listed = git[p].listed)

\* A call that leaves no worktree behind keeps the heads known and the worktrees
\* of the others read, and only takes commits into the mirror.
LEMMA MirrorCallStep ==
  ASSUME MirrorInv, NEW p \in Gits, NEW g \in GitCalls, git' = [git EXCEPT ![p] = g],
         UNCHANGED branch, tip' \in Commits, stored \subseteq stored',
         \A c \in kept' \ kept : c \in Commits /\ Complete(c)' /\ c \in inventoried, kept \subseteq kept',
         inventoried' \subseteq Commits, inventoried \subseteq inventoried',
         Knows(p, g), GitCallKeeps(g)',
         tip' = tip \/ (git[p].pc = "updating" /\ tip' = git[p].listed),
         g.pc = "resolving" => tip' \in g.heads,
         trees' \subseteq (Gits \cup {"left"}) \X Commits,
         \A t \in trees : t[1] # p => t \in trees',
         g.pc \in {"extracting", "importing"} => <<p, g.candidate>> \in trees',
         \A t \in trees' :
           \/ t \in trees /\ t[1] # p
           \/ /\ t[2] \notin Filtered
              /\ Complete(t[2])
              /\ t[1] \in Gits => t[1] = p /\ g.pc \in {"extracting", "importing"} /\ t[2] = g.candidate
  PROVE  MirrorInv'
<1>1. \A q \in Gits : git'[q] = IF q = p THEN g ELSE git[q]
  BY DEF MirrorInv, MirrorTypes
<1>2. MirrorTypes'
  BY DEF MirrorInv, MirrorTypes
<1>3. HeadsAreKnown'
  <2>1. ASSUME NEW q \in Gits, git'[q].pc \in Detecting
        PROVE  branch \in git'[q].heads
    BY <1>1, <2>1 DEF Knows, MirrorInv, HeadsAreKnown
  <2>2. ASSUME NEW q \in Gits, git'[q].pc \in Detecting, NEW r \in Gits, git'[r].pc = "updating"
        PROVE  git'[r].listed \in git'[q].heads
    <3>1. CASE q = p
      BY <1>1, <2>2, <3>1 DEF Knows
    <3>2. CASE q # p /\ r = p
      BY <1>1, <2>2, <3>2 DEF Knows, MirrorInv, HeadsAreKnown
    <3>3. CASE q # p /\ r # p
      BY <1>1, <2>2, <3>3 DEF MirrorInv, HeadsAreKnown
    <3> QED  BY <3>1, <3>2, <3>3
  <2>3. ASSUME NEW q \in Gits, git'[q].pc = "resolving"
        PROVE  tip' \in git'[q].heads
    BY <1>1, <2>3 DEF MirrorInv, HeadsAreKnown, Detecting
  <2> QED  BY <2>1, <2>2, <2>3 DEF HeadsAreKnown
<1>4. \A q \in Gits : GitCallKeeps(git[q])'
  BY <1>1 DEF MirrorInv, GitCallKeeps
<1>5. \A c : Complete(c) => Complete(c)'
  BY DEF Complete
<1>6. TreesAreRead'
  <2>1. ASSUME NEW q \in Gits, git'[q].pc \in {"extracting", "importing"}
        PROVE  <<q, git'[q].candidate>> \in trees'
    <3>1. CASE q = p
      BY <1>1, <2>1, <3>1
    <3>2. CASE q # p
      <4>1. PICK t : t = <<q, git[q].candidate>>
        OBVIOUS
      <4>2. t \in trees /\ t[1] = q
        BY <1>1, <2>1, <3>2, <4>1 DEF MirrorInv, TreesAreRead
      <4> QED  BY <1>1, <3>2, <4>1, <4>2
    <3> QED  BY <3>1, <3>2
  <2>2. ASSUME NEW t \in trees'
        PROVE  /\ t[2] \notin Filtered
               /\ Complete(t[2])'
               /\ t[1] \in Gits => git'[t[1]].pc \in {"extracting", "importing"} /\ t[2] = git'[t[1]].candidate
    BY <1>1, <1>5, <2>2 DEF MirrorInv, TreesAreRead
  <2> QED  BY <2>1, <2>2 DEF TreesAreRead
<1>7. KeptAreReady'
  BY <1>5 DEF MirrorInv, KeptAreReady
<1> QED  BY <1>2, <1>3, <1>4, <1>6, <1>7 DEF MirrorInv

\* A call that has no worktree, before and after.
LEMMA QuietMirrorStep ==
  ASSUME MirrorInv, NEW p \in Gits, NEW g \in GitCalls, git' = [git EXCEPT ![p] = g],
         UNCHANGED <<branch, kept, trees, inventoried>>, tip' \in Commits, stored \subseteq stored',
         Knows(p, g), GitCallKeeps(g),
         tip' = tip \/ (git[p].pc = "updating" /\ tip' = git[p].listed),
         g.pc = "resolving" => tip' \in g.heads,
         \/ git[p].pc \notin {"extracting", "importing"} /\ g.pc \notin {"extracting", "importing"}
         \/ g.pc = git[p].pc /\ g.candidate = git[p].candidate
  PROVE  MirrorInv'
<1>1. GitCallKeeps(g)'
  BY DEF GitCallKeeps
<1>2. trees' \subseteq (Gits \cup {"left"}) \X Commits
  BY DEF MirrorInv, MirrorTypes
<1>3. ASSUME NEW t \in trees'
      PROVE  \/ t \in trees /\ t[1] # p
             \/ /\ t[2] \notin Filtered
                /\ Complete(t[2])
                /\ t[1] \in Gits => t[1] = p /\ g.pc \in {"extracting", "importing"} /\ t[2] = g.candidate
  BY <1>3 DEF MirrorInv, TreesAreRead
<1>4. inventoried' \subseteq Commits
  BY DEF MirrorInv, MirrorTypes
<1>5. g.pc \in {"extracting", "importing"} => <<p, g.candidate>> \in trees'
  BY DEF MirrorInv, TreesAreRead
<1> QED  BY <1>1, <1>2, <1>3, <1>4, <1>5, MirrorCallStep

\* A call that ends knows nothing any more.
LEMMA NoCallSafe ==
  /\ NoCall \in GitCalls
  /\ NoCall.pc = "idle" /\ NoCall.previous = 0 /\ NoCall.fresh = "unknown"
  /\ \A p \in Gits : Knows(p, NoCall)
  /\ GitCallKeeps(NoCall) /\ GitCallKeeps(NoCall)'
BY DEF NoCall, GitCalls, Knows, GitCallKeeps, Detecting

\* The three requests of a detection and what is made of the head.
LEMMA DetectSteps ==
  ASSUME MirrorInv, NEW p \in Gits, BeginDetect(p) \/ ListHead(p) \/ UpdateTip(p)
  PROVE  MirrorInv'
<1>1. git[p] \in GitCalls /\ GitCallKeeps(git[p]) /\ branch \in Commits /\ tip \in Commits
  BY DEF MirrorInv, MirrorTypes
<1>2. CASE BeginDetect(p)
  <2>1. PICK heads : heads = {branch} \cup {git[q].listed : q \in {x \in Gits : Running(x, "updating")}}
    OBVIOUS
  <2>2. heads \subseteq Commits
    <3>1. \A q \in Gits : git[q].pc = "updating" => git[q].listed \in Commits
      BY DEF MirrorInv, GitCallKeeps
    <3> QED  BY <1>1, <2>1, <3>1 DEF Running
  <2>3. PICK g : g = [NoCall EXCEPT !.pc = "listing", !.heads = heads]
    OBVIOUS
  <2>4. g \in GitCalls /\ g.pc = "listing" /\ g.heads = heads /\ g.previous = 0 /\ g.fresh = "unknown"
    BY <2>2, <2>3, NoCallSafe DEF GitCalls, Detecting
  <2>5. Knows(p, g) /\ GitCallKeeps(g)
    BY <2>1, <2>4 DEF Knows, GitCallKeeps, Running, Detecting
  <2> QED  BY <1>1, <1>2, <2>1, <2>3, <2>4, <2>5, QuietMirrorStep DEF BeginDetect, Running, mirrored, upstream
<1>3. CASE ListHead(p)
  <2>1. PICK g : g = [git[p] EXCEPT !.pc = "updating", !.listed = branch]
    OBVIOUS
  <2>2. g \in GitCalls /\ g.pc = "updating" /\ g.listed = branch /\ g.heads = git[p].heads
        /\ g.previous = git[p].previous /\ g.candidate = git[p].candidate /\ g.fresh = git[p].fresh
    BY <1>1, <2>1 DEF GitCalls, Detecting
  <2>3. git[p].pc = "listing"
    BY <1>3 DEF ListHead, Running
  <2>4. Knows(p, g)
    BY <2>2, <2>3 DEF Knows, MirrorInv, HeadsAreKnown, Detecting
  <2>5. GitCallKeeps(g)
    BY <1>1, <2>2, <2>3 DEF GitCallKeeps, Detecting
  <2> QED  BY <1>1, <1>3, <2>1, <2>2, <2>3, <2>4, <2>5, QuietMirrorStep DEF ListHead, mirrored, upstream
<1>4. CASE UpdateTip(p)
  <2>1. PICK g : g = [git[p] EXCEPT !.pc = "resolving", !.listed = 0, !.got = git[p].got \cup {git[p].listed}]
    OBVIOUS
  <2>2. git[p].pc = "updating" /\ git[p].listed \in Commits
    BY <1>1, <1>4 DEF UpdateTip, Running, GitCallKeeps
  <2>3. g \in GitCalls /\ g.pc = "resolving" /\ g.heads = git[p].heads
        /\ g.previous = git[p].previous /\ g.candidate = git[p].candidate /\ g.fresh = git[p].fresh
    BY <1>1, <2>1, <2>2 DEF GitCalls, Detecting
  <2>4. git[p].listed \in g.heads /\ Knows(p, g)
    BY <2>2, <2>3 DEF Knows, MirrorInv, HeadsAreKnown, Detecting
  <2>5. GitCallKeeps(g)
    BY <1>1, <2>2, <2>3 DEF GitCallKeeps, Detecting
  <2>6. tip' = git[p].listed /\ UNCHANGED <<branch, kept, trees, inventoried>> /\ stored \subseteq stored'
        /\ git' = [git EXCEPT ![p] = g]
    BY <1>4, <2>1 DEF UpdateTip, upstream
  <2> QED  BY <2>2, <2>3, <2>4, <2>5, <2>6, QuietMirrorStep
<1> QED  BY <1>2, <1>3, <1>4

\* The candidate is the tip, which the detection knows for a head.
LEMMA ResolveStep ==
  ASSUME MirrorInv, NEW p \in Gits, Resolve(p)
  PROVE  MirrorInv'
<1>1. git[p] \in GitCalls /\ GitCallKeeps(git[p]) /\ tip \in Commits /\ inventoried \subseteq Commits
      /\ git[p].pc = "resolving" /\ tip \in git[p].heads
  BY DEF MirrorInv, MirrorTypes, HeadsAreKnown, Detecting, Resolve, Running
<1>2. UNCHANGED <<branch, tip, stored, kept, trees, inventoried>>
  BY DEF Resolve, upstream, mirrored
<1>3. PICK previous \in Commits \cup {0} :
        git' = [git EXCEPT ![p] =
         IF previous = tip THEN NoCall
         ELSE [@ EXCEPT !.candidate = tip, !.previous = previous, !.heads = {},
                        !.fresh = IF tip \in git[p].heads THEN "yes" ELSE "no",
                        !.pc = IF previous = 0 THEN "extract" ELSE "prove",
                        !.todo = IF previous = 0 THEN <<tip>> ELSE <<tip, previous, tip>>]]
  BY <1>1 DEF Resolve
<1>4. CASE previous = tip
  BY <1>1, <1>2, <1>3, <1>4, NoCallSafe, QuietMirrorStep
<1>5. CASE previous # tip
  <2>1. PICK pc : pc = IF previous = 0 THEN "extract" ELSE "prove"
    OBVIOUS
  <2>2. PICK todo : todo = IF previous = 0 THEN <<tip>> ELSE <<tip, previous, tip>>
    OBVIOUS
  <2>3. todo \in Seq(Commits)
    BY <1>1, <2>2
  <2>4. PICK g : g = [git[p] EXCEPT !.candidate = tip, !.previous = previous, !.heads = {},
                                    !.fresh = "yes", !.pc = pc, !.todo = todo]
    OBVIOUS
  <2>5. g \in GitCalls /\ g.pc = pc /\ g.candidate = tip /\ g.previous = previous /\ g.fresh = "yes"
    BY <1>1, <2>1, <2>3, <2>4 DEF GitCalls
  <2>6. Knows(p, g) /\ GitCallKeeps(g)
    BY <1>1, <2>1, <2>5 DEF Knows, GitCallKeeps, Detecting
  <2>7. git' = [git EXCEPT ![p] = g]
    BY <1>1, <1>3, <1>5, <2>1, <2>2, <2>4
  <2>8. g.pc \notin {"resolving", "extracting", "importing"}
    BY <2>1, <2>5
  <2> QED  BY <1>1, <1>2, <2>5, <2>6, <2>7, <2>8, QuietMirrorStep
<1> QED  BY <1>4, <1>5

\* A command on the registered commit, and the commits that a call transfers.
LEMMA FetchSteps ==
  ASSUME MirrorInv, NEW p \in Gits, BeginFixed(p) \/ FetchExact(p)
  PROVE  MirrorInv'
<1>1. git[p] \in GitCalls /\ GitCallKeeps(git[p]) /\ tip \in Commits
  BY DEF MirrorInv, MirrorTypes
<1>2. CASE BeginFixed(p)
  <2>0. <<FixedCommit>> \in Seq(Commits)
    BY MirrorAssumption
  <2>1. PICK g : g = [NoCall EXCEPT !.pc = "extract", !.candidate = FixedCommit, !.todo = <<FixedCommit>>]
    OBVIOUS
  <2>2. g \in GitCalls /\ g.pc = "extract" /\ g.candidate = FixedCommit /\ g.previous = 0 /\ g.fresh = "unknown"
    BY <2>1, <2>0, MirrorAssumption, NoCallSafe DEF GitCalls
  <2>3. Knows(p, g) /\ GitCallKeeps(g)
    BY <2>2, MirrorAssumption DEF Knows, GitCallKeeps, Detecting
  <2> QED  BY <1>1, <1>2, <2>1, <2>2, <2>3, QuietMirrorStep DEF BeginFixed, Running, mirrored, upstream
<1>3. CASE FetchExact(p)
  <2>1. PICK got : got = git[p].got \cup IF Complete(Head(git[p].todo)) THEN {} ELSE {Head(git[p].todo)}
    OBVIOUS
  <2>2. PICK todo : todo = Tail(git[p].todo)
    OBVIOUS
  <2>3. git[p].todo \in Seq(Commits) /\ git[p].todo # <<>> /\ git[p].got \subseteq Commits
    BY <1>1, <1>3 DEF GitCalls, FetchExact
  <2>4. todo \in Seq(Commits) /\ got \subseteq Commits
    BY <2>1, <2>2, <2>3
  <2>5. PICK g : g = [git[p] EXCEPT !.todo = todo, !.got = got]
    OBVIOUS
  <2>6. git' = [git EXCEPT ![p] = g]
    BY <1>1, <1>3, <2>1, <2>2, <2>5 DEF FetchExact, GitCalls
  <2>7. g \in GitCalls /\ g.pc = git[p].pc /\ g.listed = git[p].listed /\ g.heads = git[p].heads
        /\ g.candidate = git[p].candidate /\ g.previous = git[p].previous /\ g.fresh = git[p].fresh
    BY <1>1, <2>4, <2>5 DEF GitCalls
  <2>8. Knows(p, g)
    BY <2>7 DEF Knows, MirrorInv, HeadsAreKnown, Detecting
  <2>9. GitCallKeeps(g)
    BY <1>1, <2>7 DEF GitCallKeeps
  <2>10. UNCHANGED <<branch, tip, kept, trees, inventoried>> /\ stored \subseteq stored'
    BY <1>3 DEF FetchExact, upstream
  <2>11. g.pc = "resolving" => tip' \in g.heads
    BY <2>7, <2>10 DEF MirrorInv, HeadsAreKnown, Detecting
  <2> QED  BY <1>1, <2>6, <2>7, <2>8, <2>9, <2>10, <2>11, QuietMirrorStep
<1> QED  BY <1>2, <1>3

\* A call that goes on with other commits to fetch: nothing else of it changes.
LEMMA TurnFacts ==
  ASSUME MirrorInv, NEW p \in Gits, git[p].pc \notin Detecting \cup {"idle"},
         NEW pc \in {"extract", "extracting", "import", "importing", "keep"},
         NEW todo \in {<<>>, <<git[p].candidate>>}, Turn(p, pc, todo)
  PROVE  \E g \in GitCalls :
           /\ git' = [git EXCEPT ![p] = g]
           /\ g.pc = pc /\ g.candidate = git[p].candidate /\ g.candidate \in Commits
           /\ g.previous = git[p].previous /\ g.fresh = git[p].fresh
           /\ Knows(p, g)
<1>1. git[p] \in GitCalls /\ git[p].candidate \in Commits
  BY DEF MirrorInv, MirrorTypes, GitCallKeeps
<1>2. todo \in Seq(Commits)
  <2>1. PICK c \in Commits : c = git[p].candidate
    BY <1>1
  <2>2. <<c>> \in Seq(Commits) /\ <<>> \in Seq(Commits)
    OBVIOUS
  <2> QED  BY <2>1, <2>2
<1>3. PICK g : g = [git[p] EXCEPT !.pc = pc, !.todo = todo]
  OBVIOUS
<1>4. g \in GitCalls /\ g.pc = pc /\ g.candidate = git[p].candidate
      /\ g.previous = git[p].previous /\ g.fresh = git[p].fresh
  BY <1>1, <1>2, <1>3 DEF GitCalls, Detecting
<1>5. git' = [git EXCEPT ![p] = g]
  BY <1>3 DEF Turn
<1>6. Knows(p, g)
  BY <1>4 DEF Knows, Detecting
<1> QED  BY <1>1, <1>4, <1>5, <1>6

\* The candidate follows what it is compared with, or the call ends.
LEMMA ProveStep ==
  ASSUME MirrorInv, NEW p \in Gits, Prove(p)
  PROVE  MirrorInv'
<1>1. git[p].pc = "prove" /\ GitCallKeeps(git[p]) /\ tip \in Commits
  BY DEF MirrorInv, MirrorTypes, Prove, Fetched, Running
<1>2. UNCHANGED <<branch, tip, stored, kept, trees, inventoried>>
  BY DEF Prove, upstream, mirrored
<1>3. CASE git[p].previous \in History[git[p].candidate]
  <2>1. PICK g \in GitCalls :
          /\ git' = [git EXCEPT ![p] = g]
          /\ g.pc = "extract" /\ g.candidate = git[p].candidate /\ g.candidate \in Commits
          /\ g.previous = git[p].previous /\ g.fresh = git[p].fresh
          /\ Knows(p, g)
    BY <1>1, <1>3, TurnFacts DEF Prove, Detecting
  <2>2. GitCallKeeps(g)
    BY <1>1, <1>3, <2>1 DEF GitCallKeeps
  <2> QED  BY <1>1, <1>2, <2>1, <2>2, QuietMirrorStep
<1>4. CASE git[p].previous \notin History[git[p].candidate]
  BY <1>1, <1>2, <1>4, NoCallSafe, QuietMirrorStep DEF Prove, Leaves
<1> QED  BY <1>3, <1>4

\* A worktree is made of a commit that is complete and safe.
LEMMA CheckOutStep ==
  ASSUME MirrorInv, NEW p \in Gits, CheckOut(p)
  PROVE  MirrorInv'
<1>1. git[p].pc \in {"extract", "import"} /\ GitCallKeeps(git[p]) /\ tip \in Commits
      /\ trees \subseteq (Gits \cup {"left"}) \X Commits /\ inventoried \subseteq Commits
  BY DEF MirrorInv, MirrorTypes, CheckOut, Fetched, Running
<1>2. UNCHANGED <<branch, tip, stored, kept, inventoried>> /\ trees' = trees \cup {<<p, git[p].candidate>>}
      /\ SafeTree(git[p].candidate) /\ Complete(git[p].candidate)
  BY DEF CheckOut, upstream, mirrored
<1>3. PICK pc \in {"extracting", "importing"} : Turn(p, pc, <<>>)
  BY DEF CheckOut
<1>4. PICK g \in GitCalls :
        /\ git' = [git EXCEPT ![p] = g]
        /\ g.pc = pc /\ g.candidate = git[p].candidate /\ g.candidate \in Commits
        /\ g.previous = git[p].previous /\ g.fresh = git[p].fresh
        /\ Knows(p, g)
  <2>1. git[p].pc \notin Detecting \cup {"idle"} /\ <<>> \in {<<>>, <<git[p].candidate>>}
    BY <1>1 DEF Detecting
  <2>2. pc \in {"extract", "extracting", "import", "importing", "keep"}
    BY <1>3
  <2> QED  BY <1>3, <2>1, <2>2, TurnFacts
<1>5. GitCallKeeps(g)'
  BY <1>1, <1>3, <1>4 DEF GitCallKeeps
<1>6. trees' \subseteq (Gits \cup {"left"}) \X Commits
  BY <1>1, <1>2, <1>4
<1>7. ASSUME NEW t \in trees'
      PROVE  \/ t \in trees /\ t[1] # p
             \/ /\ t[2] \notin Filtered
                /\ Complete(t[2])
                /\ t[1] \in Gits => t[1] = p /\ g.pc \in {"extracting", "importing"} /\ t[2] = g.candidate
  <2>1. CASE t \in trees
    BY <1>1, <2>1 DEF MirrorInv, TreesAreRead
  <2>2. CASE t = <<p, git[p].candidate>>
    BY <1>2, <1>4, <2>2 DEF SafeTree
  <2> QED  BY <1>2, <2>1, <2>2
<1>8. g.pc # "resolving" /\ <<p, g.candidate>> \in trees'
  BY <1>2, <1>3, <1>4
<1> QED  BY <1>1, <1>2, <1>4, <1>5, <1>6, <1>7, <1>8, MirrorCallStep

\* A worktree that was read is removed; what was imported is ready inventory.
LEMMA CleanUpStep ==
  ASSUME MirrorInv, NEW p \in Gits, CleanUp(p)
  PROVE  MirrorInv'
<1>1. git[p].pc \in {"extracting", "importing"} /\ GitCallKeeps(git[p]) /\ tip \in Commits
      /\ trees \subseteq (Gits \cup {"left"}) \X Commits /\ inventoried \subseteq Commits
      /\ git[p].candidate \in Commits
  BY DEF MirrorInv, MirrorTypes, CleanUp, Running, GitCallKeeps, Detecting
<1>2. UNCHANGED <<branch, tip, stored, kept>> /\ trees' = trees \ {<<p, git[p].candidate>>}
  BY DEF CleanUp, upstream, mirrored
<1>3. inventoried \subseteq inventoried' /\ inventoried' \subseteq Commits
      /\ (git[p].pc = "importing" => git[p].candidate \in inventoried')
  BY <1>1 DEF CleanUp, Running
<1>4. PICK g \in GitCalls :
        /\ git' = [git EXCEPT ![p] = g]
        /\ Knows(p, g) /\ g.pc \notin {"resolving", "extracting", "importing"} /\ GitCallKeeps(g)'
  <2>1. CASE Turn(p, "import", <<git[p].candidate>>)
    <3>1. PICK g \in GitCalls :
            /\ git' = [git EXCEPT ![p] = g]
            /\ g.pc = "import" /\ g.candidate = git[p].candidate /\ g.candidate \in Commits
            /\ g.previous = git[p].previous /\ g.fresh = git[p].fresh
            /\ Knows(p, g)
      BY <1>1, <2>1, TurnFacts DEF Detecting
    <3> QED  BY <1>1, <3>1 DEF GitCallKeeps
  <2>2. CASE Turn(p, "keep", <<git[p].candidate>>) /\ git[p].pc = "importing"
    <3>1. PICK g \in GitCalls :
            /\ git' = [git EXCEPT ![p] = g]
            /\ g.pc = "keep" /\ g.candidate = git[p].candidate /\ g.candidate \in Commits
            /\ g.previous = git[p].previous /\ g.fresh = git[p].fresh
            /\ Knows(p, g)
      BY <1>1, <2>2, TurnFacts DEF Detecting
    <3> QED  BY <1>1, <1>3, <2>2, <3>1 DEF GitCallKeeps
  <2>3. CASE Leaves(p)
    BY <2>3, NoCallSafe DEF Leaves
  <2> QED  BY <1>1, <2>1, <2>2, <2>3 DEF CleanUp, Running
<1>5. \A t \in trees' : t \in trees /\ t[1] # p
  <2>1. ASSUME NEW t \in trees, t[1] = p
        PROVE  t = <<p, git[p].candidate>>
    BY <1>1, <2>1 DEF MirrorInv, TreesAreRead
  <2> QED  BY <1>2, <2>1
<1>6. \A t \in trees : t[1] # p => t \in trees'
  BY <1>2
<1> QED  BY <1>1, <1>2, <1>3, <1>4, <1>5, <1>6, MirrorCallStep

\* A commit is kept that is complete and in ready inventory.
LEMMA KeepStep ==
  ASSUME MirrorInv, NEW p \in Gits, Keep(p)
  PROVE  MirrorInv'
<1>1. git[p].pc = "keep" /\ git[p].candidate \in Commits /\ git[p].candidate \in inventoried /\ tip \in Commits
      /\ trees \subseteq (Gits \cup {"left"}) \X Commits /\ inventoried \subseteq Commits
  BY DEF MirrorInv, MirrorTypes, Keep, Fetched, Running, GitCallKeeps, Detecting
<1>2. UNCHANGED <<branch, tip, stored, trees, inventoried>> /\ kept' = kept \cup {git[p].candidate}
      /\ git' = [git EXCEPT ![p] = NoCall] /\ Complete(git[p].candidate)
  BY DEF Keep, upstream, Leaves
<1>3. \A t \in trees' : t \in trees /\ t[1] # p
  BY <1>1, <1>2 DEF MirrorInv, TreesAreRead
<1>4. \A c \in kept' \ kept : c \in Commits /\ Complete(c)' /\ c \in inventoried
  BY <1>1, <1>2 DEF Complete
<1> QED  BY <1>1, <1>2, <1>3, <1>4, NoCallSafe, MirrorCallStep

\* A call ends without a worktree, or leaves it to nobody.
LEMMA EndSteps ==
  ASSUME MirrorInv, NEW p \in Gits, GitFails(p) \/ KillGit(p)
  PROVE  MirrorInv'
<1>1. git[p] \in GitCalls /\ GitCallKeeps(git[p]) /\ tip \in Commits
      /\ trees \subseteq (Gits \cup {"left"}) \X Commits /\ inventoried \subseteq Commits
  BY DEF MirrorInv, MirrorTypes
<1>2. UNCHANGED <<branch, tip, stored, kept, inventoried>> /\ git' = [git EXCEPT ![p] = NoCall]
  BY DEF GitFails, KillGit, upstream, mirrored, Leaves
<1>3. ASSUME NEW t \in trees, t[1] = p
      PROVE  t = <<p, git[p].candidate>>
  BY <1>1, <1>3 DEF MirrorInv, TreesAreRead
<1>4. \/ trees' = trees \ {<<p, git[p].candidate>>}
      \/ /\ trees' = (trees \ {<<p, git[p].candidate>>}) \cup {<<"left", git[p].candidate>>}
         /\ git[p].candidate \in Commits
  BY <1>1 DEF GitFails, KillGit, Running, GitCallKeeps, Detecting
<1>5. trees' \subseteq (Gits \cup {"left"}) \X Commits /\ \A t \in trees : t[1] # p => t \in trees'
  BY <1>1, <1>4
<1>6. ASSUME NEW t \in trees'
      PROVE  \/ t \in trees /\ t[1] # p
             \/ /\ t[2] \notin Filtered
                /\ Complete(t[2])
                /\ t[1] \notin Gits
  <2>1. CASE t \in trees /\ t[1] # p
    BY <2>1
  <2>2. CASE t \in trees /\ t[1] = p
    <3>1. t = <<p, git[p].candidate>>
      BY <1>3, <2>2
    <3>2. t = <<"left", git[p].candidate>>
      BY <1>4, <3>1
    <3>3. p = "left"
      BY <3>1, <3>2
    <3> QED  BY <3>3, MirrorAssumption
  <2>3. CASE t \notin trees
    <3>1. t = <<"left", git[p].candidate>> /\ KillGit(p)
      BY <1>2, <2>3 DEF GitFails, KillGit
    <3>2. <<p, git[p].candidate>> \in trees
      BY <3>1 DEF KillGit, Running, MirrorInv, TreesAreRead
    <3>3. git[p].candidate \notin Filtered /\ Complete(git[p].candidate)
      BY <3>2 DEF MirrorInv, TreesAreRead
    <3> QED  BY <3>1, <3>3, MirrorAssumption
  <2> QED  BY <2>1, <2>2, <2>3
<1> QED  BY <1>1, <1>2, <1>5, <1>6, NoCallSafe, MirrorCallStep

\* git forgets nothing that is behind an anchor.
LEMMA GarbageStep ==
  ASSUME MirrorInv, CollectGarbage
  PROVE  MirrorInv'
<1>1. UNCHANGED <<branch, tip, kept, trees, inventoried, git>> /\ stored' = stored \cap Behind(Anchors)
  BY DEF CollectGarbage, upstream
<1>2. ASSUME NEW c \in Anchors, Complete(c)
      PROVE  Complete(c)'
  <2>1. History[c] \subseteq Behind(Anchors)
    BY DEF Behind
  <2> QED  BY <1>1, <1>2, <2>1 DEF Complete
<1>3. \A t \in trees : t[2] \in Anchors
  BY DEF Anchors
<1>4. TreesAreRead'
  BY <1>1, <1>2, <1>3 DEF MirrorInv, TreesAreRead
<1>5. KeptAreReady'
  BY <1>1, <1>2 DEF MirrorInv, KeptAreReady, Anchors
<1>6. MirrorTypes' /\ HeadsAreKnown' /\ \A p \in Gits : GitCallKeeps(git[p])'
  BY <1>1 DEF MirrorInv, MirrorTypes, HeadsAreKnown, GitCallKeeps
<1> QED  BY <1>4, <1>5, <1>6 DEF MirrorInv

\* A new head upstream is known to every detection in progress.
LEMMA MoveStep ==
  ASSUME MirrorInv, NEW c \in Commits, NEW forget \in BOOLEAN, Move(c, forget)
  PROVE  MirrorInv'
<1>1. branch' = c /\ UNCHANGED <<tip, stored, kept, trees, inventoried>>
  BY DEF Move, mirrored
<1>2. ASSUME NEW p \in Gits
      PROVE  \E g \in GitCalls :
               /\ git'[p] = g /\ g.pc = git[p].pc /\ g.listed = git[p].listed
               /\ g.candidate = git[p].candidate /\ g.previous = git[p].previous /\ g.fresh = git[p].fresh
               /\ git[p].heads \subseteq g.heads /\ (g.pc \in Detecting => c \in g.heads)
  <2>1. git[p] \in GitCalls /\ (git[p].pc \in Detecting => git[p].heads # {})
    BY DEF MirrorInv, MirrorTypes, HeadsAreKnown
  <2>2. CASE git[p].heads = {}
    BY <2>1, <2>2 DEF Move
  <2>3. CASE git[p].heads # {}
    <3>1. PICK g : g = [git[p] EXCEPT !.heads = git[p].heads \cup {c}]
      OBVIOUS
    <3>2. git'[p] = g
      BY <2>3, <3>1 DEF Move
    <3>3. g \in GitCalls /\ g.pc = git[p].pc /\ g.listed = git[p].listed
          /\ g.candidate = git[p].candidate /\ g.previous = git[p].previous /\ g.fresh = git[p].fresh
          /\ g.heads = git[p].heads \cup {c}
      BY <2>1, <3>1 DEF GitCalls
    <3> QED  BY <3>2, <3>3
  <2> QED  BY <2>2, <2>3
<1>3. MirrorTypes'
  <2>1. git' \in [Gits -> GitCalls]
    BY <1>2 DEF Move
  <2> QED  BY <1>1, <2>1 DEF MirrorInv, MirrorTypes
<1>4. HeadsAreKnown'
  BY <1>1, <1>2 DEF MirrorInv, HeadsAreKnown
<1>5. \A p \in Gits : GitCallKeeps(git[p])'
  BY <1>1, <1>2 DEF MirrorInv, GitCallKeeps
<1>6. TreesAreRead'
  BY <1>1, <1>2 DEF MirrorInv, TreesAreRead, Complete
<1>7. KeptAreReady'
  BY <1>1 DEF MirrorInv, KeptAreReady, Complete
<1> QED  BY <1>3, <1>4, <1>5, <1>6, <1>7 DEF MirrorInv

\* Every step of every service keeps the invariant of the mirror.
LEMMA MirrorKeeps == MirrorInv /\ [Next]_vars => MirrorInv'
<1>1. ASSUME MirrorInv, UNCHANGED gitVars
      PROVE  MirrorInv'
  BY <1>1 DEF MirrorInv, MirrorTypes, HeadsAreKnown, GitCallKeeps, TreesAreRead, KeptAreReady, Complete,
              gitVars, upstream, mirrored
<1>2. ASSUME MirrorInv, MirrorNext
      PROVE  MirrorInv'
  BY <1>2, DetectSteps, ResolveStep, FetchSteps, ProveStep, CheckOutStep, CleanUpStep, KeepStep, EndSteps,
     GarbageStep, MoveStep DEF MirrorNext
<1>3. [Next]_vars => UNCHANGED gitVars \/ MirrorNext
  <2>1. UNCHANGED vars \/ Tick => UNCHANGED gitVars
    BY DEF vars, Tick
  <2>2. LoginNext \/ ReviewNext => UNCHANGED gitVars
    BY DEF LoginNext, ReviewNext, Reviewing, OnlySessions, OnlyReviews
  <2>3. Publication1Next \/ Publication2Next \/ PublicApiNext => UNCHANGED gitVars
    BY DEF Publication1Next, Publication2Next, PublicApiNext, OnlyPublication
  <2>4. PreviewNext \/ IdentityNext \/ StoreNext => UNCHANGED gitVars
    BY DEF PreviewNext, IdentityNext, StoreNext, OnlyPreview, OnlyIdentity, OnlyStore
  <2> QED  BY <2>1, <2>2, <2>3, <2>4 DEF Next
<1> QED  BY <1>1, <1>2, <1>3

\* A candidate was a head of its detection or of one that ran with it, what is read
\* after a proof follows what it was proved against, worktrees hold safe and complete
\* commits, and kept ones stay complete: for any processes and any commit graph.
THEOREM EvidenceAlwaysStays == Spec => []EvidenceStays
<1>1. MirrorInv => EvidenceStays
  BY DEF MirrorInv, GitCallKeeps, TreesAreRead, KeptAreReady, EvidenceStays
<1> QED  BY <1>1, MirrorInitially, MirrorKeeps, PTL DEF Spec

-----------------------------------------------------------------------------
(* Outputs of a document.                                                  *)

\* The contents of the assets of a document, and its lists of them and of assets.
Ids(d) == DOMAIN d.assets
ContentsIn(d) == {d.assets[i].content : i \in Ids(d)}
OutputsOf(d, k) == d.examples[k].outputs

\* A document has its assets and examples in a row, and examples name assets.
LEMMA DocumentShape ==
  ASSUME NEW d, Contracted(d)
  PROVE  /\ Len(d.examples) \in Nat /\ DOMAIN d.examples = 1..Len(d.examples)
         /\ Len(d.assets) \in Nat /\ Ids(d) = 1..Len(d.assets)
         /\ \A k \in DOMAIN d.examples :
              d.examples[k].inputs \in Seq(Ids(d)) /\ OutputsOf(d, k) \in Seq(Ids(d))
<1>1. d.assets \in Seq(Range(d.assets)) /\ d.examples \in Seq(Range(d.examples))
  BY DEF Contracted
<1>2. \A k \in DOMAIN d.examples : d.examples[k] \in Range(d.examples)
  BY DEF Range
<1>3. \A e \in Range(d.examples) : e.inputs \in Seq(DOMAIN d.assets) /\ e.outputs \in Seq(DOMAIN d.assets)
  BY DEF Contracted
<1> QED BY <1>1, <1>2, <1>3 DEF Ids, OutputsOf

\* The contents of a list of assets are a list of contents, as long as it.
LEMMA ContentsFact ==
  ASSUME NEW d, NEW p \in Seq(Ids(d))
  PROVE  /\ ContentsOf(d, p) \in Seq(ContentsIn(d))
         /\ Len(ContentsOf(d, p)) = Len(p)
         /\ \A i \in 1..Len(p) : ContentsOf(d, p)[i] = d.assets[p[i]].content
<1>1. Len(p) \in Nat /\ DOMAIN p = 1..Len(p) /\ \A i \in 1..Len(p) : p[i] \in Ids(d)
  OBVIOUS
<1>2. ContentsOf(d, p) = [i \in 1..Len(p) |-> d.assets[p[i]].content]
  BY <1>1 DEF ContentsOf
<1>3. ContentsOf(d, p) \in [1..Len(p) -> ContentsIn(d)]
  <2>1. \A i \in 1..Len(p) : d.assets[p[i]].content \in ContentsIn(d)
    BY <1>1 DEF ContentsIn
  <2> QED  BY <1>2, <2>1
<1> QED BY <1>1, <1>2, <1>3

\* What a list is that has the elements of two in a row.
InARow(c, a, b, S) ==
  /\ a \in Seq(S) /\ b \in Seq(S) /\ c \in Seq(S)
  /\ Len(c) = Len(a) + Len(b)
  /\ \A i \in 1..Len(c) : c[i] = IF i <= Len(a) THEN a[i] ELSE b[i - Len(a)]

\* Two lists in a row are their concatenation.
LEMMA InARowIsConcat ==
  ASSUME NEW S, NEW a, NEW b, NEW c, InARow(c, a, b, S)
  PROVE  c = a \o b
<1>1. /\ a \o b \in Seq(S) /\ Len(a \o b) = Len(a) + Len(b)
      /\ \A i \in 1 .. Len(a) + Len(b) : (a \o b)[i] = IF i <= Len(a) THEN a[i] ELSE b[i - Len(a)]
  BY ConcatProperties DEF InARow
<1>2. \A i \in 1..Len(c) : c[i] = (a \o b)[i]
  BY <1>1 DEF InARow
<1> QED BY <1>1, <1>2, SeqEqual DEF InARow

\* The contents of two lists in a row are those of one and then of the other.
LEMMA ContentsInARow ==
  ASSUME NEW d, NEW p \in Seq(Ids(d)), NEW q \in Seq(Ids(d))
  PROVE  ContentsOf(d, p \o q) = ContentsOf(d, p) \o ContentsOf(d, q)
<1> DEFINE a == ContentsOf(d, p)
           b == ContentsOf(d, q)
           c == ContentsOf(d, p \o q)
<1>1. p \o q \in Seq(Ids(d))
  OBVIOUS
<1>2. a \in Seq(ContentsIn(d)) /\ Len(a) = Len(p) /\ \A i \in 1..Len(p) : a[i] = d.assets[p[i]].content
  BY ContentsFact
<1>3. b \in Seq(ContentsIn(d)) /\ Len(b) = Len(q) /\ \A i \in 1..Len(q) : b[i] = d.assets[q[i]].content
  BY ContentsFact
<1>4. c \in Seq(ContentsIn(d)) /\ Len(c) = Len(p \o q) /\ \A i \in 1..Len(p \o q) : c[i] = d.assets[(p \o q)[i]].content
  BY <1>1, ContentsFact
<1>5. Len(p \o q) = Len(p) + Len(q) /\ Len(p) \in Nat /\ Len(q) \in Nat
  OBVIOUS
<1>6. \A i \in 1..Len(p) + Len(q) : (p \o q)[i] = IF i <= Len(p) THEN p[i] ELSE q[i - Len(p)]
  OBVIOUS
<1> HIDE DEF a, b, c
<1>7. ASSUME NEW i \in 1..Len(c) PROVE c[i] = IF i <= Len(a) THEN a[i] ELSE b[i - Len(a)]
  <2>1. c[i] = d.assets[(p \o q)[i]].content /\ i \in 1..Len(p) + Len(q)
    BY <1>4, <1>5
  <2>2. CASE i <= Len(p)
    <3>1. i \in 1..Len(p)
      BY <1>5, <2>1, <2>2
    <3> QED BY <1>2, <1>6, <2>1, <2>2, <3>1
  <2>3. CASE ~(i <= Len(p))
    <3>1. i - Len(p) \in 1..Len(q)
      BY <1>5, <2>1, <2>3
    <3> QED BY <1>2, <1>3, <1>6, <2>1, <2>3, <3>1
  <2> QED BY <2>2, <2>3
<1>8. InARow(c, a, b, ContentsIn(d))
  BY <1>2, <1>3, <1>4, <1>5, <1>7 DEF InARow
<1>9. c = a \o b
  BY <1>8, InARowIsConcat
<1> QED BY <1>9 DEF a, b, c

\* One example more, in the facts and in the preview.
FactsStep(d) ==
  [p \in Seq(ContentsIn(d)) \X DOMAIN d.examples |-> p[1] \o ContentsOf(d, d.examples[p[2]].outputs)]
ListedStep(d) ==
  [p \in Seq(Ids(d)) \X DOMAIN d.examples |-> p[1] \o d.examples[p[2]].outputs]

\* The facts are a fold over the examples.
LEMMA FactsFold ==
  ASSUME NEW d, Contracted(d)
  PROVE  \E h : /\ Accumulates(h, Len(d.examples), Seq(ContentsIn(d)), <<>>, FactsStep(d))
                /\ FactsOutputs(d) = h[Len(d.examples)]
<1> DEFINE n == Len(d.examples)
           V == Seq(ContentsIn(d))
           s == d.examples
           step == FactsStep(d)
           Equation(f) == f = [X \in SUBSET DOMAIN s |->
             IF X = {} THEN <<>> ELSE f[X \ {Max(X)}] \o ContentsOf(d, s[Max(X)].outputs)]
           sum == CHOOSE f : Equation(f)
<1>1. FactsOutputs(d) = sum[DOMAIN s]
  BY DEF FactsOutputs, FoldLeft, MapThenFoldSet
<1>2. n \in Nat /\ DOMAIN s = 1..n
  BY DocumentShape
<1>3. \A k \in 1..n : \A v \in V : step[<<v, k>>] \in V /\ step[<<v, k>>] = v \o ContentsOf(d, s[k].outputs)
  <2> SUFFICES ASSUME NEW k \in 1..n, NEW v \in V
               PROVE  step[<<v, k>>] \in V /\ step[<<v, k>>] = v \o ContentsOf(d, s[k].outputs)
    OBVIOUS
  <2>1. ContentsOf(d, s[k].outputs) \in V
    BY <1>2, DocumentShape, ContentsFact DEF OutputsOf
  <2>2. step[<<v, k>>] = v \o ContentsOf(d, s[k].outputs)
    BY <1>2 DEF FactsStep
  <2> HIDE DEF step
  <2> QED BY <2>1, <2>2
<1> HIDE DEF step
<1>4. Stepping(n, V, <<>>, step)
  <2>1. <<>> \in V
    OBVIOUS
  <2> HIDE DEF V
  <2> QED BY <1>2, <1>3, <2>1 DEF Stepping
<1>5. PICK g : SolvesLeft(g, n, V, <<>>, step)
  <2> HIDE DEF V
  <2> QED BY <1>4, LeftSolution
<1>6. \A X \in SUBSET (1..n) : X # {} => Max(X) \in X
  BY <1>2, MaxOfPositions
<1>7. Equation(g)
  <2>1. ASSUME NEW X \in SUBSET (1..n), X # {}
        PROVE  g[X] = g[X \ {Max(X)}] \o ContentsOf(d, s[Max(X)].outputs)
    <3>1. g[X \ {Max(X)}] \in V /\ Max(X) \in 1..n
      BY <1>5, <1>6, <2>1 DEF SolvesLeft
    <3>2. g[X] = step[<<g[X \ {Max(X)}], Max(X)>>]
      BY <1>5, <2>1 DEF SolvesLeft
    <3> QED BY <1>3, <3>1, <3>2
  <2>2. g[{}] = <<>>
    BY <1>5 DEF SolvesLeft
  <2>3. DOMAIN g = SUBSET (1..n) /\ g = [X \in SUBSET (1..n) |-> g[X]]
    BY <1>5 DEF SolvesLeft
  <2>4. [X \in SUBSET (1..n) |-> g[X]] = [X \in SUBSET (1..n) |->
             IF X = {} THEN <<>> ELSE g[X \ {Max(X)}] \o ContentsOf(d, s[Max(X)].outputs)]
    BY <2>1, <2>2
  <2> QED BY <1>2, <2>3, <2>4
<1>8. Equation(sum)
  <2> HIDE DEF Equation
  <2> QED BY <1>7
<1>9. Follows(sum, n, V, <<>>, step)
  <2> HIDE DEF sum, V
  <2>1. sum[{}] = <<>>
    BY <1>8
  <2>2. \A X \in SUBSET (1..n) : X # {} => sum[X] = sum[X \ {Max(X)}] \o ContentsOf(d, s[Max(X)].outputs)
    BY <1>2, <1>8
  <2> HIDE DEF Equation
  <2> QED BY <1>3, <1>6, <2>1, <2>2 DEF Follows
<1> HIDE DEF sum, V, Equation
<1>10. PICK h : Accumulates(h, n, V, <<>>, step) /\ sum[1..n] = h[n]
  BY <1>4, <1>9, LeftFold
<1> QED BY <1>1, <1>2, <1>10 DEF V, step

\* The assets the preview lists are a fold over the examples.
LEMMA ListedFold ==
  ASSUME NEW d, Contracted(d)
  PROVE  \E h : /\ Accumulates(h, Len(d.examples), Seq(Ids(d)), <<>>, ListedStep(d))
                /\ ListedAssets(d) = h[Len(d.examples)]
<1> DEFINE n == Len(d.examples)
           V == Seq(Ids(d))
           s == d.examples
           step == ListedStep(d)
           Equation(f) == f = [X \in SUBSET DOMAIN s |->
             IF X = {} THEN <<>> ELSE f[X \ {Max(X)}] \o s[Max(X)].outputs]
           sum == CHOOSE f : Equation(f)
<1>1. ListedAssets(d) = sum[DOMAIN s]
  BY DEF ListedAssets, FoldLeft, MapThenFoldSet
<1>2. n \in Nat /\ DOMAIN s = 1..n
  BY DocumentShape
<1>3. \A k \in 1..n : \A v \in V : step[<<v, k>>] \in V /\ step[<<v, k>>] = v \o s[k].outputs
  <2> SUFFICES ASSUME NEW k \in 1..n, NEW v \in V
               PROVE  step[<<v, k>>] \in V /\ step[<<v, k>>] = v \o s[k].outputs
    OBVIOUS
  <2>1. s[k].outputs \in V
    BY <1>2, DocumentShape DEF OutputsOf
  <2>2. step[<<v, k>>] = v \o s[k].outputs
    BY <1>2 DEF ListedStep
  <2> HIDE DEF step
  <2> QED BY <2>1, <2>2
<1> HIDE DEF step
<1>4. Stepping(n, V, <<>>, step)
  <2>1. <<>> \in V
    OBVIOUS
  <2> HIDE DEF V
  <2> QED BY <1>2, <1>3, <2>1 DEF Stepping
<1>5. PICK g : SolvesLeft(g, n, V, <<>>, step)
  <2> HIDE DEF V
  <2> QED BY <1>4, LeftSolution
<1>6. \A X \in SUBSET (1..n) : X # {} => Max(X) \in X
  BY <1>2, MaxOfPositions
<1>7. Equation(g)
  <2>1. ASSUME NEW X \in SUBSET (1..n), X # {}
        PROVE  g[X] = g[X \ {Max(X)}] \o s[Max(X)].outputs
    <3>1. g[X \ {Max(X)}] \in V /\ Max(X) \in 1..n
      BY <1>5, <1>6, <2>1 DEF SolvesLeft
    <3>2. g[X] = step[<<g[X \ {Max(X)}], Max(X)>>]
      BY <1>5, <2>1 DEF SolvesLeft
    <3> QED BY <1>3, <3>1, <3>2
  <2>2. g[{}] = <<>>
    BY <1>5 DEF SolvesLeft
  <2>3. DOMAIN g = SUBSET (1..n) /\ g = [X \in SUBSET (1..n) |-> g[X]]
    BY <1>5 DEF SolvesLeft
  <2>4. [X \in SUBSET (1..n) |-> g[X]] = [X \in SUBSET (1..n) |->
             IF X = {} THEN <<>> ELSE g[X \ {Max(X)}] \o s[Max(X)].outputs]
    BY <2>1, <2>2
  <2> QED BY <1>2, <2>3, <2>4
<1>8. Equation(sum)
  <2> HIDE DEF Equation
  <2> QED BY <1>7
<1>9. Follows(sum, n, V, <<>>, step)
  <2> HIDE DEF sum, V
  <2>1. sum[{}] = <<>>
    BY <1>8
  <2>2. \A X \in SUBSET (1..n) : X # {} => sum[X] = sum[X \ {Max(X)}] \o s[Max(X)].outputs
    BY <1>2, <1>8
  <2> HIDE DEF Equation
  <2> QED BY <1>3, <1>6, <2>1, <2>2 DEF Follows
<1> HIDE DEF sum, V, Equation
<1>10. PICK h : Accumulates(h, n, V, <<>>, step) /\ sum[1..n] = h[n]
  BY <1>4, <1>9, LeftFold
<1> QED BY <1>1, <1>2, <1>10 DEF V, step

\* A list of which no asset was met before is a fold over it.
MetStep(ids, S) ==
  [p \in Seq(S) \X DOMAIN ids |-> IF ids[p[2]] \in Range(p[1]) THEN p[1] ELSE Append(p[1], ids[p[2]])]

\* The assets of a document that are met once are a fold.
LEMMA MetFold ==
  ASSUME NEW S, NEW ids \in Seq(S)
  PROVE  \E h : /\ Accumulates(h, Len(ids), Seq(S), <<>>, MetStep(ids, S))
                /\ MetOnce(ids) = h[Len(ids)]
<1> DEFINE n == Len(ids)
           V == Seq(S)
           step == MetStep(ids, S)
           Next1(v, k) == IF ids[k] \in Range(v) THEN v ELSE Append(v, ids[k])
           Equation(f) == f = [X \in SUBSET DOMAIN ids |->
             IF X = {} THEN <<>> ELSE Next1(f[X \ {Max(X)}], Max(X))]
           sum == CHOOSE f : Equation(f)
<1>1. MetOnce(ids) = sum[DOMAIN ids]
  BY DEF MetOnce, FoldLeft, MapThenFoldSet
<1>2. n \in Nat /\ DOMAIN ids = 1..n
  OBVIOUS
<1>3. \A k \in 1..n : \A v \in V : step[<<v, k>>] \in V /\ step[<<v, k>>] = Next1(v, k)
  <2> SUFFICES ASSUME NEW k \in 1..n, NEW v \in V
               PROVE  step[<<v, k>>] \in V /\ step[<<v, k>>] = Next1(v, k)
    OBVIOUS
  <2>1. ids[k] \in S /\ Append(v, ids[k]) \in V
    BY <1>2
  <2>2. step[<<v, k>>] = Next1(v, k)
    BY <1>2 DEF MetStep
  <2> HIDE DEF step
  <2> QED BY <2>1, <2>2
<1> HIDE DEF step
<1>4. Stepping(n, V, <<>>, step)
  <2>1. <<>> \in V
    OBVIOUS
  <2> HIDE DEF V
  <2> QED BY <1>2, <1>3, <2>1 DEF Stepping
<1>5. PICK g : SolvesLeft(g, n, V, <<>>, step)
  <2> HIDE DEF V
  <2> QED BY <1>4, LeftSolution
<1>6. \A X \in SUBSET (1..n) : X # {} => Max(X) \in X
  BY <1>2, MaxOfPositions
<1>7. Equation(g)
  <2> HIDE DEF Next1
  <2>1. ASSUME NEW X \in SUBSET (1..n), X # {}
        PROVE  g[X] = Next1(g[X \ {Max(X)}], Max(X))
    <3>1. g[X \ {Max(X)}] \in V /\ Max(X) \in 1..n
      BY <1>5, <1>6, <2>1 DEF SolvesLeft
    <3>2. g[X] = step[<<g[X \ {Max(X)}], Max(X)>>]
      BY <1>5, <2>1 DEF SolvesLeft
    <3> QED BY <1>3, <3>1, <3>2
  <2>2. g[{}] = <<>>
    BY <1>5 DEF SolvesLeft
  <2>3. DOMAIN g = SUBSET (1..n) /\ g = [X \in SUBSET (1..n) |-> g[X]]
    BY <1>5 DEF SolvesLeft
  <2>4. [X \in SUBSET (1..n) |-> g[X]] = [X \in SUBSET (1..n) |->
             IF X = {} THEN <<>> ELSE Next1(g[X \ {Max(X)}], Max(X))]
    BY <2>1, <2>2
  <2> QED BY <1>2, <2>3, <2>4
<1>8. Equation(sum)
  <2> HIDE DEF Equation
  <2> QED BY <1>7
<1>9. Follows(sum, n, V, <<>>, step)
  <2> HIDE DEF sum, V, Next1
  <2>1. sum[{}] = <<>>
    BY <1>8
  <2>2. \A X \in SUBSET (1..n) : X # {} => sum[X] = Next1(sum[X \ {Max(X)}], Max(X))
    BY <1>2, <1>8
  <2> HIDE DEF Equation
  <2> QED BY <1>3, <1>6, <2>1, <2>2 DEF Follows
<1> HIDE DEF sum, V, Equation
<1>10. PICK h : Accumulates(h, n, V, <<>>, step) /\ sum[1..n] = h[n]
  BY <1>4, <1>9, LeftFold
<1> QED BY <1>1, <1>2, <1>10 DEF V, step

\* Where no asset is listed twice, all of them are met once.
LEMMA AllMetOnce ==
  ASSUME NEW S, NEW ids \in Seq(S), OneToOne(ids, Len(ids))
  PROVE  MetOnce(ids) = ids
<1> DEFINE n == Len(ids)
           V == Seq(S)
<1>1. PICK h : Accumulates(h, n, V, <<>>, MetStep(ids, S)) /\ MetOnce(ids) = h[n]
  BY MetFold
<1>2. n \in Nat /\ DOMAIN ids = 1..n /\ \A k \in 1..n : ids[k] \in S
  OBVIOUS
<1>3. /\ h[0] = <<>> /\ \A k \in 0..n : h[k] \in V
      /\ \A k \in 1..n : k - 1 \in 0..n /\ h[k] = MetStep(ids, S)[<<h[k - 1], k>>]
  BY <1>1 DEF Accumulates
<1> DEFINE T == {k \in 0..n : Len(h[k]) = k /\ \A i \in 1..k : h[k][i] = ids[i]}
<1>4. 0 \in T
  <2>1. Len(h[0]) = 0
    BY <1>3, EmptySeq
  <2> QED BY <1>2, <2>1
<1>5. ASSUME NEW k \in 0..(n-1), k \in T PROVE k + 1 \in T
  <2>1. k \in Nat /\ k + 1 \in 1..n /\ k \in 0..n /\ (k + 1) - 1 = k /\ k + 1 \in 0..n
    BY <1>2
  <2>2. PICK v : v = h[k]
    OBVIOUS
  <2>3. v \in V /\ Len(v) = k /\ \A i \in 1..k : v[i] = ids[i]
    BY <1>3, <1>5, <2>1, <2>2
  <2>4. h[k + 1] = IF ids[k + 1] \in Range(v) THEN v ELSE Append(v, ids[k + 1])
    <3>1. h[k + 1] = MetStep(ids, S)[<<v, k + 1>>]
      BY <1>3, <2>1, <2>2
    <3> QED BY <1>2, <2>1, <2>3, <3>1 DEF MetStep
  <2>5. ids[k + 1] \notin Range(v)
    <3>1. DOMAIN v = 1..k
      BY <2>3
    <3>2. \A i \in 1..k : i \in 1..n /\ i # k + 1
      BY <1>2, <2>1
    <3>3. \A i \in 1..k : ids[i] # ids[k + 1]
      BY <2>1, <3>2 DEF OneToOne
    <3> QED BY <2>3, <3>1, <3>3 DEF Range
  <2>6. h[k + 1] = Append(v, ids[k + 1]) /\ ids[k + 1] \in S
    BY <1>2, <2>1, <2>4, <2>5
  <2>7. Len(h[k + 1]) = k + 1
    BY <2>3, <2>6
  <2>8. \A i \in 1..(k + 1) : h[k + 1][i] = ids[i]
    BY <2>1, <2>3, <2>6
  <2> QED BY <2>1, <2>7, <2>8
<1>6. \A k \in 0..n : k \in T
  <2> HIDE DEF T
  <2> QED BY <1>2, <1>4, <1>5, BoundedInduction
<1>7. n \in T /\ h[n] \in V
  BY <1>2, <1>3, <1>6
<1> QED BY <1>1, <1>7, SeqEqual

\* All elements of p are outputs of the first k examples.
OfFirst(d, p, k) ==
  \A i \in 1..Len(p) : \E x \in 1..k : \E j \in DOMAIN OutputsOf(d, x) : p[i] = OutputsOf(d, x)[j]

\* The contract lets no output be named twice, whatever the number of examples.
LEMMA StillOnce ==
  ASSUME NEW d, Contracted(d), NEW k \in Nat, k + 1 \in DOMAIN d.examples,
         NEW p \in Seq(Ids(d)), OneToOne(p, Len(p)), OfFirst(d, p, k),
         NEW q, q = p \o OutputsOf(d, k + 1)
  PROVE  OneToOne(q, Len(q)) /\ OfFirst(d, q, k + 1)
<1> DEFINE o == OutputsOf(d, k + 1)
<1>1. \A x, y \in DOMAIN d.examples : \A i \in DOMAIN OutputsOf(d, x), j \in DOMAIN OutputsOf(d, y) :
        OutputsOf(d, x)[i] = OutputsOf(d, y)[j] => x = y /\ i = j
  BY DEF Contracted, OutputsOf
<1>2. DOMAIN d.examples = 1..Len(d.examples) /\ Len(d.examples) \in Nat /\ o \in Seq(Ids(d))
  BY DocumentShape
<1> HIDE DEF o
<1>3. /\ Len(q) = Len(p) + Len(o) /\ Len(p) \in Nat /\ Len(o) \in Nat /\ DOMAIN o = 1..Len(o)
      /\ \A i \in 1..Len(q) : q[i] = IF i <= Len(p) THEN p[i] ELSE o[i - Len(p)]
  BY <1>2, ConcatProperties DEF o
<1>4. ASSUME NEW i \in 1..Len(q)
      PROVE  \/ i \in 1..Len(p) /\ q[i] = p[i]
             \/ i - Len(p) \in DOMAIN o /\ q[i] = o[i - Len(p)]
  <2>1. CASE i <= Len(p)
    BY <1>3, <2>1
  <2>2. CASE ~(i <= Len(p))
    <3>1. i - Len(p) \in 1..Len(o)
      BY <1>3, <2>2
    <3> QED BY <1>3, <2>2, <3>1
  <2> QED BY <2>1, <2>2
<1>5. ASSUME NEW i \in 1..Len(p), NEW j \in DOMAIN o, p[i] = o[j] PROVE FALSE
  <2>1. PICK x \in 1..k : \E m \in DOMAIN OutputsOf(d, x) : p[i] = OutputsOf(d, x)[m]
    BY DEF OfFirst
  <2>2. x \in DOMAIN d.examples /\ x # k + 1
    BY <1>2
  <2> QED BY <1>1, <1>5, <2>1, <2>2 DEF o
<1>6. ASSUME NEW i \in DOMAIN o, NEW j \in DOMAIN o, o[i] = o[j] PROVE i = j
  BY <1>1, <1>6 DEF o
<1>7. OneToOne(q, Len(q))
  <2> SUFFICES ASSUME NEW i \in 1..Len(q), NEW j \in 1..Len(q), q[i] = q[j] PROVE i = j
    BY DEF OneToOne
  <2>1. CASE i \in 1..Len(p) /\ q[i] = p[i] /\ j \in 1..Len(p) /\ q[j] = p[j]
    BY <2>1 DEF OneToOne
  <2>2. CASE i - Len(p) \in DOMAIN o /\ q[i] = o[i - Len(p)] /\ j - Len(p) \in DOMAIN o /\ q[j] = o[j - Len(p)]
    <3>1. i - Len(p) = j - Len(p)
      BY <1>6, <2>2
    <3> QED BY <1>3, <3>1
  <2> QED BY <1>4, <1>5, <2>1, <2>2
<1>8. OfFirst(d, q, k + 1)
  <2> SUFFICES ASSUME NEW i \in 1..Len(q)
               PROVE  \E x \in 1..(k + 1) : \E j \in DOMAIN OutputsOf(d, x) : q[i] = OutputsOf(d, x)[j]
    BY DEF OfFirst
  <2>1. CASE i \in 1..Len(p) /\ q[i] = p[i]
    <3>1. PICK x \in 1..k : \E m \in DOMAIN OutputsOf(d, x) : p[i] = OutputsOf(d, x)[m]
      BY <2>1 DEF OfFirst
    <3>2. x \in 1..(k + 1)
      OBVIOUS
    <3> QED BY <2>1, <3>1, <3>2
  <2>2. CASE i - Len(p) \in DOMAIN o /\ q[i] = o[i - Len(p)]
    <3>1. k + 1 \in 1..(k + 1)
      OBVIOUS
    <3> QED BY <2>2, <3>1 DEF o
  <2> QED BY <1>4, <2>1, <2>2
<1> QED BY <1>7, <1>8

\* The review and the preview compare the ledger with the same outputs.
LEMMA OutputsAgree ==
  ASSUME NEW d, Contracted(d)
  PROVE  FactsOutputs(d) = PreviewOutputs(d)
<1> DEFINE n == Len(d.examples)
           U == Seq(Ids(d))
           V == Seq(ContentsIn(d))
<1>1. PICK p : Accumulates(p, n, U, <<>>, ListedStep(d)) /\ ListedAssets(d) = p[n]
  BY ListedFold
<1>2. PICK f : Accumulates(f, n, V, <<>>, FactsStep(d)) /\ FactsOutputs(d) = f[n]
  BY FactsFold
<1>3. n \in Nat /\ DOMAIN d.examples = 1..n /\ \A k \in 1..n : OutputsOf(d, k) \in U
  BY DocumentShape
<1>4. /\ p[0] = <<>> /\ f[0] = <<>>
      /\ \A k \in 0..n : p[k] \in U /\ f[k] \in V
      /\ \A k \in 1..n : /\ k - 1 \in 0..n
                         /\ p[k] = ListedStep(d)[<<p[k - 1], k>>] /\ f[k] = FactsStep(d)[<<f[k - 1], k>>]
  BY <1>1, <1>2 DEF Accumulates
<1>5. \A k \in 1..n : /\ p[k] = p[k - 1] \o OutputsOf(d, k)
                      /\ f[k] = f[k - 1] \o ContentsOf(d, OutputsOf(d, k))
  <2> SUFFICES ASSUME NEW k \in 1..n
               PROVE  /\ p[k] = p[k - 1] \o OutputsOf(d, k)
                      /\ f[k] = f[k - 1] \o ContentsOf(d, OutputsOf(d, k))
    OBVIOUS
  <2>1. p[k - 1] \in U /\ f[k - 1] \in V /\ k \in DOMAIN d.examples
    BY <1>3, <1>4
  <2>2. p[k] = p[k - 1] \o OutputsOf(d, k)
    BY <1>4, <2>1 DEF ListedStep, OutputsOf
  <2>3. f[k] = f[k - 1] \o ContentsOf(d, OutputsOf(d, k))
    BY <1>4, <2>1 DEF FactsStep, OutputsOf
  <2> QED BY <2>2, <2>3
<1> DEFINE T == {k \in 0..n : f[k] = ContentsOf(d, p[k]) /\ OneToOne(p[k], Len(p[k])) /\ OfFirst(d, p[k], k)}
<1>6. 0 \in T
  <2>1. Len(p[0]) = 0 /\ DOMAIN p[0] = {}
    BY <1>4
  <2>2. f[0] = ContentsOf(d, p[0])
    BY <1>4, <2>1 DEF ContentsOf
  <2>3. OneToOne(p[0], Len(p[0])) /\ OfFirst(d, p[0], 0)
    BY <2>1 DEF OneToOne, OfFirst
  <2> QED BY <1>3, <2>2, <2>3
<1>7. ASSUME NEW k \in 0..(n-1), k \in T PROVE k + 1 \in T
  <2>1. k \in Nat /\ k \in 0..n /\ k + 1 \in 1..n /\ k + 1 \in 0..n /\ (k + 1) - 1 = k
    BY <1>3
  <2>2. p[k] \in U /\ p[k + 1] = p[k] \o OutputsOf(d, k + 1) /\ f[k + 1] = f[k] \o ContentsOf(d, OutputsOf(d, k + 1))
    BY <1>4, <1>5, <2>1
  <2>3. f[k + 1] = ContentsOf(d, p[k + 1])
    BY <1>3, <1>7, <2>1, <2>2, ContentsInARow
  <2>4. OneToOne(p[k + 1], Len(p[k + 1])) /\ OfFirst(d, p[k + 1], k + 1)
    BY <1>3, <1>7, <2>1, <2>2, StillOnce
  <2> QED BY <2>1, <2>3, <2>4
<1>8. \A k \in 0..n : k \in T
  <2> HIDE DEF T
  <2> QED BY <1>3, <1>6, <1>7, BoundedInduction
<1>9. n \in T /\ p[n] \in U
  BY <1>3, <1>4, <1>8
<1>10. MetOnce(p[n]) = p[n]
  BY <1>9, AllMetOnce
<1> QED BY <1>1, <1>2, <1>9, <1>10 DEF PreviewOutputs

-----------------------------------------------------------------------------
(* Canonical cases.                                                        *)

RevisionsOf(s) == DOMAIN Documents[s]
AllRows == UNION {UNION {RowsIn(s, n) : n \in RevisionsOf(s)} : s \in Sources}

Explicit(q) == DOMAIN q.selection # {}
CanonShaped(q) ==
  q \in [pc : {"idle", "rows", "canonical", "built"}, selection : {q.selection}, todo : SUBSET DOMAIN rows,
         newCases : {q.newCases}, newMembers : SUBSET DOMAIN rows, lacking : {q.lacking}]

\* A row that was grouped has the case of its key, and every case has a row.
MembersTrue ==
  /\ DOMAIN member \subseteq DOMAIN rows
  /\ \A i \in DOMAIN member : member[i] = KeyOfRow(i)
  /\ cases = {member[i] : i \in DOMAIN member}

\* What a transaction has inserted fits together with what is committed, and
\* each row of its selection is still to do, inserted, or there.
GroupingTrue(q) ==
  /\ q.newCases \subseteq {KeyOfRow(i) : i \in q.newMembers}
  /\ \A i \in q.newMembers : KeyOfRow(i) \in cases \cup q.newCases
  /\ Explicit(q) =>
       /\ \A s \in DOMAIN q.selection : Ready(s, q.selection[s])
       /\ q.lacking = {}
       /\ q.pc = "rows" => SelectedRows(q.selection) \subseteq q.todo \cup q.newMembers \cup DOMAIN member
       /\ q.pc = "canonical" => SelectedRows(q.selection) \subseteq DOMAIN member

IdentityInv ==
  /\ rows \in Seq(AllRows)
  /\ MembersTrue
  /\ DOMAIN canon = Canonicalizers
  /\ \A w \in Canonicalizers : CanonShaped(canon[w]) /\ GroupingTrue(canon[w])

\* Whatever holds at 0 and goes on by one step holds for every number.
LEMMA Counting ==
  ASSUME NEW X \in SUBSET Nat, 0 \in X, \A n \in X : n + 1 \in X
  PROVE  X = Nat
<1> SUFFICES ASSUME NEW k \in Nat \ X
             PROVE  FALSE
  OBVIOUS
<1> DEFINE T == X \cap (0 .. k)
           f == [n \in T |-> n + 1]
<1>1. \A n \in T : n + 1 \in T
  OBVIOUS
<1>2. IsFiniteSet(T)
  <2>1. IsFiniteSet(0 .. k)
    BY FS_Interval
  <2> QED  BY <2>1, FS_Subset
<1>3. f \in Injection(T, T)
  BY <1>1 DEF Injection, IsInjective
<1>4. f \in Surjection(T, T)
  BY <1>2, <1>3, FS_Injection
<1>5. PICK n \in T : f[n] = 0
  <2>1. 0 \in T
    OBVIOUS
  <2> QED  BY <1>4, <2>1 DEF Surjection
<1> QED  BY <1>5

\* A set of numbers that is not empty has a least one.
LEMMA LeastOf ==
  ASSUME NEW S \in SUBSET Nat, S # {}
  PROVE  Min(S) \in S
<1>1. ASSUME \A x \in S : \E y \in S : ~(x <= y)
      PROVE  FALSE
  <2>1. PICK X : X = {n \in Nat : \A x \in S : n < x}
    OBVIOUS
  <2>2. 0 \in X
    BY <1>1, <2>1
  <2>3. \A n \in X : n + 1 \in X
    BY <1>1, <2>1
  <2>4. X = Nat
    BY <2>1, <2>2, <2>3, Counting
  <2>5. PICK x \in S : TRUE
    OBVIOUS
  <2>6. x \in X
    BY <2>4
  <2> QED  BY <2>1, <2>5, <2>6
<1>2. PICK x \in S : \A y \in S : x <= y
  BY <1>1
<1> QED  BY <1>2 DEF Min

\* The document of a row is the one it was made of, and its example is one of it.
LEMMA RowIsDocumented ==
  ASSUME NEW r \in AllRows
  PROVE  \E d : /\ d = DocumentOf(r.source, r.revision, r.case)
                /\ d.examples[r.example].inputs \in Seq(Nat)
                /\ d.examples[r.example].outputs \in Seq(Nat)
<1>1. PICK s \in Sources : \E n \in RevisionsOf(s) : r \in RowsIn(s, n)
  BY DEF AllRows
<1>2. PICK n \in RevisionsOf(s) : r \in RowsIn(s, n)
  BY <1>1
<1>3. PICK d \in Documents[s][n] :
        \E e \in DOMAIN d.examples : r = [source |-> s, revision |-> n, case |-> d.case, example |-> e]
  BY <1>2 DEF RowsIn
<1>4. PICK e \in DOMAIN d.examples : r = [source |-> s, revision |-> n, case |-> d.case, example |-> e]
  BY <1>3
<1>5. Contracted(d) /\ \A f \in Documents[s][n] : f.case = d.case => f = d
  BY DocumentsAssumption DEF Sources, RevisionsOf
<1>6. DocumentOf(s, n, d.case) = d
  BY <1>5 DEF DocumentOf
<1>7. d.examples[e].inputs \in Seq(Nat) /\ d.examples[e].outputs \in Seq(Nat)
  <2>1. d.examples[e].inputs \in Seq(Ids(d)) /\ d.examples[e].outputs \in Seq(Ids(d)) /\ Ids(d) \subseteq Nat
    BY <1>5, DocumentShape DEF OutputsOf
  <2> QED  BY <2>1, SeqMonotonic
<1> QED  BY <1>4, <1>6, <1>7

\* The same contents, said of one list and of its numbers.
LEMMA SameContentsMeans ==
  ASSUME NEW d, NEW p \in Seq(Nat), NEW e, NEW q \in Seq(Nat)
  PROVE  ContentsOf(d, p) = ContentsOf(e, q) <=> SameContents(d, p, e, q)
<1>1. DOMAIN p = 1 .. Len(p) /\ DOMAIN q = 1 .. Len(q) /\ Len(p) \in Nat /\ Len(q) \in Nat
  OBVIOUS
<1>2. ASSUME ContentsOf(d, p) = ContentsOf(e, q)
      PROVE  SameContents(d, p, e, q)
  <2>1. PICK f : f = ContentsOf(d, p) /\ f = ContentsOf(e, q)
    BY <1>2
  <2>2. DOMAIN f = DOMAIN p /\ DOMAIN f = DOMAIN q
    BY <2>1 DEF ContentsOf
  <2>3. \A k \in DOMAIN p : f[k] = d.assets[p[k]].content /\ f[k] = e.assets[q[k]].content
    BY <2>1, <2>2 DEF ContentsOf
  <2>4. ASSUME NEW m \in Nat, NEW n \in Nat, 1 .. m = 1 .. n
        PROVE  m <= n
    <3>1. CASE m = 0
      BY <3>1
    <3>2. CASE m # 0
      <4>1. m \in 1 .. m
        BY <3>2
      <4> QED  BY <2>4, <4>1
    <3> QED  BY <3>1, <3>2
  <2>5. ASSUME NEW m \in Nat, NEW n \in Nat, 1 .. m = 1 .. n
        PROVE  m = n
    <3>1. m <= n /\ n <= m
      BY <2>4, <2>5
    <3> QED  BY <3>1
  <2>6. Len(p) = Len(q)
    <3>1. PICK m \in Nat : m = Len(p)
      BY <1>1
    <3>2. PICK n \in Nat : n = Len(q)
      BY <1>1
    <3>3. 1 .. m = 1 .. n
      BY <1>1, <2>2, <3>1, <3>2
    <3>4. m = n
      BY <2>5, <3>3
    <3> QED  BY <3>1, <3>2, <3>4
  <2> QED  BY <2>3, <2>6 DEF SameContents
<1>3. ASSUME SameContents(d, p, e, q)
      PROVE  ContentsOf(d, p) = ContentsOf(e, q)
  BY <1>1, <1>3 DEF SameContents, ContentsOf
<1> QED  BY <1>2, <1>3

\* Rows have one key exactly if nothing but noise and places tells them apart.
LEMMA AlikeMeans ==
  ASSUME rows \in Seq(AllRows), NEW i \in DOMAIN rows, NEW j \in DOMAIN rows
  PROVE  KeyOfRow(i) = KeyOfRow(j) <=> Alike(i, j)
<1>1. rows[i] \in AllRows /\ rows[j] \in AllRows
  OBVIOUS
<1>2. PICK d : /\ d = RowDocument(i)
               /\ d.examples[rows[i].example].inputs \in Seq(Nat)
               /\ d.examples[rows[i].example].outputs \in Seq(Nat)
  BY <1>1, RowIsDocumented DEF RowDocument
<1>3. PICK e : /\ e = RowDocument(j)
               /\ e.examples[rows[j].example].inputs \in Seq(Nat)
               /\ e.examples[rows[j].example].outputs \in Seq(Nat)
  BY <1>1, RowIsDocumented DEF RowDocument
<1>4. PICK x : x = d.examples[rows[i].example]
  OBVIOUS
<1>5. PICK y : y = e.examples[rows[j].example]
  OBVIOUS
<1>6. /\ ContentsOf(d, x.inputs) = ContentsOf(e, y.inputs) <=> SameContents(d, x.inputs, e, y.inputs)
      /\ ContentsOf(d, x.outputs) = ContentsOf(e, y.outputs) <=> SameContents(d, x.outputs, e, y.outputs)
  BY <1>2, <1>3, <1>4, <1>5, SameContentsMeans
<1>7. KeyOfRow(i) = [prompt |-> d.prompt.words, inputs |-> ContentsOf(d, x.inputs),
                     outputs |-> ContentsOf(d, x.outputs), claim |-> x.claim]
  BY <1>2, <1>4 DEF KeyOfRow, CanonicalKey, Normalized
<1>8. KeyOfRow(j) = [prompt |-> e.prompt.words, inputs |-> ContentsOf(e, y.inputs),
                     outputs |-> ContentsOf(e, y.outputs), claim |-> y.claim]
  BY <1>3, <1>5 DEF KeyOfRow, CanonicalKey, Normalized
<1>9. KeyOfRow(i) = KeyOfRow(j) <=>
        /\ d.prompt.words = e.prompt.words /\ x.claim = y.claim
        /\ ContentsOf(d, x.inputs) = ContentsOf(e, y.inputs)
        /\ ContentsOf(d, x.outputs) = ContentsOf(e, y.outputs)
  BY <1>7, <1>8
<1>10. Alike(i, j) <=>
        /\ d.prompt.words = e.prompt.words /\ x.claim = y.claim
        /\ SameContents(d, x.inputs, e, y.inputs) /\ SameContents(d, x.outputs, e, y.outputs)
  BY <1>2, <1>3, <1>4, <1>5 DEF Alike
<1> QED  BY <1>6, <1>9, <1>10

\* The invariant says what the property asks.
LEMMA WholeByInvariant == IdentityInv => CanonicalIsWhole
<1> SUFFICES ASSUME IdentityInv
             PROVE  CanonicalIsWhole
  OBVIOUS
<1>1. \A i, j \in DOMAIN member : member[i] = member[j] <=> Alike(i, j)
  BY AlikeMeans DEF IdentityInv, MembersTrue
<1>2. ASSUME NEW w \in Canonicalizers
      PROVE  canon[w].pc # "conflict" /\ (DOMAIN canon[w].selection # {} => canon[w].lacking = {})
  BY DEF IdentityInv, CanonShaped, GroupingTrue, Explicit
<1> QED  BY <1>1, <1>2 DEF CanonicalIsWhole, IdentityInv, MembersTrue

\* A process that does nothing relies on nothing.
LEMMA IdleGroups == CanonShaped(NoCanon) /\ GroupingTrue(NoCanon) /\ ~Explicit(NoCanon)
<1>1. DOMAIN NoCanon.selection = {}
  BY DEF NoCanon
<1> QED  BY <1>1 DEF NoCanon, CanonShaped, GroupingTrue, Explicit

\* Nothing is imported or grouped at first.
LEMMA IdentityInitially == Init => IdentityInv
<1> SUFFICES ASSUME IdentityInit
             PROVE  IdentityInv
  BY DEF Init
<1>1. rows = <<>> /\ cases = {} /\ DOMAIN member = {} /\ canon = [w \in Canonicalizers |-> NoCanon]
  BY DEF IdentityInit
<1>2. rows \in Seq(AllRows)
  BY <1>1
<1>3. MembersTrue
  BY <1>1 DEF MembersTrue
<1> QED  BY <1>1, <1>2, <1>3, IdleGroups DEF IdentityInv

\* A step of one process that leaves rows, cases and members alone.
LEMMA CanonStep ==
  ASSUME IdentityInv, NEW w \in Canonicalizers, NEW c, canon' = [canon EXCEPT ![w] = c],
         UNCHANGED <<rows, cases, member>>, CanonShaped(c), GroupingTrue(c)
  PROVE  IdentityInv'
<1>1. \A x \in Canonicalizers : canon'[x] = IF x = w THEN c ELSE canon[x]
  BY DEF IdentityInv
<1>2. \A x \in Canonicalizers : CanonShaped(canon'[x]) /\ GroupingTrue(canon'[x])
  BY <1>1 DEF IdentityInv
<1>3. \A i : KeyOfRow(i)' = KeyOfRow(i)
  BY DEF KeyOfRow, RowDocument
<1>4. \A x \in Canonicalizers : CanonShaped(canon[x])'
  BY <1>2 DEF CanonShaped
<1>5. \A x \in Canonicalizers : GroupingTrue(canon[x])'
  BY <1>2, <1>3 DEF GroupingTrue, Explicit, Ready, SelectedRows, SelectedBy
<1>6. MembersTrue'
  BY <1>3 DEF IdentityInv, MembersTrue
<1>7. DOMAIN canon' = Canonicalizers /\ rows' \in Seq(AllRows)
  BY DEF IdentityInv
<1> QED  BY <1>4, <1>5, <1>6, <1>7 DEF IdentityInv

\* A call that ends, whatever it was doing.
LEMMA CanonEnds ==
  ASSUME IdentityInv, NEW w \in Canonicalizers, canon' = [canon EXCEPT ![w] = NoCanon],
         UNCHANGED <<rows, cases, member>>
  PROVE  IdentityInv'
BY IdleGroups, CanonStep

\* A transaction begins with all rows of its selection to do.
LEMMA BeginCanonicalStep ==
  ASSUME IdentityInv, NEW w \in Canonicalizers, NEW selection, BeginCanonicalize(w, selection)
  PROVE  IdentityInv'
<1>1. PICK c : c = [NoCanon EXCEPT !.pc = "rows", !.selection = selection, !.todo = SelectedRows(selection)]
  OBVIOUS
<1>2. c.pc = "rows" /\ c.selection = selection /\ c.todo = SelectedRows(selection)
      /\ c.newCases = {} /\ c.newMembers = {} /\ c.lacking = {}
  BY <1>1 DEF NoCanon
<1>3. CanonShaped(c)
  BY <1>1 DEF NoCanon, CanonShaped, SelectedRows
<1>4. GroupingTrue(c)
  BY <1>2 DEF GroupingTrue, BeginCanonicalize, Resolves
<1> QED  BY <1>1, <1>3, <1>4, CanonStep DEF BeginCanonicalize

\* The command begins with all rows.
LEMMA BeginAllStep ==
  ASSUME IdentityInv, NEW w \in Canonicalizers, BeginCanonicalizeAll(w)
  PROVE  IdentityInv'
<1>1. PICK c : c = [NoCanon EXCEPT !.pc = "rows", !.todo = DOMAIN rows]
  OBVIOUS
<1>2. DOMAIN c.selection = {} /\ c.newCases = {} /\ c.newMembers = {}
  BY <1>1 DEF NoCanon
<1>3. CanonShaped(c)
  BY <1>1 DEF NoCanon, CanonShaped
<1>4. GroupingTrue(c)
  BY <1>2 DEF GroupingTrue, Explicit
<1> QED  BY <1>1, <1>3, <1>4, CanonStep DEF BeginCanonicalizeAll

\* A row is inserted with its case, or both are there; its membership never names
\* another case.
LEMMA TakeStep ==
  ASSUME IdentityInv, NEW w \in Canonicalizers, TakeRow(w)
  PROVE  IdentityInv'
<1>1. PICK q : q = canon[w]
  OBVIOUS
<1>2. CanonShaped(q) /\ GroupingTrue(q) /\ q.pc = "rows" /\ q.todo # {}
  BY <1>1 DEF IdentityInv, TakeRow, Doing
<1>3. PICK i : i = CurrentRow(w)
  OBVIOUS
<1>4. i \in q.todo /\ i \in DOMAIN rows
  <2>1. q.todo \subseteq DOMAIN rows
    BY <1>2 DEF CanonShaped
  <2>2. DOMAIN rows \subseteq Nat
    BY DEF IdentityInv
  <2>3. Min(q.todo) \in q.todo
    BY <1>2, <2>1, <2>2, LeastOf
  <2> QED  BY <1>1, <1>3, <2>1, <2>3 DEF CurrentRow
<1>5. i \in DOMAIN member => member[i] = KeyOfRow(i) /\ KeyOfRow(i) \in cases
  BY DEF IdentityInv, MembersTrue
<1>6. PICK c : c = [q EXCEPT !.todo = q.todo \ {i},
                             !.newCases = q.newCases \cup ({KeyOfRow(i)} \ cases),
                             !.newMembers = IF i \in DOMAIN member THEN q.newMembers ELSE q.newMembers \cup {i}]
  OBVIOUS
<1>7. canon' = [canon EXCEPT ![w] = c]
  BY <1>1, <1>3, <1>5, <1>6 DEF TakeRow
<1>8. /\ c.pc = "rows" /\ c.selection = q.selection /\ c.lacking = q.lacking /\ c.todo = q.todo \ {i}
      /\ c.newCases = q.newCases \cup ({KeyOfRow(i)} \ cases)
      /\ c.newMembers = IF i \in DOMAIN member THEN q.newMembers ELSE q.newMembers \cup {i}
  BY <1>2, <1>6 DEF CanonShaped
<1>9. CanonShaped(c)
  BY <1>2, <1>4, <1>6 DEF CanonShaped
<1>10. c.newCases \subseteq {KeyOfRow(j) : j \in c.newMembers}
  BY <1>2, <1>5, <1>8 DEF GroupingTrue
<1>11. \A j \in c.newMembers : KeyOfRow(j) \in cases \cup c.newCases
  BY <1>2, <1>8 DEF GroupingTrue
<1>12. GroupingTrue(c)
  BY <1>2, <1>8, <1>10, <1>11 DEF GroupingTrue, Explicit
<1> QED  BY <1>7, <1>9, <1>12, CanonStep DEF TakeRow

\* A build of an explicit selection finds its rows grouped.
LEMMA BuildStep ==
  ASSUME IdentityInv, NEW w \in Canonicalizers, BuildSelection(w)
  PROVE  IdentityInv'
<1>1. PICK q : q = canon[w]
  OBVIOUS
<1>2. CanonShaped(q) /\ GroupingTrue(q) /\ q.pc = "canonical"
  BY <1>1 DEF IdentityInv, BuildSelection, Doing
<1>3. PICK missing : canon' = [canon EXCEPT ![w] = [q EXCEPT !.pc = "built", !.lacking = missing]]
                     /\ (Explicit(q) => missing = SelectedRows(q.selection) \ DOMAIN member)
  BY <1>1 DEF BuildSelection, Explicit
<1>4. PICK c : c = [q EXCEPT !.pc = "built", !.lacking = missing]
  OBVIOUS
<1>5. /\ c.pc = "built" /\ c.selection = q.selection /\ c.lacking = missing
      /\ c.newCases = q.newCases /\ c.newMembers = q.newMembers
  BY <1>2, <1>4 DEF CanonShaped
<1>6. CanonShaped(c)
  BY <1>2, <1>4 DEF CanonShaped
<1>7. Explicit(c) => c.lacking = {}
  BY <1>2, <1>3, <1>5 DEF GroupingTrue, Explicit
<1>8. GroupingTrue(c)
  BY <1>2, <1>5, <1>7 DEF GroupingTrue, Explicit
<1> QED  BY <1>3, <1>4, <1>6, <1>8, CanonStep DEF BuildSelection

\* What is committed is what was inserted; it takes nothing from the others.
LEMMA CommitStep ==
  ASSUME IdentityInv, NEW w \in Canonicalizers, CommitCanonical(w)
  PROVE  IdentityInv'
<1>1. PICK q : q = canon[w]
  OBVIOUS
<1>2. CanonShaped(q) /\ GroupingTrue(q) /\ q.pc = "rows" /\ q.todo = {}
  BY <1>1 DEF IdentityInv, CommitCanonical, Doing
<1>3. PICK c : c = [q EXCEPT !.pc = "canonical", !.newCases = {}, !.newMembers = {}]
  OBVIOUS
<1>4. canon' = [canon EXCEPT ![w] = c] /\ rows' = rows
  BY <1>1, <1>3 DEF CommitCanonical
<1>5. c.pc = "canonical" /\ c.selection = q.selection /\ c.lacking = q.lacking /\ c.newCases = {} /\ c.newMembers = {}
  BY <1>2, <1>3 DEF CanonShaped
<1>6. CanonShaped(c)
  BY <1>2, <1>3 DEF CanonShaped
<1>7. \A i : KeyOfRow(i)' = KeyOfRow(i)
  BY <1>4 DEF KeyOfRow, RowDocument
<1>8. cases' = cases \cup q.newCases /\ DOMAIN member' = DOMAIN member \cup q.newMembers
  BY <1>1 DEF CommitCanonical
<1>9. \A i \in DOMAIN member' : member'[i] = KeyOfRow(i)
  <2>1. \A i \in DOMAIN member' : member'[i] = IF i \in DOMAIN member THEN member[i] ELSE KeyOfRow(i)
    BY <1>1, <1>8 DEF CommitCanonical
  <2> QED  BY <2>1 DEF IdentityInv, MembersTrue
<1>10. cases' = {member'[i] : i \in DOMAIN member'}
  <2>1. ASSUME NEW key \in cases'
        PROVE  \E i \in DOMAIN member' : key = member'[i]
    <3>1. CASE key \in cases
      BY <1>8, <1>9, <3>1 DEF IdentityInv, MembersTrue
    <3>2. CASE key \in q.newCases
      BY <1>2, <1>8, <1>9, <3>2 DEF GroupingTrue
    <3> QED  BY <1>8, <3>1, <3>2
  <2>2. ASSUME NEW i \in DOMAIN member'
        PROVE  member'[i] \in cases'
    <3>1. CASE i \in DOMAIN member
      BY <1>8, <1>9, <3>1 DEF IdentityInv, MembersTrue
    <3>2. CASE i \in q.newMembers
      BY <1>2, <1>8, <1>9, <3>2 DEF GroupingTrue
    <3> QED  BY <1>8, <3>1, <3>2
  <2> QED  BY <2>1, <2>2
<1>11. MembersTrue'
  <2>1. DOMAIN member' \subseteq DOMAIN rows'
    BY <1>2, <1>4, <1>8 DEF IdentityInv, MembersTrue, CanonShaped
  <2> QED  BY <1>7, <1>9, <1>10, <2>1 DEF MembersTrue
<1>12. ASSUME NEW v, GroupingTrue(v)
       PROVE  GroupingTrue(v)'
  BY <1>4, <1>7, <1>8, <1>12 DEF GroupingTrue, Explicit, Ready, SelectedRows, SelectedBy
<1>13. GroupingTrue(c)'
  <2>1. Explicit(c) => SelectedRows(c.selection) \subseteq DOMAIN member'
    BY <1>2, <1>5, <1>8 DEF GroupingTrue, Explicit
  <2>2. Explicit(c) => \A s \in DOMAIN c.selection : Ready(s, c.selection[s])
    BY <1>2, <1>5 DEF GroupingTrue, Explicit
  <2>3. Explicit(c) => c.lacking = {}
    BY <1>2, <1>5 DEF GroupingTrue, Explicit
  <2> QED  BY <1>4, <1>5, <2>1, <2>2, <2>3 DEF GroupingTrue, Explicit, Ready, SelectedRows, SelectedBy
<1>14. ASSUME NEW x \in Canonicalizers
       PROVE  CanonShaped(canon[x])' /\ GroupingTrue(canon[x])'
  <2>1. canon'[x] = IF x = w THEN c ELSE canon[x]
    BY <1>4 DEF IdentityInv
  <2>2. CASE x = w
    <3>1. CanonShaped(c)'
      BY <1>4, <1>6 DEF CanonShaped
    <3> QED  BY <1>13, <2>1, <2>2, <3>1 DEF CanonShaped, GroupingTrue, Explicit
  <2>3. CASE x # w
    <3>1. PICK v : v = canon[x]
      OBVIOUS
    <3>2. CanonShaped(v) /\ GroupingTrue(v)
      BY <3>1 DEF IdentityInv
    <3>3. CanonShaped(v)' /\ GroupingTrue(v)'
      BY <1>4, <1>12, <3>2 DEF CanonShaped
    <3> QED  BY <2>1, <2>3, <3>1, <3>3 DEF CanonShaped, GroupingTrue, Explicit
  <2> QED  BY <2>2, <2>3
<1>15. DOMAIN canon' = Canonicalizers /\ rows' \in Seq(AllRows)
  BY <1>4 DEF IdentityInv
<1> QED  BY <1>11, <1>14, <1>15 DEF IdentityInv

\* The rows of one document.
RowsOfDocument(s, n, d) == {[source |-> s, revision |-> n, case |-> d.case, example |-> e] : e \in DOMAIN d.examples}

\* A revision has finitely many rows.
LEMMA RowsAreFinite ==
  ASSUME NEW s \in Sources, NEW n \in RevisionsOf(s)
  PROVE  IsFiniteSet(RowsIn(s, n))
<1>1. IsFiniteSet(Documents[s][n])
  BY DocumentsAssumption DEF Sources, RevisionsOf
<1>2. ASSUME NEW d \in Documents[s][n] PROVE IsFiniteSet(RowsOfDocument(s, n, d))
  <2>1. Contracted(d)
    BY DocumentsAssumption DEF Sources, RevisionsOf
  <2> DEFINE f == [e \in DOMAIN d.examples |-> [source |-> s, revision |-> n, case |-> d.case, example |-> e]]
             D == DOMAIN d.examples
  <2>2. IsFiniteSet(D)
    <3>1. PICK k \in Nat : D = 1..k
      BY <2>1, DocumentShape
    <3> QED BY <3>1, IntervalFact
  <2>3. IsImage(RowsOfDocument(s, n, d), f, D)
    BY DEF IsImage, RowsOfDocument
  <2> HIDE DEF f, D
  <2> QED BY <2>2, <2>3, ImageIsFinite
<1> DEFINE S == {RowsOfDocument(s, n, d) : d \in Documents[s][n]}
           D == Documents[s][n]
           g == [d \in D |-> RowsOfDocument(s, n, d)]
<1>3. IsFiniteSet(S)
  <2>1. IsImage(S, g, D)
    BY DEF IsImage
  <2> HIDE DEF S, D, g
  <2> QED BY <1>1, <2>1, ImageIsFinite DEF D
<1>4. \A T \in S : IsFiniteSet(T)
  BY <1>2
<1>5. RowsIn(s, n) = UNION S
  BY DEF RowsIn, RowsOfDocument
<1> HIDE DEF S
<1> QED BY <1>3, <1>4, <1>5, FS_UNION

\* What a row is made of.
LEMMA RowFields ==
  ASSUME NEW s \in Sources, NEW n \in RevisionsOf(s), NEW r
  PROVE  r \in RowsIn(s, n) <=>
           \E d \in Documents[s][n] : \E e \in DOMAIN d.examples :
             r = [source |-> s, revision |-> n, case |-> d.case, example |-> e]
BY DEF RowsIn

\* The order of the rows of a revision is one.
LEMMA RowsAreOrdered ==
  ASSUME NEW s \in Sources, NEW n \in RevisionsOf(s)
  PROVE  StrictlyOrders(RowOrder(RowsIn(s, n)), RowsIn(s, n))
<1> DEFINE R == RowsIn(s, n)
<1>1. ASSUME NEW r \in R
      PROVE  /\ r.case \in Int /\ r.example \in Int
             /\ r = [source |-> s, revision |-> n, case |-> r.case, example |-> r.example]
  <2>1. PICK d \in Documents[s][n] : \E e \in DOMAIN d.examples :
          r = [source |-> s, revision |-> n, case |-> d.case, example |-> e]
    BY <1>1, RowFields
  <2>2. PICK e \in DOMAIN d.examples : r = [source |-> s, revision |-> n, case |-> d.case, example |-> e]
    BY <2>1
  <2>3. Contracted(d)
    BY DocumentsAssumption DEF Sources, RevisionsOf
  <2>4. e \in Int /\ d.case \in Int
    BY <2>3, DocumentShape DEF Contracted
  <2> QED BY <2>2, <2>4
<1>2. \A x, y \in R : x.case = y.case /\ x.example = y.example => x = y
  BY <1>1
<1>3. \A x, y \in R : <<x, y>> \in RowOrder(R) <=>
        x.case < y.case \/ (x.case = y.case /\ x.example < y.example)
  BY DEF RowOrder
<1> HIDE DEF R
<1>4. \A x \in R : <<x, x>> \notin RowOrder(R)
  BY <1>1, <1>3
<1>5. \A x, y \in R : x = y \/ <<x, y>> \in RowOrder(R) \/ <<y, x>> \in RowOrder(R)
  <2> SUFFICES ASSUME NEW x \in R, NEW y \in R
               PROVE  x = y \/ <<x, y>> \in RowOrder(R) \/ <<y, x>> \in RowOrder(R)
    OBVIOUS
  <2>1. x.case \in Int /\ y.case \in Int /\ x.example \in Int /\ y.example \in Int
    BY <1>1
  <2>2. \/ x.case < y.case \/ y.case < x.case
        \/ x.case = y.case /\ (x.example < y.example \/ y.example < x.example \/ x.example = y.example)
    BY <2>1
  <2> QED BY <1>2, <1>3, <2>2
<1>6. \A x, y, z \in R : <<x, y>> \in RowOrder(R) /\ <<y, z>> \in RowOrder(R) => <<x, z>> \in RowOrder(R)
  BY <1>1, <1>3
<1>7. StrictlyOrders(RowOrder(R), R)
  BY <1>4, <1>5, <1>6 DEF StrictlyOrders
<1> QED BY <1>7 DEF R

\* A revision is imported with all of its rows and with nothing else.
LEMMA RowsFact ==
  ASSUME NEW s \in Sources, NEW n \in RevisionsOf(s)
  PROVE  /\ RowsOf(s, n) \in Seq(RowsIn(s, n))
         /\ \A r \in RowsIn(s, n) : \E i \in DOMAIN RowsOf(s, n) : RowsOf(s, n)[i] = r
<1>1. Lists(RowsOf(s, n), RowsIn(s, n), RowOrder(RowsIn(s, n)))
  BY RowsAreFinite, RowsAreOrdered, SortedByFact DEF RowsOf
<1>2. PICK m \in Nat : m = Cardinality(RowsIn(s, n))
  BY RowsAreFinite, FS_CardinalityType
<1>3. RowsOf(s, n) \in [1..m -> RowsIn(s, n)] /\ \A r \in RowsIn(s, n) : \E i \in 1..m : RowsOf(s, n)[i] = r
  BY <1>1, <1>2 DEF Lists
<1>4. DOMAIN RowsOf(s, n) = 1..m /\ RowsOf(s, n) \in Seq(RowsIn(s, n))
  BY <1>2, <1>3
<1> QED BY <1>3, <1>4

\* An import adds rows behind those that are there, and none to a revision that is
\* ready: no key changes and no selection grows.
LEMMA ImportStep ==
  ASSUME IdentityInv, NEW s \in Sources, NEW n \in DOMAIN Documents[s], ImportRevision(s, n)
  PROVE  IdentityInv'
<1>1. PICK new : new = RowsOf(s, n)
  OBVIOUS
<1>2. rows \in Seq(AllRows) /\ new \in Seq(RowsIn(s, n)) /\ rows' = rows \o new
      /\ UNCHANGED <<cases, member, canon>> /\ ~Ready(s, n)
  BY <1>1, RowsFact DEF IdentityInv, ImportRevision, RevisionsOf
<1>3. new \in Seq(AllRows)
  <2>1. RowsIn(s, n) \subseteq AllRows
    BY DEF AllRows, RevisionsOf
  <2> QED  BY <1>2, <2>1
<1>4. rows' \in Seq(AllRows)
  BY <1>2, <1>3
<1>5. DOMAIN rows \subseteq DOMAIN rows' /\ \A i \in DOMAIN rows : rows'[i] = rows[i]
  BY <1>2, <1>3
<1>6. ASSUME NEW i \in DOMAIN rows', i \notin DOMAIN rows
      PROVE  rows'[i].source = s /\ rows'[i].revision = n
  <2>1. rows'[i] \in RowsIn(s, n)
    <3>1. i - Len(rows) \in 1 .. Len(new) /\ rows'[i] = new[i - Len(rows)]
      BY <1>2, <1>3, <1>6
    <3> QED  BY <1>2, <3>1
  <2> QED  BY <2>1 DEF RowsIn
<1>7. \A i \in DOMAIN rows : KeyOfRow(i)' = KeyOfRow(i)
  BY <1>5 DEF KeyOfRow, RowDocument
<1>8. \A t, m : Ready(t, m) => Ready(t, m)'
  BY <1>5 DEF Ready
<1>9. ASSUME NEW selection, \A t \in DOMAIN selection : Ready(t, selection[t])
      PROVE  SelectedRows(selection)' = SelectedRows(selection)
  <2>1. ASSUME NEW i \in DOMAIN rows', i \notin DOMAIN rows, rows'[i].source \in DOMAIN selection,
               selection[rows'[i].source] = rows'[i].revision
        PROVE  FALSE
    BY <1>2, <1>6, <1>9, <2>1
  <2> QED  BY <1>5, <2>1 DEF SelectedRows, SelectedBy
<1>10. MembersTrue'
  BY <1>2, <1>5, <1>7 DEF IdentityInv, MembersTrue
<1>11. ASSUME NEW v, CanonShaped(v), GroupingTrue(v)
       PROVE  CanonShaped(v)' /\ GroupingTrue(v)'
  <2>1. CanonShaped(v)'
    BY <1>5, <1>11 DEF CanonShaped
  <2>2. v.newMembers \subseteq DOMAIN rows
    BY <1>11 DEF CanonShaped
  <2>3. (v.newCases \subseteq {KeyOfRow(i) : i \in v.newMembers})'
    BY <1>2, <1>7, <1>11, <2>2 DEF GroupingTrue
  <2>4. (\A i \in v.newMembers : KeyOfRow(i) \in cases \cup v.newCases)'
    BY <1>2, <1>7, <1>11, <2>2 DEF GroupingTrue
  <2>5. CASE Explicit(v)
    <3>1. SelectedRows(v.selection)' = SelectedRows(v.selection)
      BY <1>9, <1>11, <2>5 DEF GroupingTrue
    <3>2. (\A t \in DOMAIN v.selection : Ready(t, v.selection[t]))'
      BY <1>8, <1>11, <2>5 DEF GroupingTrue
    <3> QED  BY <1>2, <1>11, <2>1, <2>3, <2>4, <2>5, <3>1, <3>2 DEF GroupingTrue, Explicit
  <2>6. CASE ~Explicit(v)
    BY <2>1, <2>3, <2>4, <2>6 DEF GroupingTrue, Explicit
  <2> QED  BY <2>5, <2>6
<1>12. ASSUME NEW x \in Canonicalizers
       PROVE  CanonShaped(canon[x])' /\ GroupingTrue(canon[x])'
  <2>1. PICK v : v = canon[x]
    OBVIOUS
  <2>2. CanonShaped(v)' /\ GroupingTrue(v)' /\ canon'[x] = v
    BY <1>2, <1>11, <2>1 DEF IdentityInv
  <2> QED  BY <2>2 DEF CanonShaped, GroupingTrue, Explicit
<1> QED  BY <1>2, <1>4, <1>10, <1>12 DEF IdentityInv

\* Every step of every service keeps the invariant of the canonical cases.
LEMMA IdentityKeeps == IdentityInv /\ [Next]_vars => IdentityInv'
<1>1. ASSUME IdentityInv, UNCHANGED identityVars
      PROVE  IdentityInv'
  BY <1>1 DEF IdentityInv, MembersTrue, CanonShaped, GroupingTrue, Explicit, Ready, SelectedRows, SelectedBy,
              KeyOfRow, RowDocument, identityVars
<1>2. ASSUME IdentityInv, IdentityNext
      PROVE  IdentityInv'
  <2>1. ASSUME NEW w \in Canonicalizers, DeadlockVictim(w)
        PROVE  IdentityInv'
    BY <1>2, <2>1, CanonEnds DEF DeadlockVictim
  <2>2. ASSUME NEW w \in Canonicalizers, GiveUp(w)
        PROVE  IdentityInv'
    BY <1>2, <2>2, CanonEnds DEF GiveUp
  <2>3. ASSUME NEW w \in Canonicalizers, NEW selection \in Selections, BeginCanonicalize(w, selection)
        PROVE  IdentityInv'
    BY <1>2, <2>3, BeginCanonicalStep
  <2>4. ASSUME NEW s \in Sources, NEW n \in DOMAIN Documents[s], ImportRevision(s, n)
        PROVE  IdentityInv'
    BY <1>2, <2>4, ImportStep
  <2> QED  BY <1>2, <2>1, <2>2, <2>3, <2>4, BeginAllStep, TakeStep, CommitStep, BuildStep DEF IdentityNext
<1>3. [Next]_vars => UNCHANGED identityVars \/ IdentityNext
  <2>1. UNCHANGED vars \/ Tick => UNCHANGED identityVars
    BY DEF vars, Tick
  <2>2. LoginNext \/ ReviewNext => UNCHANGED identityVars
    BY DEF LoginNext, ReviewNext, Reviewing, OnlySessions, OnlyReviews
  <2>3. Publication1Next \/ Publication2Next \/ PublicApiNext => UNCHANGED identityVars
    BY DEF Publication1Next, Publication2Next, PublicApiNext, OnlyPublication
  <2>4. PreviewNext \/ StoreNext \/ MirrorNext => UNCHANGED identityVars
    BY DEF PreviewNext, StoreNext, MirrorNext, OnlyPreview, OnlyStore, OnlyMirror
  <2> QED  BY <2>1, <2>2, <2>3, <2>4 DEF Next
<1> QED  BY <1>1, <1>2, <1>3

\* Rows share a case exactly if they are alike, no case is without a row, no grouping
\* is refused and no explicit build lacks a row: for any documents, imports,
\* selections and transactions that run, wait and end at the same time.
THEOREM CanonicalAlwaysWhole == Spec => []CanonicalIsWhole
BY IdentityInitially, IdentityKeeps, WholeByInvariant, PTL DEF Spec

-----------------------------------------------------------------------------
(* Views of a case.                                                        *)

\* A ready revision has all rows of its documents.
RevisionsWhole ==
  \A s \in Sources : \A n \in RevisionsOf(s) :
    Ready(s, n) => \A r \in RowsIn(s, n) : \E i \in DOMAIN rows : rows[i] = r

\* Only an import changes rows.
LEMMA OnlyImports ==
  ASSUME [Next]_vars
  PROVE  \/ UNCHANGED rows
         \/ \E s \in Sources : \E n \in RevisionsOf(s) : ImportRevision(s, n)
<1>1. IdentityNext => \/ UNCHANGED rows
                      \/ \E s \in Sources : \E n \in RevisionsOf(s) : ImportRevision(s, n)
  BY DEF IdentityNext, RevisionsOf, BeginCanonicalize, BeginCanonicalizeAll, TakeRow, CommitCanonical,
         DeadlockVictim, GiveUp, BuildSelection
<1>2. UNCHANGED vars \/ Tick => UNCHANGED rows
  BY DEF vars, identityVars, Tick
<1>3. LoginNext \/ ReviewNext => UNCHANGED rows
  BY DEF LoginNext, ReviewNext, Reviewing, OnlySessions, OnlyReviews, identityVars
<1>4. Publication1Next \/ Publication2Next \/ PublicApiNext => UNCHANGED rows
  BY DEF Publication1Next, Publication2Next, PublicApiNext, OnlyPublication, identityVars
<1>5. PreviewNext \/ StoreNext \/ MirrorNext => UNCHANGED rows
  BY DEF PreviewNext, StoreNext, MirrorNext, OnlyPreview, OnlyStore, OnlyMirror, identityVars
<1> QED  BY <1>1, <1>2, <1>3, <1>4, <1>5 DEF Next

\* A revision is imported whole, and stays.
LEMMA RevisionsStayWhole ==
  ASSUME IdentityInv, RevisionsWhole, [Next]_vars
  PROVE  RevisionsWhole'
<1>1. CASE UNCHANGED rows
  BY <1>1 DEF RevisionsWhole, Ready
<1>2. ASSUME NEW s \in Sources, NEW n \in RevisionsOf(s), ImportRevision(s, n)
      PROVE  RevisionsWhole'
  <2>1. PICK new : new = RowsOf(s, n)
    OBVIOUS
  <2>2. rows \in Seq(AllRows) /\ new \in Seq(RowsIn(s, n)) /\ rows' = rows \o new
    BY <1>2, <2>1, RowsFact DEF IdentityInv, ImportRevision
  <2>3. new \in Seq(AllRows)
    <3>1. RowsIn(s, n) \subseteq AllRows
      BY DEF AllRows
    <3> QED  BY <2>2, <3>1
  <2>4. DOMAIN rows \subseteq DOMAIN rows' /\ \A i \in DOMAIN rows : rows'[i] = rows[i]
    BY <2>2, <2>3
  <2>5. \A i \in DOMAIN new : Len(rows) + i \in DOMAIN rows' /\ rows'[Len(rows) + i] = new[i]
    BY <2>2, <2>3
  <2>6. ASSUME NEW i \in DOMAIN rows', i \notin DOMAIN rows
        PROVE  rows'[i].source = s /\ rows'[i].revision = n
    <3>1. i - Len(rows) \in 1 .. Len(new) /\ rows'[i] = new[i - Len(rows)]
      BY <2>2, <2>3, <2>6
    <3>2. rows'[i] \in RowsIn(s, n)
      BY <2>2, <3>1
    <3> QED  BY <3>2, RowFields
  <2>7. ASSUME NEW t \in Sources, NEW m \in RevisionsOf(t), Ready(t, m)', NEW r \in RowsIn(t, m)
        PROVE  \E i \in DOMAIN rows' : rows'[i] = r
    <3>1. CASE Ready(t, m)
      BY <2>4, <2>7, <3>1 DEF RevisionsWhole
    <3>2. CASE ~Ready(t, m)
      <4>1. PICK i \in DOMAIN rows' : rows'[i].source = t /\ rows'[i].revision = m
        BY <2>7 DEF Ready
      <4>2. i \notin DOMAIN rows
        BY <2>4, <3>2, <4>1 DEF Ready
      <4>3. t = s /\ m = n
        BY <2>6, <4>1, <4>2
      <4>4. PICK j \in DOMAIN new : new[j] = r
        BY <2>1, <2>7, <4>3, RowsFact
      <4> QED  BY <2>5, <4>4
    <3> QED  BY <3>1, <3>2
  <2> QED  BY <2>7 DEF RevisionsWhole
<1> QED  BY <1>1, <1>2, OnlyImports

\* The cases of the rows of some cases of a revision, and a revision of which every
\* row has one.
Grouped(s, r, of) ==
  {member[i] : i \in {j \in DOMAIN member : rows[j].source = s /\ rows[j].revision = r /\ rows[j].case \in of}}
AllGrouped(s, r) == \A i \in DOMAIN rows : rows[i].source = s /\ rows[i].revision = r => i \in DOMAIN member
KeysIn(d) == {CanonicalKey(d, e) : e \in DOMAIN d.examples}

\* A document is the one of its case.
LEMMA DocumentFact ==
  ASSUME NEW s \in Sources, NEW n \in RevisionsOf(s), NEW d \in Documents[s][n]
  PROVE  Contracted(d) /\ DocumentOf(s, n, d.case) = d
<1>1. Contracted(d) /\ \A f \in Documents[s][n] : f.case = d.case => f = d
  BY DocumentsAssumption DEF Sources, RevisionsOf
<1> QED  BY <1>1 DEF DocumentOf

\* Once all rows are grouped, the cases of a document are the keys of its examples.
LEMMA GroupedFact ==
  ASSUME IdentityInv, RevisionsWhole, NEW s \in Sources, NEW n \in RevisionsOf(s), Ready(s, n), AllGrouped(s, n),
         NEW d \in Documents[s][n]
  PROVE  Grouped(s, n, {d.case}) = KeysIn(d)
<1>1. ASSUME NEW i \in DOMAIN member, rows[i].source = s, rows[i].revision = n, rows[i].case = d.case
      PROVE  member[i] \in KeysIn(d)
  <2>1. rows[i] \in AllRows /\ member[i] = KeyOfRow(i)
    BY DEF IdentityInv, MembersTrue
  <2>2. PICK t \in Sources : \E m \in RevisionsOf(t) : rows[i] \in RowsIn(t, m)
    BY <2>1 DEF AllRows
  <2>3. PICK m \in RevisionsOf(t) : rows[i] \in RowsIn(t, m)
    BY <2>2
  <2>4. PICK f \in Documents[t][m] : \E e \in DOMAIN f.examples :
          rows[i] = [source |-> t, revision |-> m, case |-> f.case, example |-> e]
    BY <2>3, RowFields
  <2>5. PICK e \in DOMAIN f.examples : rows[i] = [source |-> t, revision |-> m, case |-> f.case, example |-> e]
    BY <2>4
  <2>6. t = s /\ m = n /\ f.case = d.case /\ rows[i].example = e
    BY <1>1, <2>5
  <2>7. f = d
    BY <2>6, DocumentFact
  <2>8. member[i] = CanonicalKey(d, e)
    BY <1>1, <2>1, <2>6, DocumentFact DEF KeyOfRow, RowDocument
  <2> QED  BY <2>7, <2>8 DEF KeysIn
<1>2. ASSUME NEW e \in DOMAIN d.examples
      PROVE  CanonicalKey(d, e) \in Grouped(s, n, {d.case})
  <2>1. PICK r : r = [source |-> s, revision |-> n, case |-> d.case, example |-> e]
    OBVIOUS
  <2>2. r \in RowsIn(s, n)
    BY <2>1, RowFields
  <2>3. PICK i \in DOMAIN rows : rows[i] = r
    BY <2>2 DEF RevisionsWhole
  <2>4. rows[i].source = s /\ rows[i].revision = n /\ rows[i].case = d.case /\ rows[i].example = e
    BY <2>1, <2>3
  <2>5. i \in DOMAIN member
    BY <2>4 DEF AllGrouped
  <2>6. member[i] = KeyOfRow(i)
    BY <2>5 DEF IdentityInv, MembersTrue
  <2>7. KeyOfRow(i) = CanonicalKey(d, e)
    BY <2>4, DocumentFact DEF KeyOfRow, RowDocument
  <2> QED  BY <2>4, <2>5, <2>6, <2>7 DEF Grouped
<1> QED  BY <1>1, <1>2 DEF Grouped, KeysIn

\* Documents of one fingerprint have the same keys.
LEMMA SameKeys ==
  ASSUME NEW d, NEW e, Contracted(d), Contracted(e), CaseFingerprint(d) = CaseFingerprint(e)
  PROVE  KeysIn(d) = KeysIn(e)
<1>1. SemanticDocument(d) = SemanticDocument(e)
  <2>1. CaseFingerprint(d).semantic = SemanticDocument(d) /\ CaseFingerprint(e).semantic = SemanticDocument(e)
    BY DEF CaseFingerprint
  <2> QED  BY <2>1
<1>2. d.examples = e.examples /\ d.prompt.words = e.prompt.words
  <2>1. /\ SemanticDocument(d).examples = d.examples /\ SemanticDocument(e).examples = e.examples
        /\ SemanticDocument(d).prompt = <<d.prompt.words, d.prompt.noise>>
        /\ SemanticDocument(e).prompt = <<e.prompt.words, e.prompt.noise>>
    BY DEF SemanticDocument
  <2> QED  BY <1>1, <2>1
<1>3. PICK f : f = SemanticDocument(d).assets /\ f = SemanticDocument(e).assets
  BY <1>1
<1>4. /\ f = [i \in DOMAIN d.assets |-> <<d.assets[i].role, d.assets[i].content>>]
      /\ f = [i \in DOMAIN e.assets |-> <<e.assets[i].role, e.assets[i].content>>]
  BY <1>3 DEF SemanticDocument
<1>5. DOMAIN d.assets = DOMAIN e.assets /\ \A i \in DOMAIN d.assets : d.assets[i].content = e.assets[i].content
  <2>1. DOMAIN f = DOMAIN d.assets /\ DOMAIN f = DOMAIN e.assets
    BY <1>4
  <2>2. \A i \in DOMAIN f : f[i] = <<d.assets[i].role, d.assets[i].content>>
    BY <1>4, <2>1
  <2>3. \A i \in DOMAIN f : f[i] = <<e.assets[i].role, e.assets[i].content>>
    BY <1>4, <2>1
  <2> QED  BY <2>1, <2>2, <2>3
<1>6. ASSUME NEW p \in Seq(Ids(d)) PROVE ContentsOf(d, p) = ContentsOf(e, p)
  <2>1. \A i \in DOMAIN p : p[i] \in DOMAIN d.assets
    BY DEF Ids
  <2> QED  BY <1>5, <2>1 DEF ContentsOf
<1>7. ASSUME NEW x \in DOMAIN d.examples PROVE CanonicalKey(d, x) = CanonicalKey(e, x)
  <2>1. d.examples[x].inputs \in Seq(Ids(d)) /\ d.examples[x].outputs \in Seq(Ids(d))
    BY DocumentShape DEF OutputsOf
  <2>2. /\ ContentsOf(d, d.examples[x].inputs) = ContentsOf(e, e.examples[x].inputs)
        /\ ContentsOf(d, d.examples[x].outputs) = ContentsOf(e, e.examples[x].outputs)
    BY <1>2, <1>6, <2>1
  <2> QED  BY <1>2, <2>2 DEF CanonicalKey, Normalized
<1> QED  BY <1>2, <1>7 DEF KeysIn

\* A case the diff calls unchanged has the same cases in both revisions.
LEMMA UnchangedKeepsCases ==
  ASSUME IdentityInv, RevisionsWhole, NEW s \in Sources, NEW n \in RevisionsOf(s), NEW m \in RevisionsOf(s),
         Ready(s, n), Ready(s, m), AllGrouped(s, n), AllGrouped(s, m), NEW c \in Diff(s, n, m).unchanged
  PROVE  Grouped(s, n, {c}) = Grouped(s, m, {c})
<1>1. c \in CaseKeys(s, n) /\ c \in CaseKeys(s, m) /\ SameCase(s, n, m, c)
  BY DEF Diff
<1>2. PICK d \in Documents[s][n] : d.case = c
  BY <1>1 DEF CaseKeys
<1>3. PICK e \in Documents[s][m] : e.case = c
  BY <1>1 DEF CaseKeys
<1>4. DocumentOf(s, n, c) = d /\ DocumentOf(s, m, c) = e /\ Contracted(d) /\ Contracted(e)
  BY <1>2, <1>3, DocumentFact
<1>5. CaseFingerprint(d) = CaseFingerprint(e)
  BY <1>1, <1>4 DEF SameCase
<1>6. KeysIn(d) = KeysIn(e)
  BY <1>4, <1>5, SameKeys
<1>7. Grouped(s, n, {c}) = KeysIn(d) /\ Grouped(s, m, {c}) = KeysIn(e)
  BY <1>2, <1>3, GroupedFact
<1> QED  BY <1>6, <1>7

\* What the property asks of one ready revision.
SameOutputs(s, n) ==
  \A d \in Documents[s][n] : SortedHashes(FactsOutputs(d)) = SortedHashes(PreviewOutputs(d))
SameDiff(s, n) ==
  \A m \in RevisionsOf(s) : Ready(s, m) => (AllGrouped(s, n) /\ AllGrouped(s, m) =>
    /\ \A c \in Diff(s, n, m).unchanged : Grouped(s, n, {c}) = Grouped(s, m, {c})
    /\ Grouped(s, n, CaseKeys(s, n)) \ Grouped(s, m, CaseKeys(s, m)) \subseteq
         Grouped(s, n, Diff(s, n, m).modified \cup Diff(s, n, m).removed))

\* The invariants say what the property asks.
LEMMA ViewsByInvariant == IdentityInv /\ RevisionsWhole => ViewsAgree
<1> SUFFICES ASSUME IdentityInv, RevisionsWhole, NEW s \in Sources, NEW n \in RevisionsOf(s), Ready(s, n)
             PROVE  SameOutputs(s, n) /\ SameDiff(s, n)
  BY DEF ViewsAgree, RevisionsOf, Grouped, AllGrouped, SameOutputs, SameDiff
<1>1. SameOutputs(s, n)
  BY DocumentFact, OutputsAgree DEF SameOutputs
<1>2. ASSUME NEW m \in RevisionsOf(s), Ready(s, m), AllGrouped(s, n), AllGrouped(s, m)
      PROVE  /\ \A c \in Diff(s, n, m).unchanged : Grouped(s, n, {c}) = Grouped(s, m, {c})
             /\ Grouped(s, n, CaseKeys(s, n)) \ Grouped(s, m, CaseKeys(s, m)) \subseteq
                  Grouped(s, n, Diff(s, n, m).modified \cup Diff(s, n, m).removed)
  <2>1. \A c \in Diff(s, n, m).unchanged : Grouped(s, n, {c}) = Grouped(s, m, {c})
    BY <1>2, UnchangedKeepsCases
  <2>2. ASSUME NEW i \in DOMAIN member, rows[i].source = s, rows[i].revision = n, rows[i].case \in CaseKeys(s, n),
               member[i] \notin Grouped(s, m, CaseKeys(s, m))
        PROVE  rows[i].case \in Diff(s, n, m).modified \cup Diff(s, n, m).removed
    <3>1. PICK c : c = rows[i].case
      OBVIOUS
    <3>2. ASSUME c \in Diff(s, n, m).unchanged PROVE FALSE
      <4>1. c \in CaseKeys(s, m)
        BY <3>2 DEF Diff
      <4>2. member[i] \in Grouped(s, n, {c})
        BY <2>2, <3>1 DEF Grouped
      <4>3. member[i] \in Grouped(s, m, {c})
        BY <2>1, <3>2, <4>2
      <4>4. Grouped(s, m, {c}) \subseteq Grouped(s, m, CaseKeys(s, m))
        BY <4>1 DEF Grouped
      <4> QED  BY <2>2, <4>3, <4>4
    <3> QED  BY <2>2, <3>1, <3>2 DEF Diff
  <2>3. Grouped(s, n, CaseKeys(s, n)) \ Grouped(s, m, CaseKeys(s, m)) \subseteq
          Grouped(s, n, Diff(s, n, m).modified \cup Diff(s, n, m).removed)
    BY <2>2 DEF Grouped
  <2> QED  BY <2>1, <2>3
<1>3. SameDiff(s, n)
  BY <1>2 DEF SameDiff
<1> QED  BY <1>1, <1>3

\* Nothing is ready at first.
LEMMA NothingReady == Init => RevisionsWhole
BY DEF Init, IdentityInit, RevisionsWhole, Ready

\* The diff of two revisions, the grouping, the review and the preview agree on what a
\* case is, for any documents of any sources that keep the contract and in whatever
\* order revisions are imported and grouped.
THEOREM ViewsAlwaysAgree == Spec => []ViewsAgree
BY IdentityInitially, IdentityKeeps, NothingReady, RevisionsStayWhole, ViewsByInvariant, PTL DEF Spec

-----------------------------------------------------------------------------
(* Preview.                                                                *)

\* Outputs of contents C from sources S.
OutputLists(C, S) == Seq([content : C, sources : SUBSET S])

\* A list of outputs has each content of the pairs once, with exactly its sources.
Collects(outputs, pairs) ==
  /\ \A i, j \in DOMAIN outputs : outputs[i].content = outputs[j].content => i = j
  /\ \A i \in DOMAIN outputs : \A s : s \in outputs[i].sources <=> <<s, outputs[i].content>> \in pairs
  /\ \A i \in DOMAIN outputs : \E s : <<s, outputs[i].content>> \in pairs
  /\ \A s, x : <<s, x>> \in pairs => \E i \in DOMAIN outputs : outputs[i].content = x

\* One image more.
LEMMA AddImageCollects ==
  ASSUME NEW C, NEW S, NEW outputs \in OutputLists(C, S), NEW pairs, Collects(outputs, pairs),
         NEW c, c.source \in S, NEW x \in C
  PROVE  /\ AddImage(outputs, c, x) \in OutputLists(C, S)
         /\ Collects(AddImage(outputs, c, x), pairs \cup {<<c.source, x>>})
<1> DEFINE V == [content : C, sources : SUBSET S]
           more == pairs \cup {<<c.source, x>>}
<1>1. /\ outputs \in Seq(V) /\ Len(outputs) \in Nat /\ DOMAIN outputs = 1..Len(outputs)
      /\ \A i \in DOMAIN outputs : outputs[i] \in V
  <2>1. outputs \in Seq(V)
    BY DEF OutputLists
  <2> HIDE DEF V
  <2> QED BY <2>1
<1>2. CASE \E i \in DOMAIN outputs : outputs[i].content = x
  <2>1. PICK new : new = AddImage(outputs, c, x)
    OBVIOUS
  <2>2. new = [i \in DOMAIN outputs |->
                 IF outputs[i].content = x THEN [outputs[i] EXCEPT !.sources = @ \cup {c.source}] ELSE outputs[i]]
    BY <1>2, <2>1 DEF AddImage
  <2>3. DOMAIN new = DOMAIN outputs
    BY <2>2
  <2>4. ASSUME NEW i \in DOMAIN outputs
        PROVE  /\ new[i] \in V /\ new[i].content = outputs[i].content
               /\ new[i].sources = IF outputs[i].content = x THEN outputs[i].sources \cup {c.source}
                                   ELSE outputs[i].sources
    <3>1. CASE outputs[i].content = x
      <4>1. new[i] = [outputs[i] EXCEPT !.sources = @ \cup {c.source}]
        BY <2>2, <3>1
      <4> QED BY <1>1, <3>1, <4>1
    <3>2. CASE outputs[i].content # x
      <4>1. new[i] = outputs[i]
        BY <2>2, <3>2
      <4> QED BY <1>1, <3>2, <4>1
    <3> QED BY <3>1, <3>2
  <2>5. new \in OutputLists(C, S)
    <3>1. new \in [1..Len(outputs) -> V]
      BY <1>1, <2>2, <2>3, <2>4
    <3> QED BY <1>1, <3>1 DEF OutputLists
  <2>6. \A i, j \in DOMAIN new : new[i].content = new[j].content => i = j
    BY <2>3, <2>4 DEF Collects
  <2>7. ASSUME NEW i \in DOMAIN new, NEW s
        PROVE  s \in new[i].sources <=> <<s, new[i].content>> \in more
    <3>1. s \in outputs[i].sources <=> <<s, outputs[i].content>> \in pairs
      BY <2>3 DEF Collects
    <3>2. CASE outputs[i].content = x
      BY <2>3, <2>4, <3>1, <3>2
    <3>3. CASE outputs[i].content # x
      BY <2>3, <2>4, <3>1, <3>3
    <3> QED BY <3>2, <3>3
  <2>8. ASSUME NEW i \in DOMAIN new PROVE \E s : <<s, new[i].content>> \in more
    <3>1. PICK s : <<s, outputs[i].content>> \in pairs
      BY <2>3 DEF Collects
    <3> QED BY <2>3, <2>4, <3>1
  <2>9. ASSUME NEW s, NEW y, <<s, y>> \in more
        PROVE  \E i \in DOMAIN new : new[i].content = y
    BY <1>2, <2>3, <2>4, <2>9 DEF Collects
  <2> HIDE DEF more
  <2>10. Collects(new, more)
    BY <2>6, <2>7, <2>8, <2>9 DEF Collects
  <2> QED BY <2>1, <2>5, <2>10 DEF more
<1>3. CASE ~(\E i \in DOMAIN outputs : outputs[i].content = x)
  <2>1. PICK new : new = AddImage(outputs, c, x)
    OBVIOUS
  <2>2. PICK o : o = [content |-> x, sources |-> {c.source}]
    OBVIOUS
  <2>3. o \in V /\ o.content = x /\ o.sources = {c.source}
    BY <2>2
  <2>4. new = Append(outputs, o)
    BY <1>3, <2>1, <2>2 DEF AddImage
  <2> HIDE DEF V
  <2>5. /\ new \in Seq(V) /\ Len(new) = Len(outputs) + 1 /\ DOMAIN new = 1..Len(outputs) + 1
        /\ \A i \in DOMAIN outputs : new[i] = outputs[i]
        /\ new[Len(outputs) + 1] = o
    BY <1>1, <2>3, <2>4
  <2>6. \A i \in DOMAIN new : i \in DOMAIN outputs \/ i = Len(outputs) + 1
    BY <1>1, <2>5
  <2>7. Len(outputs) + 1 \in DOMAIN new /\ DOMAIN outputs \subseteq DOMAIN new
    BY <1>1, <2>5
  <2>8. \A i, j \in DOMAIN new : new[i].content = new[j].content => i = j
    BY <1>3, <2>3, <2>5, <2>6 DEF Collects
  <2>9. \A s : <<s, x>> \notin pairs
    BY <1>3 DEF Collects
  <2>10. ASSUME NEW i \in DOMAIN new, NEW s
         PROVE  s \in new[i].sources <=> <<s, new[i].content>> \in more
    <3>1. CASE i \in DOMAIN outputs
      BY <1>3, <2>5, <3>1 DEF Collects
    <3>2. CASE i = Len(outputs) + 1
      BY <2>3, <2>5, <2>9, <3>2
    <3> QED BY <2>6, <3>1, <3>2
  <2>11. ASSUME NEW i \in DOMAIN new PROVE \E s : <<s, new[i].content>> \in more
    <3>1. CASE i \in DOMAIN outputs
      BY <2>5, <3>1 DEF Collects
    <3>2. CASE i = Len(outputs) + 1
      BY <2>3, <2>5, <3>2
    <3> QED BY <2>6, <3>1, <3>2
  <2>12. ASSUME NEW s, NEW y, <<s, y>> \in more PROVE \E i \in DOMAIN new : new[i].content = y
    <3>1. CASE <<s, y>> \in pairs
      <4>1. PICK i \in DOMAIN outputs : outputs[i].content = y
        BY <3>1 DEF Collects
      <4> QED BY <2>5, <2>7, <4>1
    <3>2. CASE <<s, y>> = <<c.source, x>>
      BY <2>3, <2>5, <2>7, <3>2
    <3> QED BY <2>12, <3>1, <3>2
  <2> HIDE DEF more
  <2>13. Collects(new, more)
    BY <2>8, <2>10, <2>11, <2>12 DEF Collects
  <2> QED BY <2>1, <2>5, <2>13 DEF V, more, OutputLists
<1> QED BY <1>2, <1>3

\* What the first k images of a case, and all of them, add.
FirstPairs(c, k) == {<<c.source, c.images[j]>> : j \in 1..k}
CasePairs(c) == {<<c.source, c.images[j]>> : j \in DOMAIN c.images}

\* The step of the inner fold.
ImageStep(c, V) == [p \in V \X DOMAIN c.images |-> AddImage(p[1], c, c.images[p[2]])]

\* Adding images keeps lists of outputs what they are.
Additive(c, V) == \A v \in V : \A k \in DOMAIN c.images : AddImage(v, c, c.images[k]) \in V

\* The images of a case are a fold.
LEMMA ImagesFold ==
  ASSUME NEW c, c.images \in Seq(ToSet(c.images)), NEW V, Additive(c, V), NEW base \in V
  PROVE  \E h : /\ Accumulates(h, Len(c.images), V, base, ImageStep(c, V))
                /\ AddImages(base, c) = h[Len(c.images)]
<1> DEFINE n == Len(c.images)
           step == ImageStep(c, V)
           Equation(f) == f = [X \in SUBSET DOMAIN c.images |->
             IF X = {} THEN base ELSE AddImage(f[X \ {Max(X)}], c, c.images[Max(X)])]
           sum == CHOOSE f : Equation(f)
<1>1. AddImages(base, c) = sum[DOMAIN c.images]
  BY DEF AddImages, FoldLeft, MapThenFoldSet
<1>2. n \in Nat /\ DOMAIN c.images = 1..n
  OBVIOUS
<1>3. \A k \in 1..n : \A v \in V : step[<<v, k>>] \in V /\ step[<<v, k>>] = AddImage(v, c, c.images[k])
  <2>1. ASSUME NEW k \in 1..n, NEW v \in V
        PROVE  step[<<v, k>>] \in V /\ step[<<v, k>>] = AddImage(v, c, c.images[k])
    <3>1. AddImage(v, c, c.images[k]) \in V
      BY <1>2 DEF Additive
    <3>2. step[<<v, k>>] = AddImage(v, c, c.images[k])
      BY <1>2 DEF ImageStep
    <3> HIDE DEF step
    <3> QED BY <3>1, <3>2
  <2> HIDE DEF step, n
  <2> QED BY <2>1
<1> HIDE DEF step
<1>4. Stepping(n, V, base, step)
  BY <1>2, <1>3 DEF Stepping
<1>5. PICK g : SolvesLeft(g, n, V, base, step)
  BY <1>4, LeftSolution
<1>6. \A X \in SUBSET (1..n) : X # {} => Max(X) \in X
  BY <1>2, MaxOfPositions
<1>7. Equation(g)
  <2>1. ASSUME NEW X \in SUBSET (1..n), X # {}
        PROVE  g[X] = AddImage(g[X \ {Max(X)}], c, c.images[Max(X)])
    <3>1. g[X \ {Max(X)}] \in V /\ Max(X) \in 1..n
      BY <1>5, <1>6, <2>1 DEF SolvesLeft
    <3>2. g[X] = step[<<g[X \ {Max(X)}], Max(X)>>]
      BY <1>5, <2>1 DEF SolvesLeft
    <3> QED BY <1>3, <3>1, <3>2
  <2>2. g[{}] = base
    BY <1>5 DEF SolvesLeft
  <2>3. DOMAIN g = SUBSET (1..n) /\ g = [X \in SUBSET (1..n) |-> g[X]]
    BY <1>5 DEF SolvesLeft
  <2>4. [X \in SUBSET (1..n) |-> g[X]] = [X \in SUBSET (1..n) |->
             IF X = {} THEN base ELSE AddImage(g[X \ {Max(X)}], c, c.images[Max(X)])]
    BY <2>1, <2>2
  <2> QED BY <1>2, <2>3, <2>4
<1>8. Equation(sum)
  <2> HIDE DEF Equation
  <2> QED BY <1>7
<1>9. Follows(sum, n, V, base, step)
  <2> HIDE DEF sum
  <2>1. sum[{}] = base
    BY <1>8
  <2>2. \A X \in SUBSET (1..n) : X # {} => sum[X] = AddImage(sum[X \ {Max(X)}], c, c.images[Max(X)])
    BY <1>2, <1>8
  <2> HIDE DEF Equation
  <2> QED BY <1>3, <1>6, <2>1, <2>2 DEF Follows
<1> HIDE DEF sum, Equation
<1>10. PICK h : Accumulates(h, n, V, base, step) /\ sum[1..n] = h[n]
  BY <1>4, <1>9, LeftFold
<1> QED BY <1>1, <1>2, <1>10 DEF step

\* One case more.
LEMMA AddImagesCollects ==
  ASSUME NEW C, NEW S, NEW outputs \in OutputLists(C, S), NEW pairs, Collects(outputs, pairs),
         NEW c, c.source \in S, c.images \in Seq(ToSet(c.images)), ToSet(c.images) \subseteq C
  PROVE  /\ AddImages(outputs, c) \in OutputLists(C, S)
         /\ Collects(AddImages(outputs, c), pairs \cup CasePairs(c))
<1> DEFINE n == Len(c.images)
           V == {v \in OutputLists(C, S) : \E p : Collects(v, p)}
<1>1. n \in Nat /\ DOMAIN c.images = 1..n /\ \A k \in 1..n : c.images[k] \in C
  OBVIOUS
<1>2. outputs \in V
  OBVIOUS
<1>3. Additive(c, V)
  <2> SUFFICES ASSUME NEW v \in V, NEW k \in DOMAIN c.images
               PROVE  AddImage(v, c, c.images[k]) \in V
    BY DEF Additive
  <2>1. PICK p : Collects(v, p)
    OBVIOUS
  <2>2. AddImage(v, c, c.images[k]) \in OutputLists(C, S)
        /\ Collects(AddImage(v, c, c.images[k]), p \cup {<<c.source, c.images[k]>>})
    BY <1>1, <2>1, AddImageCollects
  <2> QED BY <2>2
<1> HIDE DEF V
<1>4. PICK h : Accumulates(h, n, V, outputs, ImageStep(c, V)) /\ AddImages(outputs, c) = h[n]
  BY <1>2, <1>3, ImagesFold
<1> DEFINE T == {k \in 0..n : h[k] \in OutputLists(C, S) /\ Collects(h[k], pairs \cup FirstPairs(c, k))}
<1>5. 0 \in T
  <2>1. pairs \cup FirstPairs(c, 0) = pairs
    BY DEF FirstPairs
  <2>2. h[0] = outputs
    BY <1>4 DEF Accumulates
  <2>3. h[0] \in OutputLists(C, S) /\ Collects(h[0], pairs \cup FirstPairs(c, 0))
    BY <2>1, <2>2
  <2>4. 0 \in 0..n
    BY <1>1
  <2> QED BY <2>3, <2>4
<1>6. ASSUME NEW k \in 0..(n-1), k \in T PROVE k + 1 \in T
  <2>1. k \in Nat /\ k \in 0..n /\ k + 1 \in 1..n /\ k + 1 \in 0..n /\ (k + 1) - 1 = k
    BY <1>1
  <2>2. h[k] \in V /\ h[k + 1] = ImageStep(c, V)[<<h[k], k + 1>>]
    BY <1>4, <2>1 DEF Accumulates
  <2>3. h[k + 1] = AddImage(h[k], c, c.images[k + 1])
    BY <1>1, <2>1, <2>2 DEF ImageStep
  <2>4. PICK more : more = pairs \cup FirstPairs(c, k)
    OBVIOUS
  <2> HIDE DEF n
  <2>5. pairs \cup FirstPairs(c, k + 1) = more \cup {<<c.source, c.images[k + 1]>>}
    <3>1. 1..(k + 1) = (1..k) \cup {k + 1}
      BY <2>1
    <3> QED BY <2>4, <3>1 DEF FirstPairs
  <2>6. h[k] \in OutputLists(C, S) /\ Collects(h[k], more)
    BY <1>6, <2>4
  <2>7. h[k + 1] \in OutputLists(C, S) /\ Collects(h[k + 1], more \cup {<<c.source, c.images[k + 1]>>})
    <3>1. c.images[k + 1] \in C
      BY <1>1, <2>1
    <3>2. PICK x \in C : x = c.images[k + 1]
      BY <3>1
    <3>3. PICK old \in OutputLists(C, S) : old = h[k] /\ Collects(old, more)
      BY <2>6
    <3>4. AddImage(old, c, x) \in OutputLists(C, S) /\ Collects(AddImage(old, c, x), more \cup {<<c.source, x>>})
      BY <3>3, AddImageCollects
    <3> QED BY <2>3, <3>2, <3>3, <3>4
  <2> QED BY <2>1, <2>5, <2>7
<1>7. \A k \in 0..n : k \in T
  <2> HIDE DEF T
  <2> QED BY <1>1, <1>5, <1>6, BoundedInduction
<1>8. n \in T
  <2> HIDE DEF T, n
  <2>1. n \in 0..n
    BY <1>1
  <2> QED BY <1>7, <2>1
<1>9. FirstPairs(c, n) = CasePairs(c)
  BY <1>1 DEF FirstPairs, CasePairs
<1> QED BY <1>4, <1>8, <1>9

\* The step of the outer fold.
CaseStep(m, n, V) == [p \in V \X (1..n) |-> AddImages(p[1], m[p[2]])]

\* Adding the cases of a list keeps lists of outputs what they are.
AdditiveCases(m, n, V) ==
  n \in Nat /\ DOMAIN m = 1..n /\ \A k \in 1..n : \A v \in V : AddImages(v, m[k]) \in V

\* The cases of a list are a fold.
LEMMA CasesFold ==
  ASSUME NEW n, NEW m, NEW V, NEW base \in V, AdditiveCases(m, n, V)
  PROVE  \E h : /\ Accumulates(h, n, V, base, CaseStep(m, n, V))
                /\ FoldLeft(AddImages, base, m) = h[n]
<1> DEFINE step == CaseStep(m, n, V)
           Equation(f) == f = [X \in SUBSET DOMAIN m |->
             IF X = {} THEN base ELSE AddImages(f[X \ {Max(X)}], m[Max(X)])]
           sum == CHOOSE f : Equation(f)
<1>1. FoldLeft(AddImages, base, m) = sum[DOMAIN m]
  BY DEF FoldLeft, MapThenFoldSet
<1>2. n \in Nat /\ DOMAIN m = 1..n
  BY DEF AdditiveCases
<1>3. \A k \in 1..n : \A v \in V : step[<<v, k>>] \in V /\ step[<<v, k>>] = AddImages(v, m[k])
  <2>1. ASSUME NEW k \in 1..n, NEW v \in V
        PROVE  step[<<v, k>>] \in V /\ step[<<v, k>>] = AddImages(v, m[k])
    <3>1. AddImages(v, m[k]) \in V
      BY DEF AdditiveCases
    <3>2. step[<<v, k>>] = AddImages(v, m[k])
      BY DEF CaseStep
    <3> HIDE DEF step
    <3> QED BY <3>1, <3>2
  <2> HIDE DEF step
  <2> QED BY <2>1
<1> HIDE DEF step
<1>4. Stepping(n, V, base, step)
  BY <1>2, <1>3 DEF Stepping
<1>5. PICK g : SolvesLeft(g, n, V, base, step)
  BY <1>4, LeftSolution
<1>6. \A X \in SUBSET (1..n) : X # {} => Max(X) \in X
  BY <1>2, MaxOfPositions
<1>7. Equation(g)
  <2>1. ASSUME NEW X \in SUBSET (1..n), X # {}
        PROVE  g[X] = AddImages(g[X \ {Max(X)}], m[Max(X)])
    <3>1. g[X \ {Max(X)}] \in V /\ Max(X) \in 1..n
      BY <1>5, <1>6, <2>1 DEF SolvesLeft
    <3>2. g[X] = step[<<g[X \ {Max(X)}], Max(X)>>]
      BY <1>5, <2>1 DEF SolvesLeft
    <3> QED BY <1>3, <3>1, <3>2
  <2>2. g[{}] = base
    BY <1>5 DEF SolvesLeft
  <2>3. DOMAIN g = SUBSET (1..n) /\ g = [X \in SUBSET (1..n) |-> g[X]]
    BY <1>5 DEF SolvesLeft
  <2>4. [X \in SUBSET (1..n) |-> g[X]] = [X \in SUBSET (1..n) |->
             IF X = {} THEN base ELSE AddImages(g[X \ {Max(X)}], m[Max(X)])]
    BY <2>1, <2>2
  <2> QED BY <1>2, <2>3, <2>4
<1>8. Equation(sum)
  <2> HIDE DEF Equation
  <2> QED BY <1>7
<1>9. Follows(sum, n, V, base, step)
  <2> HIDE DEF sum
  <2>1. sum[{}] = base
    BY <1>8
  <2>2. \A X \in SUBSET (1..n) : X # {} => sum[X] = AddImages(sum[X \ {Max(X)}], m[Max(X)])
    BY <1>2, <1>8
  <2> HIDE DEF Equation
  <2> QED BY <1>3, <1>6, <2>1, <2>2 DEF Follows
<1> HIDE DEF sum, Equation
<1>10. PICK h : Accumulates(h, n, V, base, step) /\ sum[1..n] = h[n]
  BY <1>4, <1>9, LeftFold
<1> QED BY <1>1, <1>2, <1>10 DEF step

\* Cases of contents C and sources S, each with its own id.
FitCases(M, C, S) ==
  /\ IsFiniteSet(M)
  /\ \A c \in M : /\ c.id \in Int /\ c.source \in S
                  /\ c.images \in Seq(ToSet(c.images)) /\ ToSet(c.images) \subseteq C
  /\ \A c, d \in M : c.id = d.id => c = d

\* What the first k cases of a list, and all of a set, have.
PairsOfFirst(m, k) == UNION {CasePairs(m[j]) : j \in 1..k}
PairsIn(M) == UNION {CasePairs(c) : c \in M}

\* Ids put the cases in a strict order.
LEMMA ByIdOrders ==
  ASSUME NEW M, NEW C, NEW S, FitCases(M, C, S)
  PROVE  StrictlyOrders(ById(M), M)
BY DEF StrictlyOrders, ById, FitCases

\* A group has each content of its cases once, with exactly their sources.
LEMMA GroupCollects ==
  ASSUME NEW M, NEW C, NEW S, FitCases(M, C, S)
  PROVE  LET outputs == FoldLeft(AddImages, <<>>, SortedBy(M, ById(M)))
         IN outputs \in OutputLists(C, S) /\ Collects(outputs, PairsIn(M))
<1> DEFINE V == {v \in OutputLists(C, S) : \E p : Collects(v, p)}
           n == Cardinality(M)
<1>1. PICK m : m = SortedBy(M, ById(M))
  OBVIOUS
<1>2. Lists(m, M, ById(M)) /\ n \in Nat
  BY <1>1, ByIdOrders, SortedByFact, FS_CardinalityType DEF FitCases
<1> HIDE DEF n
<1>3. DOMAIN m = 1..n /\ (\A k \in 1..n : m[k] \in M) /\ (\A c \in M : \E i \in 1..n : m[i] = c)
  BY <1>2 DEF Lists, n
<1>4. ASSUME NEW c \in M, NEW v \in OutputLists(C, S), NEW p, Collects(v, p)
      PROVE  AddImages(v, c) \in OutputLists(C, S) /\ Collects(AddImages(v, c), p \cup CasePairs(c))
  <2>1. c.source \in S /\ c.images \in Seq(ToSet(c.images)) /\ ToSet(c.images) \subseteq C
    BY DEF FitCases
  <2> QED BY <1>4, <2>1, AddImagesCollects
<1>5. <<>> \in OutputLists(C, S) /\ Collects(<<>>, {})
  BY DEF OutputLists, Collects
<1>6. <<>> \in V
  BY <1>5
<1>7. AdditiveCases(m, n, V)
  <2> SUFFICES ASSUME NEW k \in 1..n, NEW v \in V PROVE AddImages(v, m[k]) \in V
    BY <1>2, <1>3 DEF AdditiveCases
  <2>1. PICK p : Collects(v, p)
    OBVIOUS
  <2>2. PICK c \in M : c = m[k]
    BY <1>3
  <2>3. AddImages(v, c) \in OutputLists(C, S) /\ Collects(AddImages(v, c), p \cup CasePairs(c))
    BY <1>4, <2>1
  <2> QED BY <2>2, <2>3
<1> HIDE DEF V
<1>8. PICK h : Accumulates(h, n, V, <<>>, CaseStep(m, n, V)) /\ FoldLeft(AddImages, <<>>, m) = h[n]
  BY <1>6, <1>7, CasesFold
<1> DEFINE T == {k \in 0..n : h[k] \in OutputLists(C, S) /\ Collects(h[k], PairsOfFirst(m, k))}
<1>9. 0 \in T
  <2>1. PairsOfFirst(m, 0) = {}
    BY DEF PairsOfFirst
  <2>2. h[0] = <<>>
    BY <1>8 DEF Accumulates
  <2>3. h[0] \in OutputLists(C, S) /\ Collects(h[0], PairsOfFirst(m, 0))
    BY <1>5, <2>1, <2>2
  <2>4. 0 \in 0..n
    BY <1>2
  <2> QED BY <2>3, <2>4
<1>10. ASSUME NEW k \in 0..(n-1), k \in T PROVE k + 1 \in T
  <2>1. k \in Nat /\ k \in 0..n /\ k + 1 \in 1..n /\ k + 1 \in 0..n /\ (k + 1) - 1 = k
    BY <1>2
  <2>2. h[k] \in V /\ h[k + 1] = CaseStep(m, n, V)[<<h[k], k + 1>>]
    BY <1>8, <2>1 DEF Accumulates
  <2>3. h[k + 1] = AddImages(h[k], m[k + 1])
    BY <2>1, <2>2 DEF CaseStep
  <2>4. PICK more : more = PairsOfFirst(m, k)
    OBVIOUS
  <2>5. PairsOfFirst(m, k + 1) = more \cup CasePairs(m[k + 1])
    <3>1. 1..(k + 1) = (1..k) \cup {k + 1}
      BY <2>1
    <3> QED BY <2>4, <3>1 DEF PairsOfFirst
  <2>6. PICK old \in OutputLists(C, S) : old = h[k] /\ Collects(old, more)
    BY <1>10, <2>4
  <2>7. PICK c \in M : c = m[k + 1]
    BY <1>3, <2>1
  <2>8. AddImages(old, c) \in OutputLists(C, S) /\ Collects(AddImages(old, c), more \cup CasePairs(c))
    BY <1>4, <2>6
  <2> QED BY <2>1, <2>3, <2>5, <2>6, <2>7, <2>8
<1>11. \A k \in 0..n : k \in T
  <2> HIDE DEF T
  <2> QED BY <1>2, <1>9, <1>10, BoundedInduction
<1>12. n \in T
  <2> HIDE DEF T
  <2>1. n \in 0..n
    BY <1>2
  <2> QED BY <1>11, <2>1
<1>13. PairsOfFirst(m, n) = PairsIn(M)
  BY <1>3 DEF PairsOfFirst, PairsIn
<1> QED BY <1>1, <1>8, <1>12, <1>13

\* Cases that one code made of the files of one release.
MadeOnce(found) == \E i, j \in DOMAIN Releases : found = BuildIndex(Releases[i], Releases[j])

\* A cached index and a repository that groups or serves are of one commit and one code.
PreviewInv ==
  /\ released \in DOMAIN Releases
  /\ index.key # NoKey => MadeOnce(index.cases)
  /\ preview = [pc |-> preview.pc, key |-> preview.key, cases |-> preview.cases, blocked |-> preview.blocked,
                imported |-> preview.imported, ledger |-> preview.ledger]
  /\ preview.imported \in DOMAIN Releases
  /\ preview.pc = "keyed" => preview.key # NoKey
  /\ preview.pc \in {"grouping", "serving"} => MadeOnce(preview.cases)

\* The process and its cache are empty at first.
LEMMA PreviewInitially == Init => PreviewInv
BY PreviewAssumption DEF Init, PreviewInit, PreviewInv, NoIndex, NoPreview

\* A key that matches belongs to an index that one release made; a rebuild makes one.
LEMMA PreviewKeeps == PreviewInv /\ [Next]_vars => PreviewInv'
<1>1. ASSUME PreviewInv, UNCHANGED previewVars
      PROVE  PreviewInv'
  BY <1>1 DEF PreviewInv, MadeOnce, previewVars
<1>2. ASSUME PreviewInv, NEW release \in DOMAIN Releases, Deploy(release)
      PROVE  PreviewInv'
  BY <1>2 DEF PreviewInv, MadeOnce, Deploy
<1>3. ASSUME PreviewInv, BeginPreview
      PROVE  PreviewInv'
  <2> DEFINE key == CacheKey(Releases[released], Releases[preview.imported])
  <2>1. preview' = [pc |-> "keyed", key |-> key, cases |-> preview.cases, blocked |-> preview.blocked,
                    imported |-> preview.imported, ledger |-> preview.ledger]
    BY <1>3 DEF BeginPreview, PreviewInv
  <2>2. key # NoKey
    BY <1>3, PreviewAssumption DEF PreviewInv
  <2>3. UNCHANGED <<released, index>>
    BY <1>3 DEF BeginPreview
  <2> HIDE DEF key
  <2> QED BY <1>3, <2>1, <2>2, <2>3 DEF PreviewInv, MadeOnce
<1>4. ASSUME PreviewInv, TakeIndex
      PROVE  PreviewInv'
  <2>1. preview' = [pc |-> "grouping", key |-> preview.key, cases |-> index.cases, blocked |-> preview.blocked,
                    imported |-> preview.imported, ledger |-> preview.ledger]
    BY <1>4 DEF TakeIndex, PreviewInv
  <2>2. UNCHANGED <<released, index>> /\ MadeOnce(index.cases)
    BY <1>4 DEF TakeIndex, PreviewInv
  <2> QED BY <1>4, <2>1, <2>2 DEF PreviewInv, MadeOnce
<1>5. ASSUME PreviewInv, RebuildIndex
      PROVE  PreviewInv'
  <2> DEFINE made == BuildIndex(Releases[released], Releases[preview.imported])
  <2>1. preview' = [pc |-> "grouping", key |-> preview.key, cases |-> made, blocked |-> preview.blocked,
                    imported |-> preview.imported, ledger |-> preview.ledger]
    BY <1>5 DEF RebuildIndex, PreviewInv
  <2>2. UNCHANGED released /\ index' = [key |-> preview.key, cases |-> made] /\ MadeOnce(made)
    BY <1>5 DEF RebuildIndex, PreviewInv, MadeOnce
  <2> HIDE DEF made
  <2> QED BY <1>5, <2>1, <2>2 DEF PreviewInv, MadeOnce
<1>6. ASSUME PreviewInv, UNCHANGED <<released, index>>, NEW n \in DOMAIN Releases, NEW ledger,
             preview' = NoPreview(n, ledger)
      PROVE  PreviewInv'
  BY <1>6 DEF PreviewInv, MadeOnce, NoPreview
<1>7. ASSUME PreviewInv, Group
      PROVE  PreviewInv'
  <2> DEFINE read == IF preview.ledger = 0 THEN released ELSE preview.ledger
  <2>1. UNCHANGED <<released, index>> /\ preview.pc = "grouping" /\ preview.imported \in DOMAIN Releases
    BY <1>7 DEF Group, PreviewInv
  <2>2. CASE preview' = NoPreview(preview.imported, read)
    BY <1>6, <1>7, <2>1, <2>2
  <2>3. CASE preview' = [preview EXCEPT !.pc = "serving", !.blocked = Releases[read].blocked, !.ledger = read]
    <3>1. preview' = [pc |-> "serving", key |-> preview.key, cases |-> preview.cases,
                      blocked |-> Releases[read].blocked, imported |-> preview.imported, ledger |-> read]
      BY <1>7, <2>3 DEF PreviewInv
    <3> HIDE DEF read
    <3> QED BY <1>7, <2>1, <3>1 DEF PreviewInv, MadeOnce
  <2> QED BY <1>7, <2>2, <2>3 DEF Group
<1>10. ASSUME PreviewInv, AbandonPreview \/ RestartPreview
       PROVE  PreviewInv'
  BY <1>6, <1>10 DEF PreviewInv, AbandonPreview, RestartPreview
<1>8. ASSUME PreviewInv, PreviewNext
      PROVE  PreviewInv'
  BY <1>2, <1>3, <1>4, <1>5, <1>7, <1>8, <1>10 DEF PreviewNext
<1>9. [Next]_vars => UNCHANGED previewVars \/ PreviewNext
  <2>1. UNCHANGED vars \/ Tick => UNCHANGED previewVars
    BY DEF vars, Tick
  <2>2. LoginNext \/ ReviewNext => UNCHANGED previewVars
    BY DEF LoginNext, ReviewNext, Reviewing, OnlySessions, OnlyReviews
  <2>3. Publication1Next \/ Publication2Next \/ PublicApiNext => UNCHANGED previewVars
    BY DEF Publication1Next, Publication2Next, PublicApiNext, OnlyPublication
  <2>4. IdentityNext \/ StoreNext \/ MirrorNext => UNCHANGED previewVars
    BY DEF IdentityNext, StoreNext, MirrorNext, OnlyIdentity, OnlyStore, OnlyMirror
  <2> QED BY <2>1, <2>2, <2>3, <2>4 DEF Next
<1> QED BY <1>1, <1>8, <1>9

\* The contents and sources of the cases a repository has.
ServedContents == UNION {ToSet(c.images) : c \in preview.cases}
ServedSources == {c.source : c \in preview.cases}

\* Cases of an index have an id and images of their own.
LEMMA MadeFit ==
  ASSUME MadeOnce(preview.cases)
  PROVE  /\ FitCases(preview.cases, ServedContents, ServedSources)
         /\ \A c \in preview.cases : c.images # <<>>
<1>1. PICK r, n : preview.cases = BuildIndex(r, n)
  BY DEF MadeOnce
<1> DEFINE D == {d \in PreviewCases : d.commit = r.commit}
           made(c) == [id |-> c.id, source |-> c.source, prompt |-> c.prompt, images |-> c.images, code |-> n.code]
<1>2. preview.cases = {made(c) : c \in D}
  BY <1>1 DEF BuildIndex
<1>3. IsFiniteSet(D)
  BY PreviewAssumption, FS_Subset
<1>4. IsFiniteSet(preview.cases)
  <2> DEFINE f == [c \in D |-> made(c)]
  <2>1. IsImage(preview.cases, f, D)
    BY <1>2 DEF IsImage
  <2> HIDE DEF f, D
  <2> QED BY <1>3, <2>1, ImageIsFinite
<1>5. ASSUME NEW c \in preview.cases
      PROVE  /\ c.id \in Int /\ c.source \in ServedSources
             /\ c.images \in Seq(ToSet(c.images)) /\ ToSet(c.images) \subseteq ServedContents
             /\ c.images # <<>>
  <2>1. PICK d \in PreviewCases : c = made(d)
    BY <1>2
  <2>2. c.id = d.id /\ c.images = d.images
    BY <2>1
  <2>3. c.id \in Int /\ c.images \in Seq(ToSet(c.images)) /\ c.images # <<>>
    BY <2>2, PreviewAssumption
  <2> QED BY <2>3 DEF ServedSources, ServedContents
<1>6. ASSUME NEW c \in preview.cases, NEW d \in preview.cases, c.id = d.id
      PROVE  c = d
  <2>1. PICK p \in PreviewCases, q \in PreviewCases : c = made(p) /\ d = made(q)
    BY <1>2
  <2>2. p.id = q.id
    BY <1>6, <2>1
  <2> QED BY <2>1, <2>2, PreviewAssumption
<1> QED BY <1>4, <1>5, <1>6 DEF FitCases

\* The pairs of some cases.
LEMMA PairFact ==
  ASSUME NEW M, NEW s, NEW x
  PROVE  <<s, x>> \in PairsIn(M) <=> \E c \in M : c.source = s /\ x \in ToSet(c.images)
<1>1. ASSUME <<s, x>> \in PairsIn(M)
      PROVE  \E c \in M : c.source = s /\ x \in ToSet(c.images)
  <2>1. PICK c \in M : <<s, x>> \in CasePairs(c)
    BY <1>1 DEF PairsIn
  <2> QED BY <2>1 DEF CasePairs, ToSet
<1>2. ASSUME NEW c \in M, c.source = s, x \in ToSet(c.images)
      PROVE  <<s, x>> \in PairsIn(M)
  <2>1. <<s, x>> \in CasePairs(c)
    BY <1>2 DEF CasePairs, ToSet
  <2> QED BY <2>1 DEF PairsIn
<1> QED BY <1>1, <1>2

\* The group of a prompt has each content of its eligible cases once.
LEMMA GroupFact ==
  ASSUME MadeOnce(preview.cases), NEW p
  PROVE  /\ FitCases(MembersOf(p), ServedContents, ServedSources)
         /\ GroupOutputs(p) \in OutputLists(ServedContents, ServedSources)
         /\ Collects(GroupOutputs(p), PairsIn(MembersOf(p)))
<1>1. MembersOf(p) \subseteq preview.cases
  BY DEF MembersOf, Eligible
<1>2. FitCases(MembersOf(p), ServedContents, ServedSources)
  BY <1>1, MadeFit, FS_Subset DEF FitCases
<1> QED BY <1>2, GroupCollects DEF GroupOutputs

\* What the property asks of the outputs that are listed with a prompt.
ContentsListed(p, source) == {GroupOutputs(p)[i].content : i \in ListedOutputs(p, source)}

\* They are the contents of the listed cases,
LEMMA ListedContentsFact ==
  ASSUME MadeOnce(preview.cases), NEW p, NEW source
  PROVE  ContentsListed(p, source) = UNION {ToSet(c.images) : c \in ListedMembers(p, source)}
<1> DEFINE M == MembersOf(p)
<1>1. PICK outs : outs = GroupOutputs(p)
  OBVIOUS
<1>2. FitCases(M, ServedContents, ServedSources) /\ Collects(outs, PairsIn(M))
  BY <1>1, GroupFact
<1>3. ListedOutputs(p, source) = {i \in DOMAIN outs : source = "all" \/ source \in outs[i].sources}
  BY <1>1 DEF ListedOutputs
<1>4. \A s, x : <<s, x>> \in PairsIn(M) <=> \E c \in M : c.source = s /\ x \in ToSet(c.images)
  BY PairFact, Zenon
<1>5. ASSUME NEW i \in ListedOutputs(p, source)
      PROVE  \E c \in ListedMembers(p, source) : outs[i].content \in ToSet(c.images)
  <2>1. i \in DOMAIN outs /\ (source = "all" \/ source \in outs[i].sources)
    BY <1>3
  <2>2. CASE source = "all"
    <3>1. PICK s : <<s, outs[i].content>> \in PairsIn(M)
      BY <1>2, <2>1 DEF Collects
    <3>2. PICK c \in M : c.source = s /\ outs[i].content \in ToSet(c.images)
      BY <1>4, <3>1
    <3> QED BY <2>2, <3>2 DEF ListedMembers, Wanted
  <2>3. CASE source \in outs[i].sources
    <3>1. <<source, outs[i].content>> \in PairsIn(M)
      BY <1>2, <2>1, <2>3 DEF Collects
    <3>2. PICK c \in M : c.source = source /\ outs[i].content \in ToSet(c.images)
      BY <1>4, <3>1
    <3> QED BY <3>2 DEF ListedMembers, Wanted
  <2> QED BY <2>1, <2>2, <2>3
<1>6. ASSUME NEW c \in ListedMembers(p, source), NEW x \in ToSet(c.images)
      PROVE  \E i \in ListedOutputs(p, source) : outs[i].content = x
  <2>1. c \in M /\ source \in {"all", c.source}
    BY DEF ListedMembers, Wanted
  <2>2. <<c.source, x>> \in PairsIn(M)
    BY <1>4, <2>1
  <2>3. PICK i \in DOMAIN outs : outs[i].content = x
    BY <1>2, <2>2 DEF Collects
  <2>4. c.source \in outs[i].sources
    BY <1>2, <2>2, <2>3 DEF Collects
  <2> QED BY <1>3, <2>1, <2>3, <2>4
<1> QED BY <1>1, <1>5, <1>6 DEF ContentsListed

\* each listed once,
LEMMA ListedOnce ==
  ASSUME MadeOnce(preview.cases), NEW p, NEW source
  PROVE  Cardinality(ContentsListed(p, source)) = Cardinality(ListedOutputs(p, source))
<1>1. PICK outs : outs = GroupOutputs(p)
  OBVIOUS
<1>2. outs \in OutputLists(ServedContents, ServedSources) /\ Collects(outs, PairsIn(MembersOf(p)))
  BY <1>1, GroupFact
<1>3. PICK L : L = ListedOutputs(p, source)
  OBVIOUS
<1>4. L \subseteq DOMAIN outs
  BY <1>1, <1>3 DEF ListedOutputs
<1>5. IsFiniteSet(L)
  <2>1. DOMAIN outs = 1..Len(outs) /\ Len(outs) \in Nat
    BY <1>2 DEF OutputLists
  <2>2. IsFiniteSet(1..Len(outs))
    BY <2>1, IntervalFact
  <2> QED BY <1>4, <2>1, <2>2, FS_Subset
<1> DEFINE f == [i \in L |-> outs[i].content]
           T == {outs[i].content : i \in L}
<1>6. f \in Bijection(L, T)
  <2>1. f \in Surjection(L, T)
    BY DEF Surjection
  <2>2. f \in Injection(L, T)
    BY <1>2, <1>4 DEF Injection, IsInjective, Collects
  <2> QED BY <2>1, <2>2 DEF Bijection
<1>7. Cardinality(T) = Cardinality(L)
  <2>1. ExistsBijection(L, T)
    BY <1>6 DEF ExistsBijection
  <2> HIDE DEF T
  <2> QED BY <1>5, <2>1, FS_Bijection
<1> QED BY <1>1, <1>3, <1>7 DEF ContentsListed

\* and every eligible case the filter wants is in the group of its prompt.
LEMMA NoneIsLost ==
  ASSUME MadeOnce(preview.cases), NEW source
  PROVE  {c \in Eligible : Wanted(c, source)} = UNION {ListedMembers(p, source) : p \in ListedPrompts(source)}
<1>1. ASSUME NEW c \in Eligible, Wanted(c, source)
      PROVE  c.prompt \in ListedPrompts(source) /\ c \in ListedMembers(c.prompt, source)
  <2>1. PICK p : p = c.prompt
    OBVIOUS
  <2>2. p \in Prompts /\ c \in ListedMembers(p, source)
    BY <1>1, <2>1 DEF Prompts, ListedMembers, MembersOf
  <2>3. c \in preview.cases
    BY DEF Eligible
  <2>4. c.images # <<>> /\ c.images \in Seq(ToSet(c.images))
    BY <2>3, MadeFit DEF FitCases
  <2>5. PICK x : x \in ToSet(c.images)
    <3>1. PICK images, X : images = c.images /\ images \in Seq(X) /\ images # <<>>
      BY <2>4
    <3>2. 1 \in DOMAIN images
      BY <3>1
    <3> QED BY <3>1, <3>2 DEF ToSet
  <2>6. x \in ContentsListed(p, source)
    BY <2>2, <2>5, ListedContentsFact
  <2>7. ListedOutputs(p, source) # {}
    BY <2>6 DEF ContentsListed
  <2> QED BY <2>1, <2>2, <2>7 DEF ListedPrompts
<1>2. \A p : \A c \in ListedMembers(p, source) : c \in Eligible /\ Wanted(c, source)
  BY DEF ListedMembers, MembersOf
<1> QED BY <1>1, <1>2

\* The invariant is what the property asks, with the facts on groups.
LEMMA PreviewByInvariant == PreviewInv => PreviewIsEligible
<1> SUFFICES ASSUME PreviewInv, preview.pc = "serving"
             PROVE  /\ \E i, j \in DOMAIN Releases : preview.cases = BuildIndex(Releases[i], Releases[j])
                    /\ \A source \in {"all"} \cup {c.source : c \in preview.cases} :
                         /\ {c \in Eligible : Wanted(c, source)} =
                              UNION {ListedMembers(p, source) : p \in ListedPrompts(source)}
                         /\ \A p \in ListedPrompts(source) :
                              /\ Cardinality(ContentsListed(p, source)) = Cardinality(ListedOutputs(p, source))
                              /\ ContentsListed(p, source) = UNION {ToSet(c.images) : c \in ListedMembers(p, source)}
  BY DEF PreviewIsEligible, ContentsListed
<1>1. MadeOnce(preview.cases)
  BY DEF PreviewInv
<1> QED BY <1>1, NoneIsLost, ListedOnce, ListedContentsFact DEF MadeOnce

\* A repository serves every eligible case of one commit, in the group of its prompt,
\* with each content once: for any cases, releases, ledgers and filters, whatever is
\* deployed while it is built.
THEOREM PreviewAlwaysEligible == Spec => []PreviewIsEligible
BY PreviewInitially, PreviewKeeps, PreviewByInvariant, PTL DEF Spec
=============================================================================
