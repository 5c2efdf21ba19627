------------------------------- MODULE Reviews -------------------------------
(***************************************************************************)
(* Rights review v2: the queue, the submission of a review and the public  *)
(* candidate (content/review.py, content/review_store.py) under the fixed  *)
(* quality ledger (content/quality.py). A submission holds the locks of    *)
(* its project and its case version from its first check to its commit, so *)
(* it is one step; PublicationV2 has those locks one by one. What happens  *)
(* around it is not: a reviewer decides on what a page showed, and sends   *)
(* the same request again when the answer does not arrive.                 *)
(*                                                                         *)
(* Texts are their kinds: plain words, a namespaced id, a repository path, *)
(* a drive path, a public https URL, another network URL, a private        *)
(* locator.                                                                *)
(***************************************************************************)
EXTENDS AdminSessions, Sequences

CONSTANTS
  Scripted,   \* reviewers whose requests are files, with a time of review in them
  Versions,   \* source case versions
  RevisionOf, \* RevisionOf[v]: the revision that made the version
  Facts,      \* Facts[v]: outputs and the kinds of the texts of its source
  Forms,      \* Forms[v]: the decisions somebody may send about a version
  KeysOf,     \* KeysOf[r]: idempotency keys reviewer r may send
  FileTimes,  \* times of review a file may state
  Ledgers     \* Ledgers[i]: the quality ledger after i deployments

ASSUME ReviewsAssumption ==
  /\ FileTimes \subseteq Int
  /\ \A v \in Versions : IsFiniteSet(Facts[v].outputs)

VARIABLES
  ready,      \* the latest ready revision
  deployed,   \* deployments of another quality ledger so far
  batches,    \* content.rights_review_batches_v2 with their decisions, by id
  request     \* what each reviewer has seen, sent and been told

reviewVars == <<ready, deployed, batches, request>>

\* people with one request at a time: in a browser, or as a file
Reviewers == Browsers \cup Scripted

Nobody == 0
NoForm == [prompt |-> "unknown", author |-> "plain", decisions |-> <<>>]
NoReview == [target |-> 0, key |-> 0, expected |-> Nobody, at |-> 0, by |-> "nobody", form |-> NoForm]
NoRequest == [pc |-> "idle", review |-> NoReview, answer |-> "none", batch |-> Nobody, state |-> "none"]

\* recorded: the reviews of the time before
ReviewInit(recorded) ==
  /\ ready = 1
  /\ deployed = 0
  /\ batches = recorded
  /\ request = [r \in Reviewers |-> NoRequest]

-----------------------------------------------------------------------------
(* What a text may be in public.                                           *)

\* _public_identity_text: no network or private scheme; a drive letter passes
Identity(kind) == kind \in {"plain", "namespaced", "path", "drive"}
\* _public_metadata_text: no scheme at all
Metadata(kind) == kind \in {"plain", "path"}
\* _public_source_path: relative to the repository
SourcePath(kind) == kind \in {"plain", "path"}
\* _public_https_url
HttpsUrl(kind) == kind = "https"
\* _reject_private_locator_values, for every text of the facts and the review
NotPrivate(kind) == kind # "private"

-----------------------------------------------------------------------------
(* Quality.                                                                *)

Ledger == Ledgers[deployed]
\* the queue asks for the identity of the case version only
QueueVerdict(v) == IF \E d \in Ledger : d.version = v THEN "blocked" ELSE "eligible"
\* anything else compares the prompt and the images with the ledger first
FactsVerdict(v) ==
  IF \E d \in Ledger : d.version = v /\ ~d.matches THEN "drifted" ELSE QueueVerdict(v)

-----------------------------------------------------------------------------
(* The state of a review and its candidate.                                *)

PublicRoles == {"public_primary", "public_gallery"}
PublicPolicies == {"mirror_allowed", "attribution_required", "link_only"}

\* OutputReviewDecision.normalized
Consistent(d) ==
  /\ d.role \in PublicRoles \cup {"hidden"}
  /\ d.role \in PublicRoles => d.rights = "approved" /\ d.policy \in PublicPolicies

Chosen(form, role) == {o \in DOMAIN form.decisions : form.decisions[o].role = role}

\* mutant: any approved prompt with a primary or a gallery image
EffectiveStateAnyImage(form) ==
  LET of == {form.decisions[o] : o \in DOMAIN form.decisions}
  IN CASE form.prompt \in {"blocked", "internal_only"} -> form.prompt
       [] form.prompt = "approved" /\ \E d \in of : d.role \in PublicRoles -> "publishable"
       [] OTHER -> "review_required"
\* effective_review_state
EffectiveState(form) ==
  LET of == {form.decisions[o] : o \in DOMAIN form.decisions}
      hidden(d) == d.role = "hidden" /\ "internal_only" \in {d.rights, d.policy}
      blocked(d) == "blocked" \in {d.rights, d.policy}
  IN CASE form.prompt \in {"blocked", "internal_only"} -> form.prompt
       [] form.prompt = "approved" /\ Cardinality(Chosen(form, "public_primary")) = 1 -> "publishable"
       [] OTHER -> CASE \A d \in of : blocked(d) -> "blocked"
                     [] (\E d \in of : ~blocked(d)) /\ (\A d \in of : hidden(d)) -> "internal_only"
                     [] OTHER -> "review_required"

\* newest by reviewed_at, then by id
Latest(v) ==
  LET of == {b \in DOMAIN batches : batches[b].target = v}
  IN IF of = {} THEN Nobody
     ELSE CHOOSE b \in of : \A c \in of :
            batches[c].at < batches[b].at \/ (batches[c].at = batches[b].at /\ c <= b)

StateUnder(v, verdict) ==
  IF verdict = "blocked" THEN "blocked"
  ELSE IF Latest(v) = Nobody THEN "pending" ELSE EffectiveState(batches[Latest(v)].form)

\* mutant: the list shows the review alone
QueueStateOfReview(v) == StateUnder(v, "eligible")
\* list_queue, of the latest ready revision
QueueState(v) == StateUnder(v, QueueVerdict(v))
\* latest_ready_revision_selection, of one source
Selection == {ready}
InQueue(v) == RevisionOf[v] \in Selection

\* build_public_case_candidate. A review states its author as any text, and the
\* candidate asks for a public identity.
SourceTextsPublic(v) ==
  LET t == Facts[v].texts
  IN /\ \A field \in DOMAIN t : NotPrivate(t[field])
     /\ Identity(t.identity)
     /\ Metadata(t.model)
     /\ SourcePath(t.promptPath) /\ HttpsUrl(t.promptUrl)
OutputTextsPublic(v) ==
  LET t == Facts[v].texts
  IN SourcePath(t.outputPath) /\ HttpsUrl(t.outputUrl) /\ Metadata(t.location)
AuthorPublic(v) == Latest(v) # Nobody => Identity(batches[Latest(v)].form.author)

Shown(v, state) ==
  IF state # "publishable" THEN {}
  ELSE {o \in Facts[v].outputs : batches[Latest(v)].form.decisions[o].role # "hidden"}

InvalidCandidate == [state |-> "candidate_invalid", version |-> 0, batch |-> Nobody, shown |-> {}]
Candidate(v) ==
  LET state == StateUnder(v, FactsVerdict(v))
      shown == Shown(v, state)
  IN IF SourceTextsPublic(v) /\ AuthorPublic(v) /\ (shown # {} => OutputTextsPublic(v))
     THEN [state |-> state, version |-> v, batch |-> Latest(v), shown |-> shown]
     ELSE InvalidCandidate

-----------------------------------------------------------------------------
(* Reviewing.                                                              *)

Step(r, pc) == request[r].pc = pc
\* inspect_batch: the state is that of the review, whatever the ledger says
InspectedState(log, b) == IF b \in DOMAIN log THEN EffectiveState(log[b].form) ELSE "none"
Tell(r, answer, batch) ==
  request' = [request EXCEPT ![r] =
    [@ EXCEPT !.pc = "told", !.answer = answer, !.batch = batch, !.state = InspectedState(batches', batch)]]

\* a file reaches the store by the command line
Allowed(r, roles) == r \notin Scripted => Admission(r, roles, TRUE, TRUE) = "admitted"

\* inspect_subject: ready facts of any revision, and the latest batch; a ledger
\* that does not match the facts makes the subject unreadable
Open(r, v) ==
  /\ request[r].pc \in {"idle", "told"}
  /\ r \notin Scripted => SessionValid(r)
  /\ RevisionOf[v] <= ready
  /\ FactsVerdict(v) # "drifted"
  /\ request' = [request EXCEPT ![r] =
       [NoRequest EXCEPT !.pc = "deciding",
                         !.review = [NoReview EXCEPT !.target = v, !.expected = Latest(v)]]]
  /\ UNCHANGED <<ready, deployed, batches>>

Proposals(r) == IF Step(r, "deciding") THEN Forms[request[r].review.target] ELSE {}

Signed(r, form, key, at) ==
  [request[r].review EXCEPT !.key = key, !.at = at, !.by = r, !.form = form]
\* the service stamps a request when it arrives; a file has its own time
Send(r, form, key, at) ==
  /\ Step(r, "deciding")
  /\ Allowed(r, {"reviewer", "admin"})
  /\ key \in KeysOf[r]
  /\ at \in IF r \in Scripted THEN FileTimes ELSE {clock}
  /\ request' = [request EXCEPT ![r] = [@ EXCEPT !.pc = "sent", !.review = Signed(r, form, key, at)]]
  /\ UNCHANGED <<ready, deployed, batches>>

\* the answers of get_reviewer, before anything is read
SendForbidden(r) ==
  /\ Step(r, "deciding")
  /\ ~Allowed(r, {"reviewer", "admin"})
  /\ request' = [request EXCEPT ![r] =
       [NoRequest EXCEPT !.pc = "told", !.answer = Admission(r, {"reviewer", "admin"}, TRUE, TRUE)]]
  /\ UNCHANGED <<ready, deployed, batches>>

\* _output_ids: of a case version of a ready run, or of the latest ready run
OutputIds(v, latest) ==
  IF RevisionOf[v] <= ready /\ (latest => InQueue(v)) THEN Facts[v].outputs ELSE {}

\* ReviewSubmission.normalized
Normal(s, outputs) ==
  /\ s.at <= clock
  /\ DOMAIN s.form.decisions = outputs
  /\ \A o \in DOMAIN s.form.decisions : Consistent(s.form.decisions[o])
  /\ Cardinality(Chosen(s.form, "public_primary")) <= 1
  /\ s.form.author # ""

\* submission_digest: all but the key
SameFacts(s, t) == [s EXCEPT !.key = 0] = [t EXCEPT !.key = 0]

Bound(key) == {b \in DOMAIN batches : batches[b].key = key}

\* mutant: a known key is answered without a look at what it was used for
ReplayAnswerByKey(s) == "verified_existing"
ReplayAnswer(s) ==
  LET known == CHOOSE b \in Bound(s.key) : TRUE
      historical == OutputIds(s.target, FALSE)
  IN CASE batches[known].target # s.target \/ historical = {} -> "idempotency_conflict"
       [] batches[known].target = s.target /\ historical # {} /\ ~Normal(s, historical) -> "invalid"
       [] OTHER -> IF SameFacts(batches[known], s) THEN "verified_existing" ELSE "idempotency_conflict"

\* the key is known: the batch is the answer, of whatever revision it is
SubmitAgain(r) ==
  /\ Step(r, "sent")
  /\ Bound(request[r].review.key) # {}
  /\ UNCHANGED <<ready, deployed, batches>>
  /\ Tell(r, ReplayAnswer(request[r].review), CHOOSE b \in Bound(request[r].review.key) : TRUE)

\* assert_quality_submission_compatible, which has nothing left to refuse
Compatible(s) ==
  FactsVerdict(s.target) = "blocked" =>
    s.form.prompt # "approved" /\ \A role \in PublicRoles : Chosen(s.form, role) = {}

\* in the order of submit_review and of the trigger on its insert
Refusal(s) ==
  LET last == Latest(s.target)  outputs == OutputIds(s.target, TRUE)
  IN CASE FactsVerdict(s.target) = "drifted" -> "quality_invalid"
       [] FactsVerdict(s.target) = "blocked" -> "content_quality_blocked"
       [] FactsVerdict(s.target) = "eligible" ->
            CASE outputs = {} -> "target_missing"
              [] outputs # {} /\ ~Normal(s, outputs) -> "invalid"
              [] ~Compatible(s) -> "content_quality_blocked"
              [] OTHER -> CASE last # s.expected -> "stale"
                            [] last = s.expected /\ last # Nobody /\ s.at < batches[last].at -> "invalid"
                            [] OTHER -> "none"

SubmitRefused(r) ==
  /\ Step(r, "sent")
  /\ Bound(request[r].review.key) = {}
  /\ Refusal(request[r].review) # "none"
  /\ UNCHANGED <<ready, deployed, batches>>
  /\ Tell(r, Refusal(request[r].review), Nobody)

SubmitRecorded(r) ==
  /\ Step(r, "sent")
  /\ Bound(request[r].review.key) = {}
  /\ Refusal(request[r].review) = "none"
  /\ batches' = Append(batches, request[r].review)
  /\ Tell(r, "recorded", Len(batches) + 1)
  /\ UNCHANGED <<ready, deployed>>

\* the answer is lost; the request was executed or never arrived
AnswerLost(r) ==
  /\ request[r].pc \in {"sent", "told"}
  /\ request[r].review.key # 0
  /\ request' = [request EXCEPT ![r] = [@ EXCEPT !.pc = "unanswered", !.answer = "none", !.batch = Nobody, !.state = "none"]]
  /\ UNCHANGED <<ready, deployed, batches>>

\* a page stamps the second request anew; a file is the same request
SendAgain(r) ==
  /\ Step(r, "unanswered")
  /\ Allowed(r, {"reviewer", "admin"})
  /\ request' = [request EXCEPT ![r] =
       [@ EXCEPT !.pc = "sent",
                 !.review = IF r \in Scripted THEN request[r].review
                            ELSE [request[r].review EXCEPT !.at = clock]]]
  /\ UNCHANGED <<ready, deployed, batches>>

\* a newer revision becomes ready under the lock of its project
ImportNext ==
  /\ \E v \in Versions : RevisionOf[v] = ready + 1
  /\ ready' = ready + 1
  /\ UNCHANGED <<deployed, batches, request>>

\* every process starts again with the ledger of the next release
DeployLedger ==
  /\ deployed + 1 \in DOMAIN Ledgers
  /\ deployed' = deployed + 1
  /\ UNCHANGED <<ready, batches, request>>

-----------------------------------------------------------------------------
\* a review was decided in sight of the one before it
Before(log, b) == {c \in 1 .. b - 1 : log[c].target = log[b].target}
InSight(log, b) ==
  IF Before(log, b) = {} THEN log[b].expected = Nobody
  ELSE log[b].expected = CHOOSE c \in Before(log, b) : \A d \in Before(log, b) : d <= c

\* A reviewer is told that a review is recorded, or was recorded before, only
\* if the batch says what the request said, and it was decided in sight of
\* the batch before it: nobody's review is replaced unseen, by a second
\* reviewer, a late answer, a repeated key or a file with an older time.
AcknowledgedIsRecorded ==
  /\ \A r \in Reviewers :
       request[r].answer \in {"recorded", "verified_existing"} =>
         /\ request[r].batch \in DOMAIN batches
         /\ batches[request[r].batch] = request[r].review
  /\ \A b \in DOMAIN batches : InSight(batches, b)

\* The list and the candidate of a case tell the same story: what the list
\* calls publishable is what a build would freeze with exactly one primary.
\* They part in two cases only: a text that may not be public, which a review
\* can bring in by itself, and a ledger that no longer matches the case.
QueueIsCandidate ==
  \A v \in Versions : InQueue(v) /\ FactsVerdict(v) # "drifted" =>
    LET c == Candidate(v)
    IN \/ /\ c.state = QueueState(v)
          /\ c.state = "publishable" =>
               /\ Cardinality(c.shown \cap Chosen(batches[c.batch].form, "public_primary")) = 1
               /\ \A o \in c.shown :
                    LET d == batches[c.batch].form.decisions[o]
                    IN d.rights = "approved" /\ d.policy \in PublicPolicies
       \/ /\ c = InvalidCandidate
          /\ ~SourceTextsPublic(v) \/ ~OutputTextsPublic(v) \/ ~AuthorPublic(v)
=============================================================================
