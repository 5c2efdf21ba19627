------------------------------- MODULE Services -------------------------------
(***************************************************************************)
(* The services together: logins and sessions (AdminSessions), the review  *)
(* of rights behind them (Reviews), and what a build makes of the reviews  *)
(* for the public (PublicApi), on one clock; the preview of what is not     *)
(* reviewed yet (InternalPreview); and the cases that sync calls group at  *)
(* the same time (CaseIdentity), the bucket they fill (ObjectStore), and    *)
(* the mirror they read from (GitMirror).                                  *)
(***************************************************************************)
EXTENDS PublicApi, InternalPreview, CaseIdentity, ObjectStore, GitMirror

CONSTANTS
  Horizon,   \* BOUND: Horizon[s]: the ticks of scene s; its domain is the scenes
  MaxBatches, \* BOUND: MaxBatches[s]: reviews recorded in scene s
  SignedIn,  \* users of the browsers when a scene begins, but for the login
  Recorded1, \* rights reviews recorded when the publication v1 scene begins
  Recorded2,  \* reviews recorded when the publication v2 scene begins
  Selections  \* explicit selections of sync calls

\* reviews as the log has them: of all its outputs, each in sight of the one before
\* it and none older than that
ReviewKeys == (UNION {KeysOf[r] : r \in Reviewers}) \cup {Recorded2[i].key : i \in DOMAIN Recorded2} \cup {0}
Authors == Reviewers \cup {Recorded2[i].by : i \in DOMAIN Recorded2} \cup {"nobody"}
ReviewForms == (UNION {Forms[v] : v \in Versions}) \cup {Recorded2[i].form : i \in DOMAIN Recorded2} \cup {NoForm}
ReviewRecords ==
  [target : Versions \cup {0}, key : ReviewKeys, expected : Int, at : Int, by : Authors, form : ReviewForms]
Newest(log, v, m) ==
  /\ m \in DOMAIN log /\ log[m].target = v
  /\ \A c \in DOMAIN log : log[c].target = v => c <= m /\ log[c].at <= log[m].at
Lawful(log) ==
  /\ log \in Seq(ReviewRecords)
  /\ \A b \in DOMAIN log :
       /\ DOMAIN log[b].form.decisions = Facts[log[b].target].outputs
       /\ \A o \in DOMAIN log[b].form.decisions : Consistent(log[b].form.decisions[o])
       /\ InSight(log, b)
       /\ \E m \in DOMAIN log : Newest(log, log[b].target, m)
ASSUME RecordedAssumption == Lawful(Recorded2)
\* reviews of v1 in any order of their times
EventForms == RightsForms \cup {Recorded1[i].form : i \in DOMAIN Recorded1}
EventRecords == [example : Examples, at : Int, form : EventForms]
NewestEvent(log, e, m) ==
  /\ m \in DOMAIN log /\ log[m].example = e
  /\ \A i \in DOMAIN log : log[i].example = e =>
       log[i].at < log[m].at \/ (log[i].at = log[m].at /\ i <= m)
Dated(log) ==
  /\ log \in Seq(EventRecords)
  /\ \A i \in DOMAIN log : \E m \in DOMAIN log : NewestEvent(log, log[i].example, m)
ASSUME EventsAssumption == Dated(Recorded1)

VARIABLE
  scene      \* BOUND: the operations that are used together in one behaviour

vars == <<clock, sessionVars, reviewVars, apiVars, previewVars, identityVars, storeVars, gitVars, scene>>

In(s) == scene = s /\ UNCHANGED <<clock, scene>>
OnlySessions == UNCHANGED <<reviewVars, apiVars, previewVars, identityVars, storeVars, gitVars>>
OnlyReviews == UNCHANGED <<sessionVars, apiVars, previewVars, identityVars, storeVars, gitVars>>
OnlyPublication == UNCHANGED <<sessionVars, reviewVars, previewVars, identityVars, storeVars, gitVars>>
OnlyPreview == UNCHANGED <<sessionVars, reviewVars, apiVars, identityVars, storeVars, gitVars>>
OnlyIdentity == UNCHANGED <<sessionVars, reviewVars, apiVars, previewVars, storeVars, gitVars>>
OnlyStore == UNCHANGED <<sessionVars, reviewVars, apiVars, previewVars, identityVars, gitVars>>
OnlyMirror == UNCHANGED <<sessionVars, reviewVars, apiVars, previewVars, identityVars, storeVars>>

Init ==
  /\ scene \in DOMAIN Horizon
  /\ SessionInit(IF scene = "login" THEN <<>> ELSE SignedIn)
  /\ ReviewInit(IF scene = "public2" THEN Recorded2 ELSE <<>>)
  /\ ApiInit(IF scene = "public1" THEN Recorded1 ELSE <<>>)
  /\ PreviewInit
  /\ IdentityInit
  /\ IF scene = "store" THEN StoreInit(Buckets, Strays) ELSE StoreInit({CHOOSE b \in Buckets : TRUE}, {<<>>})
  /\ MirrorInit /\ (scene # "mirror" => branch = FixedCommit)

Tick ==
  /\ clock < Horizon[scene]
  /\ clock' = clock + 1
  /\ UNCHANGED <<sessionVars, reviewVars, apiVars, previewVars, identityVars, storeVars, gitVars, scene>>

\* BOUND: requests as files in one scene only
Reviewing(r) ==
  /\ scene = "review" \/ (scene = "public2" /\ r \in Browsers)
  /\ In(scene) /\ OnlyReviews

\* the administration API: who may use it
LoginNext ==
  \/ \E b \in Browsers, u \in Users : In("login") /\ OnlySessions /\ BeginLogin(b, u)
  \/ \E b \in Browsers : In("login") /\ OnlySessions /\ CheckThrottle(b)
  \/ \E b \in Browsers : In("login") /\ OnlySessions /\ Accept(b)
  \/ \E b \in Browsers : In("login") /\ OnlySessions /\ Deny(b)
  \/ \E b \in Browsers : In("login") /\ OnlySessions /\ Logout(b)
  \/ In("login") /\ OnlySessions /\ Restart

\* reviews
ReviewNext ==
  \/ \E r \in Reviewers, v \in Versions : Reviewing(r) /\ Open(r, v)
  \/ \E r \in Reviewers, key \in UNION {KeysOf[q] : q \in Reviewers}, at \in Ticks :
       \E form \in Proposals(r) : Reviewing(r) /\ Send(r, form, key, at)
  \/ \E r \in Reviewers : Reviewing(r) /\ SendForbidden(r)
  \/ \E r \in Reviewers : Reviewing(r) /\ SubmitAgain(r)
  \/ \E r \in Reviewers : Reviewing(r) /\ SubmitRefused(r)
  \/ \E r \in Reviewers : Reviewing(r) /\ Len(batches) < MaxBatches[scene] /\ SubmitRecorded(r)
  \/ \E r \in Reviewers : In("review") /\ OnlyReviews /\ AnswerLost(r)
  \/ \E r \in Reviewers : In("review") /\ OnlyReviews /\ SendAgain(r)
  \/ In("review") /\ OnlyReviews /\ ImportNext
  \/ In("review") /\ OnlyReviews /\ DeployLedger

\* publication v1
Publication1Next ==
  \/ \E e \in Examples, form \in RightsForms, at \in Ticks :
       In("public1") /\ OnlyPublication /\ RecordRights(e, form, at)
  \/ \E e \in Examples : In("public1") /\ OnlyPublication /\ BlockKey(KeyOf[e])
  \/ In("public1") /\ OnlyPublication /\ BeginBuild1
  \/ In("public1") /\ OnlyPublication /\ Build1
  \/ \E v \in 1 .. MaxPublished : In("public1") /\ OnlyPublication /\ Switch1(v)

\* publication v2
Publication2Next ==
  \/ In("public2") /\ OnlyPublication /\ Build2
  \/ \E v \in 1 .. MaxPublished, rollback \in BOOLEAN :
       In("public2") /\ OnlyPublication /\ Switch2(v, rollback)
  \/ \E scope \in Takedowns : In("public2") /\ OnlyPublication /\ TakeDown(scope)

\* the public API
PublicApiNext ==
  \/ \E r \in Readers, ask \in Asks : In("public1") /\ OnlyPublication /\ ReadPointer(r, 1, ask)
  \/ \E r \in Readers, ask \in Asks : In("public2") /\ OnlyPublication /\ ReadPointer(r, 2, ask)
  \/ \E r \in Readers : In(scene) /\ OnlyPublication /\ Project(r)
  \/ \E r \in Readers : In(scene) /\ OnlyPublication /\ Locate1(r)
  \/ \E r \in Readers : In(scene) /\ OnlyPublication /\ Locate2(r)
  \/ \E r \in Readers : In(scene) /\ OnlyPublication /\ Fetch(r)

\* the internal preview
PreviewNext ==
  \/ \E release \in DOMAIN Releases : In("preview") /\ OnlyPreview /\ Deploy(release)
  \/ In("preview") /\ OnlyPreview /\ BeginPreview
  \/ In("preview") /\ OnlyPreview /\ TakeIndex
  \/ In("preview") /\ OnlyPreview /\ RebuildIndex
  \/ In("preview") /\ OnlyPreview /\ Group
  \/ In("preview") /\ OnlyPreview /\ AbandonPreview
  \/ In("preview") /\ OnlyPreview /\ RestartPreview

\* canonical cases
IdentityNext ==
  \/ \E s \in Sources : \E n \in DOMAIN Documents[s] : In("identity") /\ OnlyIdentity /\ ImportRevision(s, n)
  \/ \E w \in Canonicalizers, selection \in Selections :
       In("identity") /\ OnlyIdentity /\ BeginCanonicalize(w, selection)
  \/ \E w \in Canonicalizers : In("identity") /\ OnlyIdentity /\ BeginCanonicalizeAll(w)
  \/ \E w \in Canonicalizers : In("identity") /\ OnlyIdentity /\ TakeRow(w)
  \/ \E w \in Canonicalizers : In("identity") /\ OnlyIdentity /\ CommitCanonical(w)
  \/ \E w \in Canonicalizers : In("identity") /\ OnlyIdentity /\ DeadlockVictim(w)
  \/ \E w \in Canonicalizers : In("identity") /\ OnlyIdentity /\ GiveUp(w)
  \/ \E w \in Canonicalizers : In("identity") /\ OnlyIdentity /\ BuildSelection(w)

\* the object store
StoreNext ==
  \/ \E p \in Importers, c \in Pictures : In("store") /\ OnlyStore /\ BeginStore(p, c)
  \/ \E p \in Importers : In("store") /\ OnlyStore /\ Reach(p)
  \/ \E p \in Importers : In("store") /\ OnlyStore /\ Create(p)
  \/ \E p \in Importers : In("store") /\ OnlyStore /\ CheckPolicy(p)
  \/ \E p \in Importers : In("store") /\ OnlyStore /\ CheckStatus(p)
  \/ \E p \in Importers : In("store") /\ OnlyStore /\ CheckAcl(p)
  \/ \E p \in Importers : In("store") /\ OnlyStore /\ HeadObject(p)
  \/ \E p \in Importers : In("store") /\ OnlyStore /\ Download(p)
  \/ \E p \in Importers : In("store") /\ OnlyStore /\ Put(p)
  \/ \E p \in Importers : In("store") /\ OnlyStore /\ HeadAfter(p)
  \/ \E p \in Importers : In("store") /\ OnlyStore /\ Recheck(p)
  \/ \E p \in Importers, c \in Pictures : In("store") /\ OnlyStore /\ Reverify(p, c)
  \/ \E p \in Importers : In("store") /\ OnlyStore /\ StoreFails(p)
  \/ \E b \in Buckets : In("store") /\ OnlyStore /\ Reconfigure(b)

\* the mirror
MirrorNext ==
  \/ \E p \in Gits : In("mirror") /\ OnlyMirror /\ BeginDetect(p)
  \/ \E p \in Gits : In("mirror") /\ OnlyMirror /\ ListHead(p)
  \/ \E p \in Gits : In("mirror") /\ OnlyMirror /\ UpdateTip(p)
  \/ \E p \in Gits : In("mirror") /\ OnlyMirror /\ Resolve(p)
  \/ \E p \in Gits : In("mirror") /\ OnlyMirror /\ BeginFixed(p)
  \/ \E p \in Gits : In("mirror") /\ OnlyMirror /\ FetchExact(p)
  \/ \E p \in Gits : In("mirror") /\ OnlyMirror /\ Prove(p)
  \/ \E p \in Gits : In("mirror") /\ OnlyMirror /\ CheckOut(p)
  \/ \E p \in Gits : In("mirror") /\ OnlyMirror /\ CleanUp(p)
  \/ \E p \in Gits : In("mirror") /\ OnlyMirror /\ Keep(p)
  \/ \E p \in Gits : In("mirror") /\ OnlyMirror /\ GitFails(p)
  \/ \E p \in Gits : In("mirror") /\ OnlyMirror /\ KillGit(p)
  \/ In("mirror") /\ OnlyMirror /\ CollectGarbage
  \/ \E c \in Commits, forget \in BOOLEAN : In("mirror") /\ OnlyMirror /\ Move(c, forget)

Next ==
  \/ Tick
  \/ LoginNext
  \/ ReviewNext
  \/ Publication1Next
  \/ Publication2Next
  \/ PublicApiNext
  \/ PreviewNext
  \/ IdentityNext
  \/ StoreNext
  \/ MirrorNext

Spec == Init /\ [][Next]_vars

=============================================================================
