--------------------------- MODULE PublicationV2 ---------------------------
(***************************************************************************)
(* Publication v2 (content/publication_store_v2.py) with the transactions  *)
(* it is serialised against: the import of a ready revision, a rights      *)
(* review and a takedown request. Transactions run at READ COMMITTED, so   *)
(* what keeps a checked fact true until the commit are advisory locks:     *)
(*    build     its key, the selected projects, the takedown timeline      *)
(*    switch    the current pointer, the selected projects, the timeline   *)
(*    takedown  the timeline           review, import   their project      *)
(* Each lock, each round of checks and each commit is a step of its own; a *)
(* lock lives until its transaction ends.                                  *)
(***************************************************************************)
EXTENDS Integers, FiniteSets

CONSTANTS
  Sources,      \* source projects
  ProjectId,    \* ProjectId[s]: the id by which project locks are ordered
  Cases,        \* public case keys: a source and a case key in it
  SourceOf,     \* SourceOf[c]
  Holds,        \* Holds[c]: the revisions of its source that have the case
  Assets,       \* takedown scopes of type asset
  Shows,        \* Shows[c]: the assets among its outputs
  Broad,        \* takedown scopes of type source, case and prompt
  Covers,       \* Covers[x]: the cases in scope x
  BuildKeys,    \* idempotency keys of build requests
  Callers,      \* database sessions
  None,         \* SQL NULL
  MaxRuns,      \* BOUND: MaxRuns[s] adapter runs of the source
  MaxVersions,  \* BOUND: versions; no build commits beyond them
  MaxReviews,   \* BOUND: review batches of one case version
  MaxTimes,     \* BOUND: distinct times of takedown requests
  MaxBegun      \* BOUND: transactions

Revs == UNION {1 .. MaxRuns[s] : s \in Sources}
Versions == 1 .. MaxVersions
Scopes == Broad \cup Assets

Current == <<"current", "pointer">>
Timeline == <<"takedown", "timeline">>
Project(s) == <<"project", s>>
BuildKey(k) == <<"build", k>>
Locks == {Current, Timeline} \cup {Project(s) : s \in Sources} \cup {BuildKey(k) : k \in BuildKeys}

Selections == [Sources -> Revs \cup {None}]
\* a publishable review names the public primary; the other outputs it shows
\* are the gallery
Reviews == [batch: 0 .. MaxReviews, primary: Assets \cup {None}]
Requests == [at: 0 .. MaxTimes, action: {"restore", "remove"}]
Entries == [case: Cases, batch: 0 .. MaxReviews, primary: Assets, gallery: SUBSET Assets]
VersionRows == [state: {"none", "ready", "active", "superseded"},
                key: BuildKeys \cup {None}, selection: Selections,
                entries: SUBSET Entries]
Operations == {"none", "build", "activate", "rollback", "takedown", "review", "import"}
Phases == {"idle", "locking", "replay", "latest", "facts", "commit"}
CallRows == [phase: Phases, operation: Operations, needs: SUBSET Locks,
             key: BuildKeys \cup {None}, selection: Selections,
             version: Versions \cup {None}, entries: SUBSET Entries,
             case: Cases \cup {None}, review: Reviews,
             scope: Scopes \cup {None}, request: Requests]

ASSUME BoundsAssumption ==
  /\ MaxRuns \in [Sources -> Nat \ {0}]
  /\ MaxVersions \in Nat /\ MaxReviews \in Nat \ {0} /\ MaxTimes \in Nat /\ MaxBegun \in Nat
ASSUME OrderAssumption ==
  /\ ProjectId \in [Sources -> Nat]
  /\ \A s, t \in Sources : ProjectId[s] = ProjectId[t] => s = t
  /\ IsFiniteSet(Sources)
ASSUME FactsAssumption ==
  /\ SourceOf \in [Cases -> Sources]
  /\ Holds \in [Cases -> SUBSET Revs]
  /\ Shows \in [Cases -> SUBSET Assets]
  /\ Covers \in [Broad -> SUBSET Cases]
ASSUME NoneAssumption ==
  None \notin Nat /\ None \notin Scopes /\ None \notin Cases /\ None \notin BuildKeys
  /\ None \notin Callers

VARIABLES
  drawn,      \* drawn[s]: the newest adapter run id of the source
  ready,      \* ready[s]: the ready adapter run of the source with highest id
  reviews,    \* reviews[<<c, r>>]: latest review batch of the case version
  timeline,   \* timeline[x]: latest takedown request by requested_at, id
  begun,      \* transactions so far
  versions,   \* content.publication_versions_v2 with selection and entries
  current,    \* content.publication_current_v2
  announced,  \* version of the newest row of content.publication_outbox_v2
  holder,     \* holder[l]: the session that owns advisory lock l
  call        \* the transaction each session is in

vars == <<drawn, ready, reviews, timeline, begun, versions, current, announced, holder, call>>
publication == <<versions, current, announced>>
authority == <<ready, reviews, timeline>>
inputs == <<drawn, begun>>

Nothing == [s \in Sources |-> None]
NoReview == [batch |-> 0, primary |-> None]
NoRequest == [at |-> 0, action |-> "restore"]
NoVersion == [state |-> "none", key |-> None, selection |-> Nothing, entries |-> {}]
NoCall == [phase |-> "idle", operation |-> "none", needs |-> {}, key |-> None,
           selection |-> Nothing, version |-> None, entries |-> {}, case |-> None,
           review |-> NoReview, scope |-> None, request |-> NoRequest]

\* every source has been imported once, and its cases have been reviewed
FirstReview(c) == [batch: {1}, primary: Shows[c] \cup {None}]

Init ==
  /\ drawn = [s \in Sources |-> 1]
  /\ ready = [s \in Sources |-> 1]
  /\ \E decided \in [Cases -> UNION {FirstReview(c) : c \in Cases}] :
       /\ \A c \in Cases : decided[c] \in FirstReview(c)
       /\ reviews = [k \in Cases \X Revs |->
            IF k[2] = 1 /\ 1 \in Holds[k[1]] THEN decided[k[1]] ELSE NoReview]
  /\ timeline = [x \in Scopes |-> NoRequest]
  /\ begun = 0
  /\ versions = [v \in Versions |-> NoVersion]
  /\ current = None
  /\ announced = None
  /\ holder = [l \in Locks |-> None]
  /\ call = [p \in Callers |-> NoCall]

-----------------------------------------------------------------------------
(* What a version may contain.                                             *)

Removed(x) == timeline[x].action = "remove"
TakenDown(c) == \E x \in Broad : Removed(x) /\ c \in Covers[x]
RemovedAssets == {a \in Assets : Removed(a)}

\* _takedown_reason: what the entry shows is under an active takedown
Unsafe(entry) ==
  \/ TakenDown(entry.case)
  \/ ({entry.primary} \cup entry.gallery) \cap RemovedAssets # {}

Reviewed(selection, c) == reviews[<<c, selection[SourceOf[c]]>>]

Included(selection, c) ==
  /\ selection[SourceOf[c]] \in Holds[c]
  /\ Reviewed(selection, c).primary # None
  /\ ~TakenDown(c)
  /\ Reviewed(selection, c).primary \notin RemovedAssets

\* a removed gallery asset is redacted and the case stays
EntryFor(selection, c) ==
  LET review == Reviewed(selection, c)
  IN [case |-> c, batch |-> review.batch, primary |-> review.primary,
      gallery |-> Shows[c] \ (RemovedAssets \cup {review.primary})]
EntriesFor(selection) ==
  {EntryFor(selection, c) : c \in {d \in Cases : Included(selection, d)}}

LatestReady(selection) == \A s \in Sources : selection[s] \in {None, ready[s]}
LatestReviewed(v) ==
  \A e \in versions[v].entries : e.batch = Reviewed(versions[v].selection, e.case).batch
Clean(v) == \A e \in versions[v].entries : ~Unsafe(e)

\* a case may leave the public set under a takedown of its own scopes, or of
\* the primary it is public with
CasesIn(v) == {e.case : e \in versions[v].entries}
LossAuthorized(v) ==
  current # None => \A e \in versions[current].entries :
    e.case \in CasesIn(v) \/ TakenDown(e.case) \/ e.primary \in RemovedAssets

-----------------------------------------------------------------------------
(* Transactions: locks are taken one by one and all released at the end.   *)

Stage(l) == IF l = Timeline THEN 2 ELSE IF l[1] = "project" THEN 1 ELSE 0
Before(l, m) ==
  \/ Stage(l) < Stage(m)
  \/ Stage(l) = 1 /\ Stage(m) = 1 /\ ProjectId[l[2]] < ProjectId[m[2]]

\* mutant: a build locks the projects in the order of the request
NextLockByRequest(p, l) ==
  /\ l \in call[p].needs
  /\ \A m \in call[p].needs \ {l} :
       \/ Before(l, m)
       \/ call[p].operation = "build" /\ Stage(l) = 1 /\ Stage(m) = 1
NextLock(p, l) == l \in call[p].needs /\ \A m \in call[p].needs \ {l} : Before(l, m)

\* mutant: a build relies on the takedown lock alone
NoProjects(selection) == {}
ProjectsOf(selection) == {Project(s) : s \in {t \in Sources : selection[t] # None}}

In(p, phase) == call[p].phase = phase
Is(p, operations) == call[p].operation \in operations
Goto(p, phase) == call' = [call EXCEPT ![p].phase = phase]

Start(p, row) ==
  /\ In(p, "idle")
  /\ begun < MaxBegun
  /\ begun' = begun + 1
  /\ call' = [call EXCEPT ![p] = row]
  /\ UNCHANGED <<authority, publication, holder>>

\* builds and switches check the revisions before they ask for the timeline
Ahead(p, needs) ==
  IF needs = {} THEN IF Is(p, {"takedown", "import"}) THEN "commit" ELSE "facts"
  ELSE IF needs = {Timeline} THEN "latest" ELSE "locking"

Acquire(p) ==
  /\ In(p, "locking")
  /\ \E l \in Locks :
       /\ NextLock(p, l)
       /\ holder[l] = None
       /\ holder' = [holder EXCEPT ![l] = p]
       /\ LET needs == call[p].needs \ {l}
          IN call' = [call EXCEPT ![p] =
               [@ EXCEPT !.needs = needs,
                         !.phase = IF l[1] = "build" THEN "replay" ELSE Ahead(p, needs)]]
  /\ UNCHANGED <<authority, inputs, publication>>

\* commit, rollback and a lost connection release the locks of the session
End(p) ==
  /\ call' = [call EXCEPT ![p] = NoCall]
  /\ holder' = [l \in Locks |-> IF holder[l] = p THEN None ELSE holder[l]]

Abort(p) ==
  /\ ~In(p, "idle")
  /\ End(p)
  /\ UNCHANGED <<authority, inputs, publication>>

-----------------------------------------------------------------------------
(* Build.                                                                  *)

\* the caller has read the latest ready revisions of the sources it selects
BeginBuild(p) ==
  \E k \in BuildKeys, chosen \in (SUBSET Sources) \ {{}} :
    LET selection == [s \in Sources |-> IF s \in chosen THEN ready[s] ELSE None]
    IN /\ Start(p, [NoCall EXCEPT !.phase = "locking", !.operation = "build", !.key = k,
                      !.selection = selection,
                      !.needs = {BuildKey(k), Timeline} \cup ProjectsOf(selection)])
       /\ UNCHANGED drawn

\* mutant: only the public version answers a repeated request
ActiveFor(k) == {v \in Versions : versions[v].key = k /\ versions[v].state = "active"}
BuiltFor(k) == {v \in Versions : versions[v].key = k}

\* a known key answers with its version, or conflicts with other facts
Replay(p) ==
  /\ In(p, "replay")
  /\ BuiltFor(call[p].key) # {}
  /\ End(p)
  /\ UNCHANGED <<authority, inputs, publication>>

FirstRequest(p) ==
  /\ In(p, "replay")
  /\ BuiltFor(call[p].key) = {}
  /\ Goto(p, Ahead(p, call[p].needs))
  /\ UNCHANGED <<authority, inputs, publication, holder>>

\* _assert_selected_revisions_latest, for builds and switches
Switches == {"activate", "rollback"}
SelectionOf(p) ==
  IF Is(p, Switches) THEN versions[call[p].version].selection ELSE call[p].selection

CheckLatest(p) ==
  /\ In(p, "latest")
  /\ LatestReady(SelectionOf(p))
  /\ Goto(p, "locking")
  /\ UNCHANGED <<authority, inputs, publication, holder>>

StaleRevision(p) ==
  /\ In(p, "latest")
  /\ ~LatestReady(SelectionOf(p))
  /\ End(p)
  /\ UNCHANGED <<authority, inputs, publication>>

ReadFacts(p) ==
  /\ In(p, "facts") /\ Is(p, {"build"})
  /\ call' = [call EXCEPT ![p] =
       [@ EXCEPT !.phase = "commit", !.entries = EntriesFor(call[p].selection)]]
  /\ UNCHANGED <<authority, inputs, publication, holder>>

Fresh(v) == versions[v].state = "none" /\ \A u \in Versions : u < v => versions[u].state # "none"

Build(p) ==
  /\ In(p, "commit") /\ Is(p, {"build"})
  /\ \E v \in Versions :
       /\ Fresh(v)
       /\ versions' = [versions EXCEPT ![v] =
            [state |-> "ready", key |-> call[p].key, selection |-> call[p].selection,
             entries |-> call[p].entries]]
  /\ End(p)
  /\ UNCHANGED <<authority, inputs, current, announced>>

-----------------------------------------------------------------------------
(* Activation and rollback.                                                *)

BeginSwitch(p) ==
  \E v \in Versions, operation \in Switches :
    /\ versions[v].state # "none"
    /\ Start(p, [NoCall EXCEPT !.phase = "locking", !.operation = operation, !.version = v,
                   !.needs = {Current, Timeline} \cup ProjectsOf(versions[v].selection)])
    /\ UNCHANGED drawn

\* mutant: a takedown recorded after the build is ignored
PermittedUnclean(p) ==
  LET v == call[p].version
  IN /\ LatestReviewed(v)
     /\ versions[v].state # "active"
     /\ Is(p, {"activate"}) => LossAuthorized(v)
\* only an activation is asked for the authority to lose a case
Permitted(p) ==
  LET v == call[p].version
  IN /\ LatestReviewed(v)
     /\ Clean(v)
     /\ versions[v].state # "active"
     /\ Is(p, {"activate"}) => LossAuthorized(v)

CheckTarget(p) ==
  /\ In(p, "facts") /\ Is(p, Switches)
  /\ Permitted(p)
  /\ Goto(p, "commit")
  /\ UNCHANGED <<authority, inputs, publication, holder>>

\* refused, or the target is current already
Refuse(p) ==
  /\ In(p, "facts") /\ Is(p, Switches)
  /\ ~Permitted(p)
  /\ End(p)
  /\ UNCHANGED <<authority, inputs, publication>>

\* mutant: the outbox row is left to a later transaction
MoveSilently(v) ==
  /\ versions' = [u \in Versions |->
       IF u = v THEN [versions[u] EXCEPT !.state = "active"]
       ELSE IF u = current THEN [versions[u] EXCEPT !.state = "superseded"]
       ELSE versions[u]]
  /\ current' = v
  /\ UNCHANGED announced
MovePointer(v) ==
  /\ versions' = [u \in Versions |->
       IF u = v THEN [versions[u] EXCEPT !.state = "active"]
       ELSE IF u = current THEN [versions[u] EXCEPT !.state = "superseded"]
       ELSE versions[u]]
  /\ current' = v
  /\ announced' = v

Switch(p) ==
  /\ In(p, "commit") /\ Is(p, Switches)
  /\ MovePointer(call[p].version)
  /\ End(p)
  /\ UNCHANGED <<authority, inputs>>

-----------------------------------------------------------------------------
(* Takedown requests, rights reviews and imports.                          *)

\* requested_at is the caller's: it may lie before that of other requests;
\* BOUND: nobody asks for the action that is in effect
BeginTakedown(p) ==
  \E x \in Scopes, at \in 1 .. MaxTimes, action \in {"restore", "remove"} :
    /\ action # timeline[x].action
    /\ Start(p, [NoCall EXCEPT !.phase = "locking", !.operation = "takedown", !.scope = x,
                   !.request = [at |-> at, action |-> action], !.needs = {Timeline}])
    /\ UNCHANGED drawn

Takedown(p) ==
  /\ In(p, "commit") /\ Is(p, {"takedown"})
  /\ LET x == call[p].scope  request == call[p].request
     IN timeline' = IF request.at >= timeline[x].at
                    THEN [timeline EXCEPT ![x] = request] ELSE timeline
  /\ End(p)
  /\ UNCHANGED <<ready, reviews, inputs, publication>>

\* a reviewer decides on what the queue showed: a case of the latest revision
\* and the number of its latest batch
BeginReview(p) ==
  \E c \in Cases : \E primary \in Shows[c] \cup {None} :
    LET s == SourceOf[c]  seen == reviews[<<c, ready[s]>>].batch
    IN /\ ready[s] \in Holds[c]
       /\ seen < MaxReviews
       /\ Start(p, [NoCall EXCEPT !.phase = "locking", !.operation = "review", !.case = c,
                      !.selection = [Nothing EXCEPT ![s] = ready[s]],
                      !.review = [batch |-> seen + 1, primary |-> primary],
                      !.needs = {Project(s)}])
       /\ UNCHANGED drawn

\* mutant: the expected batch is not compared
StillLatest(p) == LatestReady(call[p].selection)
\* still the latest ready revision, and no other batch since the reviewer looked
StillCurrent(p) ==
  /\ LatestReady(call[p].selection)
  /\ Reviewed(call[p].selection, call[p].case).batch + 1 = call[p].review.batch

CheckReview(p) ==
  /\ In(p, "facts") /\ Is(p, {"review"})
  /\ StillCurrent(p)
  /\ Goto(p, "commit")
  /\ UNCHANGED <<authority, inputs, publication, holder>>

StaleReview(p) ==
  /\ In(p, "facts") /\ Is(p, {"review"})
  /\ ~StillCurrent(p)
  /\ End(p)
  /\ UNCHANGED <<authority, inputs, publication>>

Review(p) ==
  /\ In(p, "commit") /\ Is(p, {"review"})
  /\ LET c == call[p].case
     IN reviews' = [reviews EXCEPT ![<<c, call[p].selection[SourceOf[c]]>>] = call[p].review]
  /\ End(p)
  /\ UNCHANGED <<ready, timeline, inputs, publication>>

\* the row's id is drawn before the trigger waits for the project lock
BeginImport(p) ==
  \E s \in Sources :
    /\ drawn[s] < MaxRuns[s]
    /\ drawn' = [drawn EXCEPT ![s] = @ + 1]
    /\ Start(p, [NoCall EXCEPT !.phase = "locking", !.operation = "import",
                   !.selection = [Nothing EXCEPT ![s] = drawn[s] + 1],
                   !.needs = {Project(s)}])

\* an import that commits late stays behind a run with a higher id
Import(p) ==
  /\ In(p, "commit") /\ Is(p, {"import"})
  /\ ready' = [s \in Sources |->
       LET r == call[p].selection[s] IN IF r # None /\ r > ready[s] THEN r ELSE ready[s]]
  /\ End(p)
  /\ UNCHANGED <<reviews, timeline, inputs, publication>>

-----------------------------------------------------------------------------
Begin(p) ==
  BeginBuild(p) \/ BeginSwitch(p) \/ BeginTakedown(p) \/ BeginReview(p) \/ BeginImport(p)

Check(p) ==
  \/ Replay(p) \/ FirstRequest(p) \/ CheckLatest(p) \/ StaleRevision(p)
  \/ ReadFacts(p) \/ CheckTarget(p) \/ Refuse(p) \/ CheckReview(p) \/ StaleReview(p)

Commit(p) == Build(p) \/ Switch(p) \/ Takedown(p) \/ Review(p) \/ Import(p)

Next == \E p \in Callers : Begin(p) \/ Acquire(p) \/ Check(p) \/ Commit(p) \/ Abort(p)

Spec == Init /\ [][Next]_vars
-----------------------------------------------------------------------------
(* Properties.                                                             *)

\* Types of the tables, the locks and the transactions.
TypeOK ==
  /\ drawn \in [Sources -> Revs]
  /\ ready \in [Sources -> Revs]
  /\ reviews \in [Cases \X Revs -> Reviews]
  /\ timeline \in [Scopes -> Requests]
  /\ begun \in 0 .. MaxBegun
  /\ versions \in [Versions -> VersionRows]
  /\ current \in Versions \cup {None}
  /\ announced \in Versions \cup {None}
  /\ holder \in [Locks -> Callers \cup {None}]
  /\ call \in [Callers -> CallRows]

\* The pointer, the one active version and the newest outbox event name the
\* same version, whatever activations and rollbacks raced.
PointerConsistent ==
  /\ announced = current
  /\ \A v \in Versions : versions[v].state = "active" <=> v = current

\* Builds retried under one idempotency key, also at the same time, leave one
\* version: the key's lock orders them and the second finds the first.
OneVersionPerKey ==
  \A u, v \in Versions :
    versions[u].state # "none" /\ versions[u].key = versions[v].key => u = v

\* No two transactions ever wait for each other, so PostgreSQL never has to
\* kill one: builds, switches, takedowns, reviews and imports agree on an order.
Waits(p, q) ==
  In(p, "locking") /\ \E l \in Locks : NextLock(p, l) /\ holder[l] = q
NoLockCycle ==
  \A group \in (SUBSET Callers) \ {{}} :
    \E p \in group : \A q \in group : ~Waits(p, q)

\* The inductive strengthening. A transaction asks for the locks that guard
\* what it reads, in order, and keeps them; so what it has checked stays true.
Guards(p) ==
  UNION {IF Is(p, {"build"}) THEN {BuildKey(call[p].key)} ELSE {},
         IF Is(p, Switches) THEN {Current} ELSE {},
         IF Is(p, {"build", "takedown"} \cup Switches) THEN {Timeline} ELSE {},
         {Project(s) : s \in {t \in Sources : SelectionOf(p)[t] # None}}}

Holding(p) ==
  /\ call[p].needs \subseteq Guards(p)
  /\ \A l \in Guards(p) : l \in call[p].needs \/ holder[l] = p
  /\ \A l \in Locks : holder[l] = p => \A m \in call[p].needs : Before(l, m)
  /\ In(p, "idle") => call[p] = NoCall /\ \A l \in Locks : holder[l] # p
  /\ call[p].phase \in {"facts", "commit"} => call[p].needs = {}
  /\ In(p, "latest") => call[p].needs = {Timeline}
  /\ In(p, "replay") => Is(p, {"build"}) /\ Timeline \in call[p].needs
                        /\ BuildKey(call[p].key) \notin call[p].needs

WellFormed(p) ==
  /\ Is(p, {"build"}) => call[p].key \in BuildKeys
  /\ Is(p, Switches) => call[p].version \in Versions /\ versions[call[p].version].state # "none"
  /\ Is(p, {"review"}) =>
       /\ call[p].case \in Cases
       /\ call[p].selection[SourceOf[call[p].case]] # None

SawRevisions(p) ==
  \/ call[p].phase \in {"facts", "commit"}
  \/ In(p, "locking") /\ call[p].needs = {Timeline}

Checked(p) ==
  /\ Is(p, {"build"}) /\ BuildKey(call[p].key) \notin call[p].needs /\ ~In(p, "replay") =>
       BuiltFor(call[p].key) = {}
  /\ SawRevisions(p) /\ Is(p, {"build"} \cup Switches) => LatestReady(SelectionOf(p))
  /\ In(p, "commit") =>
       /\ Is(p, {"build"}) => call[p].entries = EntriesFor(call[p].selection)
       /\ Is(p, Switches) => Permitted(p)
       /\ Is(p, {"review"}) => StillCurrent(p)

\* a version keeps the selection it was built from, and shows nothing else
VersionSound(v) ==
  /\ versions[v].state = "none" => versions[v].key = None
  /\ versions[v].state # "none" => versions[v].key \in BuildKeys
  /\ \A e \in versions[v].entries : versions[v].selection[SourceOf[e.case]] # None

\* Together with the pointer and the keys this is inductive: every step of every
\* session keeps what the others hold and have checked.
IndInv ==
  /\ \A p \in Callers : Holding(p) /\ WellFormed(p) /\ Checked(p)
  /\ \A v \in Versions : VersionSound(v)
  /\ PointerConsistent
  /\ OneVersionPerKey

\* What a build commits is what the authority tables say at that moment: the
\* latest revisions, latest reviews and effective takedowns, though it read
\* them in earlier statements.
BuildIsCurrent ==
  [][\A p \in Callers : Build(p) =>
       /\ LatestReady(call[p].selection)
       /\ call[p].entries = EntriesFor(call[p].selection)]_vars

\* At the moment the pointer moves its target holds the latest revisions and
\* reviews and shows nothing under takedown; an activation loses no case
\* that no takedown covers.
SwitchIsAuthorized ==
  [][\A p \in Callers : Switch(p) =>
       LET v == call[p].version
       IN /\ LatestReady(versions[v].selection)
          /\ LatestReviewed(v)
          /\ Clean(v)
          /\ Is(p, {"activate"}) => LossAuthorized(v)]_vars

\* A review batch follows the batch its reviewer saw, on the revision that is
\* the latest when it commits: no decision is lost or made on stale content.
ReviewsChain ==
  [][\A c \in Cases, r \in Revs :
       reviews'[<<c, r>>] # reviews[<<c, r>>] =>
         /\ reviews'[<<c, r>>].batch = reviews[<<c, r>>].batch + 1
         /\ r = ready[SourceOf[c]]]_vars
=============================================================================
