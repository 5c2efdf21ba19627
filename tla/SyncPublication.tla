------------------------- MODULE SyncPublication -------------------------
(***************************************************************************)
(* One synchronisation of one source, from the observed branch head to the *)
(* public snapshot (sync/pipeline.py, run_source), together with the       *)
(* tables it works on: the sync run of each candidate commit, the ready    *)
(* inventory, the tombstone events, the rights reviews, the publication    *)
(* versions and the pointer to the public one (content/database.py).       *)
(*                                                                         *)
(* Each action is one database transaction, with the local computation     *)
(* that precedes it. Commits of a source are numbered along its default    *)
(* branch: p is an ancestor of c exactly when p <= c. The branch only      *)
(* leaves that order when it is reset to an older commit.                  *)
(***************************************************************************)
EXTENDS Integers, FiniteSets

CONSTANTS
  Sources,      \* registered sources
  Runners,      \* processes that call run_source
  Serves,       \* Serves[w]: the source runner w is called for
  MaxRev,       \* BOUND: commits on a branch
  Cases,        \* every generation example of every commit
  Defective,    \* <<s, r>>: too few cases, weak pairs or broken assets
  MaxVersions,  \* BOUND: publication versions; a later build fails
  Limits        \* BOUND: how often each event outside the happy path occurs; one
                \* of these limits holds throughout

None == 0
Revs == 1 .. MaxRev
Versions == 1 .. MaxVersions
Events == {"reset", "raise", "crash", "unanswered", "review", "operate"}

\* mutant: a failed run is never retried
RetriedButFailed == {"review_required", "ready", "imported"}
\* the states a later call takes up again with the run's own previous commit
\* (the code also lists "gated", which nothing writes)
Retried == {"failed", "review_required", "ready", "imported"}

\* program points of run_source; the candidate's advisory lock is held at Locked
Locked == {"begun", "extracting", "packaging", "compared", "imported", "marked",
           "selected", "built", "ready"}

CaseRows == [source: Sources, revision: Revs, key: STRING, canonical: STRING]

ASSUME BoundsAssumption ==
  /\ MaxRev \in Nat \ {0}
  /\ MaxVersions \in Nat
  /\ Limits \subseteq [Events -> Nat]
ASSUME ServesAssumption == Serves \in [Runners -> Sources]
ASSUME CasesAssumption == Cases \subseteq CaseRows

VARIABLES
  head,        \* commit at the tip of each source's default branch
  runs,        \* runs[<<s, c>>]: sync.source_sync_runs
  inventory,   \* inventory[s]: the commits with ready inventory
  latest,      \* latest[s]: the one with the highest adapter run id
  lockFiles,   \* candidates with a lock file beside the packages
  tombstones,  \* sync.case_tombstone_events
  approved,    \* generation examples whose latest rights review approves them
  versions,    \* content.publication_versions with selections and entries
  current,     \* content.publication_current
  announced,   \* version named by the last row of content.publication_outbox
  runner,      \* locals of each run_source call, and what the last one returned
  spent        \* how many events of each kind have occurred

vars == <<head, runs, inventory, latest, lockFiles, tombstones, approved, versions,
          current, announced, runner, spent>>
publication == <<versions, current, announced>>
evidence == <<inventory, latest, lockFiles, tombstones>>
world == <<head, approved, spent>>

NoRun == [state |-> "none", previous |-> None, version |-> None]
Nothing == [s \in Sources |-> None]
NoVersion == [state |-> "none", selection |-> Nothing, keys |-> {}]
Resting == [pc |-> "idle", candidate |-> None, latest |-> None, previous |-> None,
            selection |-> Nothing, version |-> None, answer |-> "none"]

Init ==
  /\ head = [s \in Sources |-> 1]
  /\ runs = [k \in Sources \X Revs |-> NoRun]
  /\ inventory = [s \in Sources |-> {}]
  /\ latest = [s \in Sources |-> None]
  /\ lockFiles = {}
  /\ tombstones = {}
  /\ approved = {}
  /\ versions = [v \in Versions |-> NoVersion]
  /\ current = None
  /\ announced = None
  /\ runner = [w \in Runners |-> Resting]
  /\ spent = [e \in Events |-> 0]

-----------------------------------------------------------------------------
(* The candidate of a call, the facts about it, and the writes to its row. *)

Spend(e) ==
  /\ spent' = [spent EXCEPT ![e] = @ + 1]
  /\ \E limit \in Limits : \A f \in Events : spent'[f] <= limit[f]

Source(w) == Serves[w]
Key(w) == <<Serves[w], runner[w].candidate>>
Row(w) == runs[Key(w)]
At(w, p) == runner[w].pc = p

CasesOf(s, r) == {c \in Cases : c.source = s /\ c.revision = r}
KeysOf(s, r) == {c.key : c \in CasesOf(s, r)}
\* the cases of the extracted package, and those the diff against `previous` finds
PackageKeys(w) == KeysOf(Source(w), runner[w].candidate)
Removed(w) == KeysOf(Source(w), runner[w].previous) \ PackageKeys(w)
Added(w) == PackageKeys(w) \ KeysOf(Source(w), runner[w].previous)

\* quality gate: the candidate's own metrics, its count against the latest
\* inventory, and the cases the diff against `previous` lost
Blocked(w) ==
  \/ Key(w) \in Defective
  \/ Cardinality(PackageKeys(w))
       < Cardinality(KeysOf(Source(w), runner[w].latest))
  \/ Removed(w) # {}

\* mutant: the ancestor proof is skipped
AnyHistory(w) == TRUE
FastForward(w) == runner[w].previous <= runner[w].candidate

Held(k) == \E w \in Runners : runner[w].pc \in Locked /\ Key(w) = k

Goto(w, p) == runner' = [runner EXCEPT ![w].pc = p]
Return(w, a) == runner' = [runner EXCEPT ![w] = [Resting EXCEPT !.answer = a]]
\* update_run; without a publication version the row keeps the one it has
Mark(w, state) == runs' = [runs EXCEPT ![Key(w)] = [@ EXCEPT !.state = state]]
MarkVersion(w, state) ==
  runs' = [runs EXCEPT ![Key(w)] = [@ EXCEPT !.state = state, !.version = runner[w].version]]

-----------------------------------------------------------------------------
(* Before the lock: observe the head, then read the database twice.        *)

Detect(w) ==
  /\ At(w, "idle")
  /\ runner' = [runner EXCEPT ![w] =
       [Resting EXCEPT !.pc = "detected", !.candidate = head[Source(w)]]]
  /\ UNCHANGED <<runs, evidence, publication, world>>

ReadLatest(w) ==
  /\ At(w, "detected")
  /\ runner' = [runner EXCEPT ![w] =
       [@ EXCEPT !.pc = "looked", !.latest = latest[Source(w)],
                 !.previous = latest[Source(w)]]]
  /\ UNCHANGED <<runs, evidence, publication, world>>

\* get_run says no_change only of a candidate it does not retry
Unchanged(w) ==
  runner[w].previous = runner[w].candidate /\ Row(w).state \notin Retried

NoChange(w) ==
  /\ At(w, "looked")
  /\ Unchanged(w)
  /\ Return(w, "no_change")
  /\ UNCHANGED <<runs, evidence, publication, world>>

\* a retried run goes on from its own previous commit, if it has one
PreviousRecorded(w) ==
  IF Row(w).state \in Retried /\ Row(w).previous # None
  THEN Row(w).previous ELSE runner[w].previous

Consult(w) ==
  /\ At(w, "looked")
  /\ ~Unchanged(w)
  /\ runner' = [runner EXCEPT ![w] =
       [@ EXCEPT !.pc = "candidate", !.previous = PreviousRecorded(w)]]
  /\ UNCHANGED <<runs, evidence, publication, world>>

\* the advisory lock is tried once; the loser raises before it has a run row
LockBusy(w) ==
  /\ At(w, "candidate")
  /\ Held(Key(w))
  /\ Return(w, "failed")
  /\ UNCHANGED <<runs, evidence, publication, world>>

BeginRun(w) ==
  /\ At(w, "candidate")
  /\ ~Held(Key(w))
  /\ Row(w).state # "completed"
  /\ runs' = IF Row(w).state = "none"
             THEN [runs EXCEPT ![Key(w)] = [NoRun EXCEPT !.state = "detected",
                                                         !.previous = runner[w].previous]]
             ELSE runs
  /\ Goto(w, "begun")
  /\ UNCHANGED <<evidence, publication, world>>

AlreadyCompleted(w) ==
  /\ At(w, "candidate")
  /\ ~Held(Key(w))
  /\ Row(w).state = "completed"
  /\ Return(w, "completed")
  /\ UNCHANGED <<runs, evidence, publication, world>>

-----------------------------------------------------------------------------
(* Under the lock: prove, compare, gate, import.                           *)

NotForward(w) ==
  /\ At(w, "begun")
  /\ ~FastForward(w)
  /\ Mark(w, "review_required")
  /\ Return(w, "review_required")
  /\ UNCHANGED <<evidence, publication, world>>

Extract(w) ==
  /\ At(w, "begun")
  /\ FastForward(w)
  /\ Mark(w, "extracting")
  /\ Goto(w, "extracting")
  /\ UNCHANGED <<evidence, publication, world>>

\* _idempotency_lock creates its file with O_EXCL and removes it in a finally
LockPackage(w) ==
  /\ At(w, "extracting")
  /\ Key(w) \notin lockFiles
  /\ lockFiles' = lockFiles \cup {Key(w)}
  /\ Goto(w, "packaging")
  /\ UNCHANGED <<runs, inventory, latest, tombstones, publication, world>>

RunLocked(w) ==
  /\ At(w, "extracting")
  /\ Key(w) \in lockFiles
  /\ Goto(w, "failing")
  /\ UNCHANGED <<runs, evidence, publication, world>>

Tombstone(w, key, event) ==
  [source |-> Source(w), candidate |-> runner[w].candidate, key |-> key, event |-> event]

\* 'restored' is for a key some earlier run of this source saw removed
Restored(w) ==
  {key \in Added(w) : \E t \in tombstones :
     t.source = Source(w) /\ t.key = key /\ t.event = "removed"}

\* an event that a retry records again is there already
TombstoneEvents(w) ==
  {Tombstone(w, key, "removed") : key \in Removed(w)}
    \cup {Tombstone(w, key, "restored") : key \in Restored(w)}

\* the package is published and its lock file removed, then the diff is recorded
Compare(w) ==
  /\ At(w, "packaging")
  /\ lockFiles' = lockFiles \ {Key(w)}
  /\ tombstones' = tombstones \cup TombstoneEvents(w)
  /\ Goto(w, "compared")
  /\ UNCHANGED <<runs, inventory, latest, publication, world>>

HoldForReview(w) ==
  /\ At(w, "compared")
  /\ Blocked(w)
  /\ Mark(w, "review_required")
  /\ Return(w, "review_required")
  /\ UNCHANGED <<evidence, publication, world>>

\* an inventory that is already complete is verified, and keeps its run id
Import(w) ==
  /\ At(w, "compared")
  /\ ~Blocked(w)
  /\ LET s == Source(w)  c == runner[w].candidate
     IN /\ inventory' = [inventory EXCEPT ![s] = @ \cup {c}]
        /\ latest' = IF c \in inventory[s] THEN latest ELSE [latest EXCEPT ![s] = c]
  /\ Goto(w, "imported")
  /\ UNCHANGED <<runs, lockFiles, tombstones, publication, world>>

MarkImported(w) ==
  /\ At(w, "imported")
  /\ Mark(w, "imported")
  /\ Goto(w, "marked")
  /\ UNCHANGED <<evidence, publication, world>>

-----------------------------------------------------------------------------
(* Still under the lock: select, build, activate.                          *)

\* the fallback to completed runs is never taken: no run completes before a
\* version is public, and the pointer is never removed
Carried == IF current = None THEN Nothing ELSE versions[current].selection

Select(w) ==
  /\ At(w, "marked")
  /\ runner' = [runner EXCEPT ![w] =
       [@ EXCEPT !.pc = "selected",
                 !.selection = [Carried EXCEPT ![Source(w)] = runner[w].candidate]]]
  /\ UNCHANGED <<runs, evidence, publication, world>>

Includes(selection, c) == selection[c.source] = c.revision
PublicKeys(selection) == {c.canonical : c \in {d \in approved : Includes(selection, d)}}

Fresh(v) == versions[v].state = "none" /\ \A u \in Versions : u < v => versions[u].state # "none"

\* canonicalize_revisions gives every selected example its canonical case first
Build(w) ==
  /\ At(w, "selected")
  /\ \E v \in Versions :
       /\ Fresh(v)
       /\ versions' = [versions EXCEPT ![v] =
            [state |-> "ready", selection |-> runner[w].selection,
             keys |-> PublicKeys(runner[w].selection)]]
       /\ runner' = [runner EXCEPT ![w] = [@ EXCEPT !.pc = "built", !.version = v]]
  /\ UNCHANGED <<runs, evidence, current, announced, world>>

\* mutant: the run is completed ahead of the activation
MarkReadyCompleted(w) ==
  /\ At(w, "built")
  /\ MarkVersion(w, "completed")
  /\ Goto(w, "ready")
  /\ UNCHANGED <<evidence, publication, world>>

MarkReady(w) ==
  /\ At(w, "built")
  /\ MarkVersion(w, "ready")
  /\ Goto(w, "ready")
  /\ UNCHANGED <<evidence, publication, world>>

\* mutant: loss is measured by the number of cases
LosesCount(v) ==
  current # None /\ Cardinality(versions[v].keys) < Cardinality(versions[current].keys)
Loses(v) == current # None /\ ~(versions[current].keys \subseteq versions[v].keys)

Switch(v) ==
  \/ /\ versions[v].state = "active"
     /\ current = v
     /\ UNCHANGED publication
  \/ /\ versions[v].state # "active"
     /\ ~Loses(v)
     /\ versions' = [u \in Versions |->
          IF u = v THEN [versions[u] EXCEPT !.state = "active"]
          ELSE IF u = current /\ versions[u].state = "active"
               THEN [versions[u] EXCEPT !.state = "superseded"]
               ELSE versions[u]]
     /\ current' = v
     /\ announced' = v

\* the run this activation may complete: it is ready, or completed by this version
Completable(w) ==
  \/ Row(w).state = "ready"
  \/ Row(w).state = "completed" /\ Row(w).version = runner[w].version

Complete(w) ==
  /\ At(w, "ready")
  /\ Completable(w)
  /\ Switch(runner[w].version)
  /\ MarkVersion(w, "completed")
  /\ UNCHANGED evidence

Activate(w) ==
  /\ Complete(w)
  /\ Return(w, "completed")
  /\ UNCHANGED world

\* sync_completion_conflict: the whole activation is rolled back
Conflict(w) ==
  /\ At(w, "ready")
  /\ ~Completable(w)
  /\ (versions[runner[w].version].state = "active" \/ ~Loses(runner[w].version))
  /\ Goto(w, "failing")
  /\ UNCHANGED <<runs, evidence, publication, world>>

PublicLoss(w) ==
  /\ At(w, "ready")
  /\ versions[runner[w].version].state # "active"
  /\ Loses(runner[w].version)
  /\ Goto(w, "losing")
  /\ UNCHANGED <<runs, evidence, publication, world>>

-----------------------------------------------------------------------------
(* Errors. The handlers run after the `with` block has released the lock.  *)

ReviewLoss(w) ==
  /\ At(w, "losing")
  /\ MarkVersion(w, "review_required")
  /\ Return(w, "review_required")
  /\ UNCHANGED <<evidence, publication, world>>

Fail(w) ==
  /\ At(w, "failing")
  /\ Mark(w, "failed")
  /\ Return(w, "failed")
  /\ UNCHANGED <<evidence, publication, world>>

\* a build fails when the bound on versions is used up
NoRoom(w) ==
  /\ At(w, "selected")
  /\ \A v \in Versions : versions[v].state # "none"
  /\ Goto(w, "failing")
  /\ UNCHANGED <<runs, evidence, publication, world>>

RemoveLockFile(w) == lockFiles' = IF At(w, "packaging") THEN lockFiles \ {Key(w)} ELSE lockFiles

\* git, extraction, object store or database error: before the run row exists,
\* and in the handlers, nothing is recorded
Raise(w) ==
  /\ Spend("raise")
  /\ \/ runner[w].pc \in Locked /\ Goto(w, "failing")
     \/ runner[w].pc \notin Locked \cup {"idle"} /\ Return(w, "failed")
  /\ RemoveLockFile(w)
  /\ UNCHANGED <<runs, inventory, latest, tombstones, publication, head, approved>>

\* the actor's time limit interrupts the call, or the process dies without
\* running its finally clauses
Crash(w) ==
  /\ ~At(w, "idle")
  /\ Spend("crash")
  /\ Return(w, "none")
  /\ RemoveLockFile(w) \/ UNCHANGED lockFiles
  /\ UNCHANGED <<runs, inventory, latest, tombstones, publication, head, approved>>

\* the activation commits and the connection breaks before the reply
Unanswered(w) ==
  /\ Complete(w)
  /\ Spend("unanswered")
  /\ Goto(w, "failing")
  /\ UNCHANGED <<head, approved>>

-----------------------------------------------------------------------------
(* Around it: pushes, reviewers, and the operator's publication commands.  *)

Push(s) ==
  /\ head[s] < MaxRev
  /\ head' = [head EXCEPT ![s] = @ + 1]
  /\ UNCHANGED <<runs, evidence, publication, runner, approved, spent>>

Reset(s) ==
  /\ Spend("reset")
  /\ \E r \in Revs : r < head[s] /\ head' = [head EXCEPT ![s] = r]
  /\ UNCHANGED <<runs, evidence, publication, runner, approved>>

\* record_rights_review: appended for an example of a ready inventory
Review(c) ==
  /\ c.revision \in inventory[c.source]
  /\ Spend("review")
  /\ \/ approved' = approved \cup {c}
     \/ approved' = approved \ {c}
  /\ UNCHANGED <<runs, evidence, publication, runner, head>>

\* activate-publication and rollback-publication of a completed version
Operate(v) ==
  /\ versions[v].state \in {"ready", "superseded"}
  /\ Spend("operate")
  /\ Switch(v)
  /\ UNCHANGED <<runs, evidence, runner, head, approved>>

-----------------------------------------------------------------------------
Step(w) ==
  \/ Detect(w) \/ ReadLatest(w) \/ NoChange(w) \/ Consult(w)
  \/ LockBusy(w) \/ BeginRun(w) \/ AlreadyCompleted(w)
  \/ NotForward(w) \/ Extract(w) \/ LockPackage(w) \/ RunLocked(w) \/ Compare(w) \/ HoldForReview(w)
  \/ Import(w) \/ MarkImported(w) \/ Select(w) \/ Build(w) \/ MarkReady(w)
  \/ Activate(w) \/ Conflict(w) \/ PublicLoss(w)
  \/ ReviewLoss(w) \/ Fail(w) \/ NoRoom(w)

Fault(w) == Raise(w) \/ Crash(w) \/ Unanswered(w)

Around ==
  \/ \E s \in Sources : Push(s) \/ Reset(s)
  \/ \E c \in Cases : Review(c)
  \/ \E v \in Versions : Operate(v)

Next == (\E w \in Runners : Step(w) \/ Fault(w)) \/ Around

Spec == Init /\ [][Next]_vars
\* every call goes on, and the scheduler calls run_source again and again
FairSpec == Spec /\ \A w \in Runners : WF_vars(Step(w))
-----------------------------------------------------------------------------
(* Properties.                                                             *)

\* A run that reads `completed` names a version that was made public and that
\* selects exactly its candidate, after any sequence of retries and faults, and
\* the pointer, the one active version and the newest outbox event name the same
\* version, whatever activation, rollback or error came last.
CompletedIsPublic ==
  /\ \A s \in Sources, c \in Revs :
       LET row == runs[<<s, c>>]
       IN  row.state = "completed" =>
             /\ row.version # None
             /\ versions[row.version].state \in {"active", "superseded"}
             /\ versions[row.version].selection[s] = c
  /\ announced = current
  /\ \A v \in Versions : versions[v].state = "active" <=> v = current

\* Every removal on record names a case that the candidate lacks and that ready
\* inventory of an ancestor of the candidate holds: a reset branch, a retry with
\* its own previous commit or a crash never records as removed a case that only a
\* newer commit has.
RemovalsAreWitnessed ==
  \A t \in tombstones : t.event = "removed" =>
    /\ t.key \notin KeysOf(t.source, t.candidate)
    /\ \E p \in inventory[t.source] : p < t.candidate /\ t.key \in KeysOf(t.source, p)

\* The public set of canonical cases never shrinks, by synchronisation,
\* activation or rollback.
NoPublicLoss ==
  [][current # None =>
       /\ current' # None
       /\ versions[current].keys \subseteq versions'[current'].keys]_vars

\* The run of the branch head is again and again published or in the hands of
\* a reviewer, until the bound on versions is used up.
HeadSettles ==
  \A s \in Sources :
    []<>(\/ runs[<<s, head[s]>>].state \in {"completed", "review_required"}
         \/ \A v \in Versions : versions[v].state # "none")

\* docs/sync/incremental-sync-v1.md:91-93: an activation substitutes its own
\* source's revision and carries the public revisions of the others forward.
CarriedForward ==
  [][\A w \in Runners : Activate(w) /\ current # None =>
       \A s \in Sources \ {Source(w)} :
         versions[runner[w].version].selection[s] = versions[current].selection[s]]_vars

\* docs/sync/incremental-sync-v1.md:84-85: non-fast-forward history stops
\* automatic publication, so an activation never moves its source backwards.
ForwardOnly ==
  [][\A w \in Runners : Activate(w) /\ current # None =>
       versions[current].selection[Source(w)] <= runner[w].candidate]_vars

\* docs/sync/incremental-sync-v1.md:83-85: a removed case stops automatic
\* publication, so a candidate whose diff lost a case never becomes inventory.
RemovalStopsPublication ==
  \A t \in tombstones : t.event = "removed" => t.candidate \notin inventory[t.source]

\* docs/sync/incremental-sync-v1.md:85-86: ready private inventory can remain
\* for a same-candidate retry, so no_change is answered of decided runs only.
NoChangeIsSettled ==
  [][\A w \in Runners : NoChange(w) => Row(w).state = "completed"]_vars
=============================================================================
