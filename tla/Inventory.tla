----------------------------- MODULE Inventory -----------------------------
(***************************************************************************)
(* From a commit to ready inventory. A call extracts the registered commit *)
(* into a package (ingestion/pipeline.py) out of a worktree of the source's *)
(* mirror (ingestion/git_snapshot.py), and imports the package: images to  *)
(* the object store (inventory/object_store.py), then one transaction with *)
(* every row (inventory/importer.py, inventory/database.py). Scheduled     *)
(* synchronisation and the one-shot import of fixed history both do this;  *)
(* they differ in the registry they read and in what follows.              *)
(*                                                                         *)
(* A key is an idempotency key: commit, adapter strategy and contract.     *)
(* What the adapter makes of a key is data: its cases, files and images.   *)
(* A deployment may change it, and shows as another semantic digest.       *)
(***************************************************************************)
EXTENDS Integers, FiniteSets

CONSTANTS
  Workers,      \* processes that run an extraction and its import
  Keys,         \* idempotency keys of one source
  Commit,       \* Commit[k]: the revision a key extracts
  CasesOf,      \* CasesOf[k]: the case keys the strategy finds there
  FilesOf,      \* FilesOf[k]: the source files its evidence names
  ImagesOf,     \* ImagesOf[k]: content hashes of its images
  Registered,   \* the key the registry names at first
  Courses       \* BOUND: the events that may occur in one behaviour, each once

ASSUME InventoryAssumption ==
  /\ Registered \in Keys
  /\ \A k \in Keys : IsFiniteSet(FilesOf[k])

None == -1
Left == "left"          \* a directory whose process was killed
Events == {"raise", "kill", "unanswered", "edit", "deploy"}
Modes == {"sync", "fixed_history"}

\* program points between taking and removing the lock file
Extracting == {"fetching", "cloning", "parsing", "candidate", "closing"}
\* program points that hold the advisory lock of the package
Importing == {"refetching", "uploading", "stored", "inserting", "inserted"}

VARIABLES
  registry,    \* the registered key and the version of its other fields
  code,        \* version of the deployed adapters
  lockFiles,   \* keys with a lock file beside the packages
  mirror,      \* the bare clone: absent, opening (no remote yet) or usable
  worktrees,   \* checked out snapshots, by process
  candidates,  \* package directories that are being written, by process
  packages,    \* packages[k]: semantic digest of the published package
  objects,     \* images in the object store
  rows,        \* rows[k]: the ready adapter run of a key
  files,       \* source_files of each commit
  versions,    \* source_case_versions: <<commit, case, key of its run>>
  images,      \* assets
  retained,    \* commits with a retained ref in the mirror
  canonical,   \* commits whose cases were canonicalised
  worker,      \* locals of each call, and the last answer
  spent        \* kinds of event outside the happy path that have occurred

vars == <<registry, code, lockFiles, mirror, worktrees, candidates, packages, objects,
          rows, files, versions, images, retained, canonical, worker, spent>>
disk == <<lockFiles, mirror, worktrees, candidates, packages>>
database == <<rows, files, versions, images>>
after == <<retained, canonical>>
world == <<registry, code, spent>>

NoRow == [digest |-> None, record |-> None]
Nobody == [pc |-> "idle", mode |-> "sync", key |-> Registered, record |-> 0, digest |-> 0,
           todo |-> {}, existing |-> "no", answer |-> "none"]

Init ==
  /\ registry = [key |-> Registered, record |-> 0]
  /\ code = 0
  /\ lockFiles = {}
  /\ mirror = "absent"
  /\ worktrees = {}
  /\ candidates = {}
  /\ packages = [k \in Keys |-> None]
  /\ objects = {}
  /\ rows = [k \in Keys |-> NoRow]
  /\ files = {}
  /\ versions = {}
  /\ images = {}
  /\ retained = {}
  /\ canonical = {}
  /\ worker = [w \in Workers |-> Nobody]
  /\ spent = {}

-----------------------------------------------------------------------------
At(w, p) == worker[w].pc = p
Key(w) == worker[w].key
Goto(w, p) == worker' = [worker EXCEPT ![w].pc = p]
Answer(w, a) == worker' = [worker EXCEPT ![w] = [Nobody EXCEPT !.answer = a]]
Spend(e) == e \notin spent /\ (\E c \in Courses : spent \cup {e} \subseteq c) /\ spent' = spent \cup {e}

\* load_source_config. A synchronisation works on authority files of its own,
\* copied from the registry now; the others read the registry file again later.
Start(w, m) ==
  /\ At(w, "idle")
  /\ worker' = [worker EXCEPT ![w] =
       [Nobody EXCEPT !.pc = "locking", !.mode = m, !.key = registry.key,
                      !.record = registry.record, !.digest = code]]
  /\ UNCHANGED <<disk, objects, database, after, world>>

-----------------------------------------------------------------------------
(* Extraction, under the lock file of the key.                             *)

Lock(w) ==
  /\ At(w, "locking")
  /\ Key(w) \notin lockFiles
  /\ lockFiles' = lockFiles \cup {Key(w)}
  /\ Goto(w, "fetching")
  /\ UNCHANGED <<mirror, worktrees, candidates, packages, objects, database, after, world>>

\* mutant: the loser runs the finally clause too
RunLockedUnlinks(w) ==
  /\ At(w, "locking")
  /\ Key(w) \in lockFiles
  /\ lockFiles' = lockFiles \ {Key(w)}
  /\ Answer(w, "refused")
  /\ UNCHANGED <<mirror, worktrees, candidates, packages, objects, database, after, world>>

RunLocked(w) ==
  /\ At(w, "locking")
  /\ Key(w) \in lockFiles
  /\ Answer(w, "refused")
  /\ UNCHANGED <<disk, objects, database, after, world>>

\* the directory of a mirror exists before git has configured its remote
BeginClone(w) ==
  /\ At(w, "fetching")
  /\ mirror = "absent"
  /\ mirror' = "opening"
  /\ Goto(w, "cloning")
  /\ UNCHANGED <<lockFiles, worktrees, candidates, packages, objects, database, after, world>>

ConfigureRemote(w) ==
  /\ At(w, "cloning")
  /\ mirror = "opening"
  /\ mirror' = "usable"
  /\ UNCHANGED <<lockFiles, worktrees, candidates, packages, objects, database, after, worker, world>>

EndClone(w) ==
  /\ At(w, "cloning")
  /\ mirror = "usable"
  /\ Goto(w, "fetching")
  /\ UNCHANGED <<disk, objects, database, after, world>>

\* a mirror that went away with somebody else's clone is made again
CloneAgain(w) ==
  /\ worker[w].pc \in {"refetching", "finishing"}
  /\ mirror = "absent"
  /\ mirror' = "usable"
  /\ UNCHANGED <<lockFiles, worktrees, candidates, packages, objects, database, after, worker, world>>

\* fetch the exact commit and check it out, for the extraction or the import
Snapshot(w) ==
  /\ mirror = "usable"
  /\ worktrees' = worktrees \cup {w}
  /\ \/ At(w, "fetching") /\ Goto(w, "parsing")
     \/ /\ At(w, "refetching")
        /\ worker' = [worker EXCEPT ![w] =
                        [@ EXCEPT !.pc = "uploading", !.todo = ImagesOf[Key(w)]]]
  /\ UNCHANGED <<lockFiles, mirror, candidates, packages, objects, database, after, world>>

\* parse, read every image, validate, and write the candidate, manifest last
WriteCandidate(w) ==
  /\ At(w, "parsing")
  /\ candidates' = candidates \cup {w}
  /\ Goto(w, "candidate")
  /\ UNCHANGED <<lockFiles, mirror, worktrees, packages, objects, database, after, world>>

\* mutant: the candidate replaces whatever package is there
PublishOver(w) ==
  /\ At(w, "candidate")
  /\ packages' = [packages EXCEPT ![Key(w)] = worker[w].digest]
  /\ candidates' = candidates \ {w}
  /\ Goto(w, "closing")
  /\ UNCHANGED <<lockFiles, mirror, worktrees, objects, database, after, world>>

\* one os.replace, or the published package is verified and the candidate removed
Publish(w) ==
  /\ At(w, "candidate")
  /\ packages[Key(w)] \in {None, worker[w].digest}
  /\ packages' = [packages EXCEPT ![Key(w)] = worker[w].digest]
  /\ candidates' = candidates \ {w}
  /\ Goto(w, "closing")
  /\ UNCHANGED <<lockFiles, mirror, worktrees, objects, database, after, world>>

\* the context managers leave in turn: the worktree goes, then the lock file
Close(w) ==
  /\ At(w, "closing")
  /\ worktrees' = worktrees \ {w}
  /\ lockFiles' = lockFiles \ {Key(w)}
  /\ Goto(w, "packaged")
  /\ UNCHANGED <<mirror, candidates, packages, objects, database, after, world>>

-----------------------------------------------------------------------------
(* Import, under the advisory lock of the package.                         *)

\* the registry record an import writes into its run
RecordRead(w) == IF worker[w].mode = "sync" THEN worker[w].record ELSE registry.record

\* build_import_plan: the package is verified again and must be what the
\* registry file names
Plan(w) ==
  /\ At(w, "packaged")
  /\ worker[w].mode = "fixed_history" => registry.key = Key(w)
  /\ worker' = [worker EXCEPT ![w] = [@ EXCEPT !.pc = "planned", !.record = RecordRead(w)]]
  /\ UNCHANGED <<disk, objects, database, after, world>>

PlanRefused(w) ==
  /\ At(w, "packaged")
  /\ worker[w].mode = "fixed_history"
  /\ registry.key # Key(w)
  /\ Answer(w, "refused")
  /\ UNCHANGED <<disk, objects, database, after, world>>

Held(k) == \E w \in Workers : worker[w].pc \in Importing /\ Key(w) = k

TakeLock(w) ==
  /\ At(w, "planned")
  /\ ~Held(Key(w))
  /\ Goto(w, "refetching")
  /\ UNCHANGED <<disk, objects, database, after, world>>

ImportLocked(w) ==
  /\ At(w, "planned")
  /\ Held(Key(w))
  /\ Answer(w, "refused")
  /\ UNCHANGED <<disk, objects, database, after, world>>

\* mutant: the object must be new
EnsureNew(w, i) ==
  /\ At(w, "uploading")
  /\ i \in worker[w].todo \ objects
  /\ objects' = objects \cup {i}
  /\ worker' = [worker EXCEPT ![w].todo = @ \ {i}]
  /\ UNCHANGED <<disk, database, after, world>>

\* ensure_object: HEAD, and either verify the bytes that are there or PUT and
\* HEAD again. Two calls that PUT one content address write the same bytes.
EnsureObject(w, i) ==
  /\ At(w, "uploading")
  /\ i \in worker[w].todo
  /\ objects' = objects \cup {i}
  /\ worker' = [worker EXCEPT ![w].todo = @ \ {i}]
  /\ UNCHANGED <<disk, database, after, world>>

\* mutant: the transaction starts without waiting for the objects
AllStoredLater(w) ==
  /\ At(w, "uploading")
  /\ worktrees' = worktrees \ {w}
  /\ Goto(w, "stored")
  /\ UNCHANGED <<lockFiles, mirror, candidates, packages, objects, database, after, world>>

AllStored(w) ==
  /\ At(w, "uploading")
  /\ worker[w].todo = {}
  /\ worktrees' = worktrees \ {w}
  /\ Goto(w, "stored")
  /\ UNCHANGED <<lockFiles, mirror, candidates, packages, objects, database, after, world>>

Row(w) == [digest |-> worker[w].digest, record |-> worker[w].record]
FilesAt(c) == {f \in files : f[1] = c}
FileRows(k) == {<<Commit[k], f>> : f \in FilesOf[k]}
VersionRows(k) == {<<Commit[k], c, k>> : c \in CasesOf[k]}

NoExisting(w) ==
  /\ At(w, "stored")
  /\ rows[Key(w)] = NoRow
  /\ Goto(w, "inserting")
  /\ UNCHANGED <<disk, objects, database, after, world>>

\* mutant: every file of the source is counted
CompleteAnyFile(w) ==
  /\ rows[Key(w)] = Row(w)
  /\ Cardinality(files) = Cardinality(FilesOf[Key(w)])

\* existing_is_complete counts the source files of the revision, not of the run
Complete(w) ==
  /\ rows[Key(w)] = Row(w)
  /\ Cardinality(FilesAt(Commit[Key(w)])) = Cardinality(FilesOf[Key(w)])

VerifiedExisting(w) ==
  /\ At(w, "stored")
  /\ rows[Key(w)] # NoRow
  /\ Complete(w)
  /\ worker' = [worker EXCEPT ![w] = [@ EXCEPT !.pc = "inserted", !.existing = "yes"]]
  /\ UNCHANGED <<disk, objects, database, after, world>>

PackageConflict(w) ==
  /\ At(w, "stored")
  /\ rows[Key(w)] # NoRow
  /\ ~Complete(w)
  /\ Answer(w, "conflict")
  /\ UNCHANGED <<disk, objects, database, after, world>>

\* UNIQUE (source_case_id, source_revision_id)
CaseTaken(k) == \E v \in versions : v[1] = Commit[k] /\ v[2] \in CasesOf[k]

\* a content has one row, whichever key brought it
AssetRows(w) == ImagesOf[Key(w)]
\* project, revision, files, run, assets, cases, versions and their children,
\* counted before the commit, in one transaction
Insert(w) ==
  /\ At(w, "inserting")
  /\ ~CaseTaken(Key(w))
  /\ rows' = [rows EXCEPT ![Key(w)] = Row(w)]
  /\ files' = files \cup FileRows(Key(w))
  /\ versions' = versions \cup VersionRows(Key(w))
  /\ images' = images \cup AssetRows(w)
  /\ UNCHANGED <<disk, objects, after, registry, code>>

InsertReady(w) == Insert(w) /\ Goto(w, "inserted") /\ UNCHANGED spent

\* another run owns a case of this commit: the transaction is rolled back
WriteFailed(w) ==
  /\ At(w, "inserting")
  /\ CaseTaken(Key(w))
  /\ Answer(w, "failed")
  /\ UNCHANGED <<disk, objects, database, after, world>>

Unlock(w) ==
  /\ At(w, "inserted")
  /\ Goto(w, "finishing")
  /\ UNCHANGED <<disk, objects, database, after, world>>

\* synchronisation keeps the commit in the mirror, the one-shot import
\* canonicalises the revision; canonicalisation takes the latest ready run
Finish(w) ==
  /\ At(w, "finishing")
  /\ \/ /\ worker[w].mode = "sync"
        /\ mirror = "usable"
        /\ retained' = retained \cup {Commit[Key(w)]}
        /\ UNCHANGED canonical
     \/ /\ worker[w].mode = "fixed_history"
        /\ canonical' = canonical \cup {Commit[Key(w)]}
        /\ UNCHANGED retained
  /\ Answer(w, IF worker[w].existing = "yes" THEN "verified_existing" ELSE "imported")
  /\ UNCHANGED <<disk, objects, database, world>>

-----------------------------------------------------------------------------
(* Failures. An exception runs every finally clause; a kill runs none.     *)

\* what the finally clauses of a failing call remove
Unwind(w) ==
  /\ lockFiles' = IF worker[w].pc \in Extracting THEN lockFiles \ {Key(w)} ELSE lockFiles
  /\ worktrees' = worktrees \ {w}
  /\ candidates' = candidates \ {w}

\* another semantic digest is published under this key
IdempotencyConflict(w) ==
  /\ At(w, "candidate")
  /\ packages[Key(w)] \notin {None, worker[w].digest}
  /\ Unwind(w)
  /\ Answer(w, "conflict")
  /\ UNCHANGED <<mirror, packages, objects, database, after, world>>

\* `mirror.exists()` is all that is asked before fetching into it
MirrorUnusable(w) ==
  /\ worker[w].pc \in {"fetching", "refetching", "finishing"}
  /\ mirror = "opening"
  /\ Unwind(w)
  /\ Answer(w, "failed")
  /\ UNCHANGED <<mirror, packages, objects, database, after, world>>

\* a git, adapter, object store or database error. git removes the directory of
\* a clone that fails, with what others put into it, and cannot when the time
\* limit kills it.
Raise(w) ==
  /\ ~At(w, "idle")
  /\ Spend("raise")
  /\ Unwind(w)
  /\ mirror' \in {mirror} \cup IF At(w, "cloning") THEN {"absent"} ELSE {}
  /\ retained' = IF mirror' = "absent" THEN {} ELSE retained
  /\ Answer(w, "failed")
  /\ UNCHANGED <<packages, objects, database, canonical, registry, code>>

\* the worker is killed: files stay, the session and its advisory lock do not
Kill(w) ==
  /\ ~At(w, "idle")
  /\ Spend("kill")
  /\ worktrees' = {IF x = w THEN Left ELSE x : x \in worktrees}
  /\ candidates' = {IF x = w THEN Left ELSE x : x \in candidates}
  /\ Answer(w, "none")
  /\ UNCHANGED <<lockFiles, mirror, packages, objects, database, after, registry, code>>

\* the transaction commits and the connection breaks before the reply
Unanswered(w) ==
  /\ Insert(w)
  /\ Spend("unanswered")
  /\ Answer(w, "failed")

-----------------------------------------------------------------------------
\* an operator edits the source's registry entry, its commit or strategy included
Edit ==
  /\ Spend("edit")
  /\ \/ registry' = [registry EXCEPT !.record = @ + 1]
     \/ \E k \in Keys \ {registry.key} : registry' = [registry EXCEPT !.key = k]
  /\ UNCHANGED <<code, disk, objects, database, after, worker>>

\* adapters that extract other documents from the same commit
Deploy ==
  /\ Spend("deploy")
  /\ code' = code + 1
  /\ UNCHANGED <<registry, disk, objects, database, after, worker>>

Step(w) ==
  \/ \E m \in Modes : Start(w, m)
  \/ Lock(w) \/ RunLocked(w) \/ BeginClone(w) \/ ConfigureRemote(w) \/ EndClone(w)
  \/ CloneAgain(w) \/ Snapshot(w)
  \/ WriteCandidate(w) \/ Publish(w) \/ IdempotencyConflict(w) \/ Close(w)
  \/ Plan(w) \/ PlanRefused(w) \/ TakeLock(w) \/ ImportLocked(w)
  \/ (\E i \in worker[w].todo : EnsureObject(w, i)) \/ AllStored(w)
  \/ NoExisting(w) \/ VerifiedExisting(w) \/ PackageConflict(w)
  \/ InsertReady(w) \/ WriteFailed(w) \/ Unlock(w) \/ Finish(w) \/ MirrorUnusable(w)

Fault(w) == Raise(w) \/ Kill(w) \/ Unanswered(w)

Next == (\E w \in Workers : Step(w) \/ Fault(w)) \/ Edit \/ Deploy

Spec == Init /\ [][Next]_vars
\* every call goes on, and the operator or the scheduler calls again and again
FairSpec == Spec /\ \A w \in Workers : WF_vars(Step(w))

-----------------------------------------------------------------------------
(* Properties.                                                             *)

\* A ready run is complete after any sequence of kills, errors and retries:
\* every image is in the store, every file, asset and case version has its row,
\* and the package it came from still has the digest the run recorded.
ReadyIsBacked ==
  \A k \in Keys : rows[k] # NoRow =>
    /\ ImagesOf[k] \subseteq objects \cap images
    /\ FileRows(k) \subseteq files
    /\ VersionRows(k) \subseteq versions
    /\ packages[k] = rows[k].digest

\* A published package and a ready run are never replaced, also not by newer
\* adapters, another registry entry or a second process.
EvidenceIsFinal ==
  [][\A k \in Keys :
       /\ packages[k] # None => packages'[k] = packages[k]
       /\ rows[k] # NoRow => rows'[k] = rows[k]]_vars

\* Without a kill every lock file, worktree and candidate belongs to a call
\* that is using it, and one key is extracted by one call at a time.
TidyUnlessKilled ==
  "kill" \notin spent =>
    /\ lockFiles = {Key(w) : w \in {x \in Workers : worker[x].pc \in Extracting}}
    /\ worktrees = {w \in Workers : worker[w].pc \in {"parsing", "candidate", "closing", "uploading"}}
    /\ candidates = {w \in Workers : At(w, "candidate")}
    /\ \A v, w \in Workers :
         worker[v].pc \in Extracting /\ worker[w].pc \in Extracting /\ Key(v) = Key(w) => v = w

\* Sending an import again is answered with what is there: it only conflicts
\* when the registry entry changed in between, or when the commit has another
\* run (whose files are counted too). A difference of digests never gets here.
ReplayConflictsOnlyAfterEdit ==
  [][\A w \in Workers : PackageConflict(w) =>
       /\ rows[Key(w)].digest = worker[w].digest
       /\ \/ rows[Key(w)].record # worker[w].record
          \/ \E k \in Keys \ {Key(w)} : Commit[k] = Commit[Key(w)] /\ rows[k] # NoRow]_vars

\* what a retry cannot repair: a lock file or a clone that lost its process,
\* a package of older adapters, and a case another run of the commit owns
Stuck ==
  \/ "kill" \in spent /\ registry.key \in lockFiles
  \/ {"kill", "raise"} \cap spent # {} /\ mirror = "opening"
  \/ "deploy" \in spent /\ packages[registry.key] \notin {None, code}
  \/ "edit" \in spent /\ CaseTaken(registry.key)

\* A registered key is imported in the end, wherever calls failed or were
\* killed, unless they left behind what no later call removes.
ImportSettles == <>[](rows[registry.key] # NoRow \/ Stuck)
=============================================================================
