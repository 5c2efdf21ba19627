-------------------------- MODULE InventoryProofs --------------------------
(***************************************************************************)
(* Safety of the inventory for any processes, keys, contents and courses of *)
(* events. A process never works alone: what it may rely on is what others *)
(* cannot change. Packages are replaced by nobody, objects only grow, and  *)
(* the row of a key is written under the advisory lock of its package.     *)
(***************************************************************************)
EXTENDS Inventory, FiniteSetTheorems, TLAPS

Pcs == {"idle", "locking", "packaged", "planned", "finishing"} \cup Extracting \cup Importing
Answers == {"none", "refused", "conflict", "failed", "imported", "verified_existing"}
Images == UNION {ImagesOf[k] : k \in Keys}

Calls == [pc : Pcs, mode : Modes, key : Keys, record : Nat, digest : Nat,
          todo : SUBSET Images, existing : {"no", "yes"}, answer : Answers]
Entries == [key : Keys, record : Nat]
Rows == [digest : Nat, record : Nat] \cup {NoRow}

TypeOK ==
  /\ registry \in Entries
  /\ code \in Nat
  /\ packages \in [Keys -> Nat \cup {None}]
  /\ rows \in [Keys -> Rows]
  /\ worker \in [Workers -> Calls]

-----------------------------------------------------------------------------
(* The inductive invariant.                                                *)

\* a call that has its package
Packaged == {"closing", "packaged", "planned", "finishing"} \cup Importing

\* what a call relies on: its package has its digest, the objects it is done
\* with are stored, and nobody wrote the row that it found missing
Sound(c) ==
  /\ c.pc \in Packaged => packages[c.key] = c.digest
  /\ c.pc = "uploading" => ImagesOf[c.key] \ c.todo \subseteq objects
  /\ c.pc \in {"stored", "inserting"} => ImagesOf[c.key] \subseteq objects
  /\ c.pc = "inserting" => rows[c.key] = NoRow

\* the advisory lock of a package has one owner
Exclusive ==
  \A v, w \in Workers :
    worker[v].pc \in Importing /\ worker[w].pc \in Importing /\ Key(v) = Key(w) => v = w

\* every file row belongs to a ready run of its commit
FilesExplained == \A f \in files : \E k \in Keys : rows[k] # NoRow /\ f \in FileRows(k)

IndInv ==
  /\ TypeOK
  /\ Exclusive
  /\ \A w \in Workers : Sound(worker[w])
  /\ ReadyIsBacked
  /\ FilesExplained

-----------------------------------------------------------------------------
(* Records of a call.                                                      *)

\* Goto changes the program point of a call only.
LEMMA MovedCall ==
  ASSUME NEW c \in Calls, NEW p \in Pcs
  PROVE  /\ [c EXCEPT !.pc = p] \in Calls
         /\ [c EXCEPT !.pc = p].pc = p
         /\ [c EXCEPT !.pc = p].key = c.key
         /\ [c EXCEPT !.pc = p].digest = c.digest
         /\ [c EXCEPT !.pc = p].todo = c.todo
  BY DEF Calls

\* A call that answers holds nothing and keeps its answer.
LEMMA AnsweredCall ==
  ASSUME NEW a \in Answers
  PROVE  /\ [Nobody EXCEPT !.answer = a] \in Calls
         /\ [Nobody EXCEPT !.answer = a].pc = "idle"
  BY InventoryAssumption DEF Nobody, Calls, Pcs, Modes, Answers

\* A call that has not published its package relies on nothing.
LEMMA NothingToRelyOn ==
  ASSUME NEW c, c.pc \notin Packaged
  PROVE  Sound(c)
  BY DEF Sound, Packaged, Importing

\* What a call relies on survives every step of another: packages stay, objects
\* grow, and the row of a key is written by the owner of its lock.
LEMMA Relied ==
  ASSUME NEW c \in Calls, Sound(c),
         \A k \in Keys : packages[k] # None => packages'[k] = packages[k],
         objects \subseteq objects',
         c.pc = "inserting" => rows'[c.key] = rows[c.key]
  PROVE  Sound(c)'
  <1>1. c.key \in Keys /\ c.digest \in Nat /\ c.digest # None
    BY DEF Calls, None
  <1> QED  BY <1>1 DEF Sound

-----------------------------------------------------------------------------
(* One step of one call.                                                   *)

\* The tables keep their types, and nothing another call relies on changes.
Harmless(w) ==
  /\ registry' \in Entries
  /\ code' \in Nat
  /\ packages' \in [Keys -> Nat \cup {None}]
  /\ rows' \in [Keys -> Rows]
  /\ \A k \in Keys : packages[k] # None => packages'[k] = packages[k]
  /\ objects \subseteq objects'
  /\ \A v \in Workers \ {w} : At(v, "inserting") => rows'[Key(v)] = rows[Key(v)]

\* A step that turns one call into a sound one, and takes no lock that is
\* held, keeps types, locks and what every call relies on.
LEMMA CallStep ==
  ASSUME IndInv, NEW w \in Workers, NEW c \in Calls,
         worker' = [worker EXCEPT ![w] = c],
         Harmless(w), Sound(c)',
         c.pc \in Importing =>
           \A v \in Workers \ {w} : worker[v].pc \in Importing => Key(v) # c.key
  PROVE  TypeOK' /\ Exclusive' /\ \A v \in Workers : Sound(worker[v])'
  <1>1. TypeOK'
    BY DEF IndInv, TypeOK, Harmless
  <1>2. worker'[w] = c /\ \A v \in Workers \ {w} : worker'[v] = worker[v]
    BY DEF IndInv, TypeOK
  <1>3. Exclusive'
    BY <1>2 DEF IndInv, Exclusive, Key
  <1>4. ASSUME NEW v \in Workers
        PROVE  Sound(worker[v])'
    <2>1. CASE v = w
      BY <1>2, <2>1 DEF Sound
    <2>2. CASE v # w
      <3>1. PICK d \in Calls : d = worker[v]
        BY DEF IndInv, TypeOK
      <3>2. Sound(d)
        BY <3>1 DEF IndInv
      <3>3. d.pc = "inserting" => rows'[d.key] = rows[d.key]
        BY <2>2, <3>1 DEF Harmless, At, Key
      <3>4. Sound(d)'
        BY <3>2, <3>3, Relied DEF Harmless
      <3> QED  BY <1>2, <2>2, <3>1, <3>4 DEF Sound
    <2> QED  BY <2>1, <2>2
  <1> QED  BY <1>1, <1>3, <1>4

\* Most steps change no table.
Quiet == UNCHANGED <<registry, code, packages, objects, rows, files, versions, images>>

\* ... and then the tables say what they said.
LEMMA QuietTables ==
  ASSUME IndInv, Quiet, NEW w \in Workers
  PROVE  Harmless(w) /\ ReadyIsBacked' /\ FilesExplained'
  BY DEF IndInv, TypeOK, Quiet, Harmless, ReadyIsBacked, FilesExplained, FileRows, VersionRows

\* The step of a call that changes no table.
LEMMA QuietStep ==
  ASSUME IndInv, Quiet, NEW w \in Workers, NEW c \in Calls,
         worker' = [worker EXCEPT ![w] = c], Sound(c),
         c.pc \in Importing =>
           \A v \in Workers \ {w} : worker[v].pc \in Importing => Key(v) # c.key
  PROVE  IndInv'
  <1>1. Harmless(w) /\ ReadyIsBacked' /\ FilesExplained'
    BY QuietTables
  <1>2. Sound(c)'
    BY DEF Quiet, Sound
  <1> QED  BY <1>1, <1>2, CallStep DEF IndInv

\* A call that answers without touching a table.
LEMMA AnswerStep ==
  ASSUME IndInv, Quiet, NEW w \in Workers, NEW a \in Answers, Answer(w, a)
  PROVE  IndInv'
  <1>1. PICK c \in Calls : c = [Nobody EXCEPT !.answer = a]
    BY AnsweredCall
  <1>2. c.pc = "idle"
    BY <1>1, AnsweredCall
  <1>3. Sound(c)
    BY <1>2, NothingToRelyOn DEF Packaged, Importing
  <1> QED  BY <1>1, <1>2, <1>3, QuietStep DEF Answer, Importing

\* A call that goes on to a point where it relies on no more than before.
LEMMA GotoStep ==
  ASSUME IndInv, Quiet, NEW w \in Workers, NEW p \in Pcs, Goto(w, p),
         p \notin {"uploading", "stored", "inserting"},
         p \in Packaged => packages[Key(w)] = worker[w].digest,
         p \in Importing => \/ worker[w].pc \in Importing
                            \/ ~Held(Key(w))
  PROVE  IndInv'
  <1>1. worker[w] \in Calls
    BY DEF IndInv, TypeOK
  <1>2. PICK c \in Calls : c = [worker[w] EXCEPT !.pc = p]
    BY <1>1, MovedCall
  <1>3. c.pc = p /\ c.key = Key(w) /\ c.digest = worker[w].digest
    BY <1>1, <1>2, MovedCall DEF Key
  <1>4. Sound(c)
    BY <1>3 DEF Sound
  <1>5. c.pc \in Importing =>
          \A v \in Workers \ {w} : worker[v].pc \in Importing => Key(v) # c.key
    BY <1>3 DEF IndInv, Exclusive, Held
  <1>6. worker' = [worker EXCEPT ![w] = c]
    BY <1>2 DEF Goto
  <1> QED  BY <1>4, <1>5, <1>6, QuietStep

-----------------------------------------------------------------------------
(* The actions.                                                            *)

\* A step of the world, or of the mirror alone, touches no call.
LEMMA WorldStep ==
  ASSUME IndInv, UNCHANGED <<packages, objects, rows, files, versions, images, worker>>,
         registry' \in Entries, code' \in Nat
  PROVE  IndInv'
  BY DEF IndInv, TypeOK, Exclusive, Key, Sound, ReadyIsBacked, FilesExplained, FileRows, VersionRows

LEMMA StartKeeps ==
  ASSUME IndInv, NEW w \in Workers, NEW m \in Modes, Start(w, m)
  PROVE  IndInv'
  <1>1. PICK r \in Entries, n \in Nat : r = registry /\ n = code
    BY DEF IndInv, TypeOK
  <1>2. DEFINE d == [Nobody EXCEPT !.pc = "locking", !.mode = m, !.key = r.key,
                                    !.record = r.record, !.digest = n]
  <1>3. d \in Calls /\ d.pc = "locking"
    BY InventoryAssumption DEF Nobody, Calls, Entries, Pcs, Answers, Modes
  <1>4. worker' = [worker EXCEPT ![w] = d]
    BY <1>1 DEF Start
  <1> HIDE DEF d
  <1>5. d.pc \notin Packaged /\ d.pc \notin Importing
    BY <1>3 DEF Packaged, Importing
  <1>6. Sound(d)
    BY <1>5, NothingToRelyOn
  <1>7. Quiet
    BY DEF Start, Quiet, disk, database, world
  <1> QED  BY <1>3, <1>4, <1>5, <1>6, <1>7, QuietStep

\* the actions of an extraction, except Publish
LEMMA ExtractionKeeps ==
  ASSUME IndInv, NEW w \in Workers,
         \/ Lock(w) \/ RunLocked(w) \/ BeginClone(w) \/ ConfigureRemote(w) \/ EndClone(w)
         \/ CloneAgain(w) \/ WriteCandidate(w) \/ IdempotencyConflict(w) \/ Close(w)
  PROVE  IndInv'
  <1>1. Quiet
    BY DEF Quiet, Lock, RunLocked, BeginClone, ConfigureRemote, EndClone, CloneAgain,
           WriteCandidate, IdempotencyConflict, Close, disk, database, world
  <1>2. CASE ConfigureRemote(w) \/ CloneAgain(w)
    <2>1. worker' = worker /\ registry' = registry /\ code' = code
      BY <1>2 DEF ConfigureRemote, CloneAgain, world
    <2> QED  BY <1>1, <2>1, WorldStep DEF Quiet, IndInv, TypeOK
  <1>3. CASE RunLocked(w) \/ IdempotencyConflict(w)
    BY <1>1, <1>3, AnswerStep DEF RunLocked, IdempotencyConflict, Answers
  <1>4. CASE Lock(w) \/ BeginClone(w) \/ EndClone(w) \/ WriteCandidate(w)
    <2>1. PICK p \in Extracting \ {"closing"} : Goto(w, p)
      BY <1>4 DEF Lock, BeginClone, EndClone, WriteCandidate, Extracting
    <2>2. p \in Pcs /\ p \notin Packaged /\ p \notin Importing
      BY <2>1 DEF Pcs, Packaged, Extracting, Importing
    <2> QED  BY <1>1, <2>1, <2>2, GotoStep DEF Packaged, Importing
  <1>5. CASE Close(w)
    <2>1. packages[Key(w)] = worker[w].digest
      BY <1>5 DEF Close, At, IndInv, Sound, Packaged, Key
    <2> QED  BY <1>1, <1>5, <2>1, GotoStep DEF Close, Pcs, Importing
  <1> QED  BY <1>2, <1>3, <1>4, <1>5

\* A package is replaced by nobody: Publish writes a digest where there was none.
LEMMA PublishKeeps ==
  ASSUME IndInv, NEW w \in Workers, Publish(w)
  PROVE  IndInv'
  <1>1. worker[w] \in Calls /\ worker[w].digest \in Nat /\ Key(w) \in Keys
    BY DEF IndInv, TypeOK, Calls, Key
  <1>2. PICK c \in Calls : c = [worker[w] EXCEPT !.pc = "closing"]
    BY <1>1, MovedCall DEF Pcs, Extracting
  <1>3. c.pc = "closing" /\ c.key = Key(w) /\ c.digest = worker[w].digest
    BY <1>1, <1>2, MovedCall DEF Key, Pcs, Extracting
  <1>4. /\ packages' \in [Keys -> Nat \cup {None}]
        /\ packages'[Key(w)] = worker[w].digest
        /\ \A k \in Keys : packages[k] # None => packages'[k] = packages[k]
    BY <1>1 DEF IndInv, TypeOK, Publish
  <1>5. UNCHANGED <<registry, code, objects, rows, files, versions, images>>
    BY DEF Publish, database, world
  <1>6. Harmless(w)
    BY <1>4, <1>5 DEF Harmless, IndInv, TypeOK
  <1>7. Sound(c)'
    BY <1>3, <1>4 DEF Sound
  <1>8. worker' = [worker EXCEPT ![w] = c]
    BY <1>2 DEF Publish, Goto
  <1>9. TypeOK' /\ Exclusive' /\ \A v \in Workers : Sound(worker[v])'
    BY <1>3, <1>6, <1>7, <1>8, CallStep DEF Importing
  <1>10. ReadyIsBacked'
    <2>1. \A k \in Keys : rows[k] # NoRow => packages[k] = rows[k].digest /\ rows[k].digest # None
      BY DEF IndInv, TypeOK, ReadyIsBacked, Rows, None
    <2> QED  BY <1>4, <1>5, <2>1 DEF IndInv, ReadyIsBacked, FileRows, VersionRows
  <1>11. FilesExplained'
    BY <1>5 DEF IndInv, FilesExplained, FileRows
  <1> QED  BY <1>9, <1>10, <1>11 DEF IndInv

\* The worktree for the extraction is parsed; the worktree for the import is
\* where the images are uploaded from, and all of them are still to do.
LEMMA SnapshotKeeps ==
  ASSUME IndInv, NEW w \in Workers, Snapshot(w)
  PROVE  IndInv'
  <1>1. Quiet
    BY DEF Quiet, Snapshot, database, world
  <1>2. CASE At(w, "fetching") /\ Goto(w, "parsing")
    BY <1>1, <1>2, GotoStep DEF Pcs, Extracting, Importing, Packaged
  <1>3. CASE /\ At(w, "refetching")
             /\ worker' = [worker EXCEPT ![w] =
                             [@ EXCEPT !.pc = "uploading", !.todo = ImagesOf[Key(w)]]]
    <2>1. PICK b \in Calls : b = worker[w]
      BY DEF IndInv, TypeOK
    <2>2. b.key \in Keys /\ ImagesOf[b.key] \subseteq Images
      BY DEF Calls, Images
    <2>3. PICK c : c = [b EXCEPT !.pc = "uploading", !.todo = ImagesOf[b.key]]
      OBVIOUS
    <2>4. /\ c \in Calls
          /\ c.pc = "uploading" /\ c.key = b.key /\ c.digest = b.digest /\ c.todo = ImagesOf[b.key]
      BY <2>2, <2>3 DEF Calls, Pcs, Importing
    <2>5. packages[b.key] = b.digest
      BY <1>3, <2>1 DEF IndInv, Sound, At, Packaged, Importing
    <2>6. Sound(c)
      BY <2>4, <2>5 DEF Sound
    <2>7. \A v \in Workers \ {w} : worker[v].pc \in Importing => Key(v) # c.key
      BY <1>3, <2>1, <2>4 DEF IndInv, Exclusive, Importing, At, Key
    <2>8. worker' = [worker EXCEPT ![w] = c]
      BY <1>3, <2>1, <2>3 DEF Key
    <2> QED  BY <1>1, <2>4, <2>6, <2>7, <2>8, QuietStep
  <1> QED  BY <1>2, <1>3 DEF Snapshot

\* build_import_plan reads the registry again and keeps the package.
LEMMA PlanKeeps ==
  ASSUME IndInv, NEW w \in Workers, Plan(w)
  PROVE  IndInv'
  <1>1. Quiet
    BY DEF Quiet, Plan, disk, database, world
  <1>2. PICK b \in Calls, n \in Nat : b = worker[w] /\ n = RecordRead(w)
    BY DEF IndInv, TypeOK, Calls, Entries, RecordRead
  <1>3. PICK c : c = [b EXCEPT !.pc = "planned", !.record = n]
    OBVIOUS
  <1>4. c \in Calls /\ c.pc = "planned" /\ c.key = b.key /\ c.digest = b.digest
    BY <1>3, <1>2 DEF Calls, Pcs
  <1>5. Sound(c)
    BY <1>2, <1>4 DEF Plan, At, IndInv, Sound, Packaged
  <1>6. worker' = [worker EXCEPT ![w] = c]
    BY <1>2, <1>3 DEF Plan
  <1> QED  BY <1>1, <1>4, <1>5, <1>6, QuietStep DEF Importing

\* the actions of an import that answer, or go on with what they had
LEMMA ImportKeeps ==
  ASSUME IndInv, NEW w \in Workers,
         \/ PlanRefused(w) \/ TakeLock(w) \/ ImportLocked(w) \/ PackageConflict(w)
         \/ WriteFailed(w) \/ Unlock(w) \/ Finish(w) \/ MirrorUnusable(w)
  PROVE  IndInv'
  <1>1. Quiet
    BY DEF Quiet, PlanRefused, TakeLock, ImportLocked, PackageConflict, WriteFailed, Unlock,
           Finish, MirrorUnusable, disk, database, world
  <1>2. CASE TakeLock(w) \/ Unlock(w)
    <2>1. PICK p \in {"refetching", "finishing"} : Goto(w, p) /\ (p \in Importing => ~Held(Key(w)))
      BY <1>2 DEF TakeLock, Unlock, Importing
    <2>2. packages[Key(w)] = worker[w].digest
      BY <1>2 DEF TakeLock, Unlock, At, IndInv, Sound, Packaged, Importing, Key
    <2> QED  BY <1>1, <2>1, <2>2, GotoStep DEF Pcs, Importing
  <1>3. CASE \/ PlanRefused(w) \/ ImportLocked(w) \/ PackageConflict(w)
             \/ WriteFailed(w) \/ Finish(w) \/ MirrorUnusable(w)
    <2>1. PICK a \in Answers : Answer(w, a)
      BY <1>3 DEF PlanRefused, ImportLocked, PackageConflict, WriteFailed, Finish,
                  MirrorUnusable, Answers
    <2> QED  BY <1>1, <2>1, AnswerStep
  <1> QED  BY <1>2, <1>3

\* Objects only grow, and what is uploaded leaves the list.
LEMMA EnsureObjectKeeps ==
  ASSUME IndInv, NEW w \in Workers, NEW i \in worker[w].todo, EnsureObject(w, i)
  PROVE  IndInv'
  <1>1. PICK b \in Calls : b = worker[w]
    BY DEF IndInv, TypeOK
  <1>2. PICK j : j = i
    OBVIOUS
  <1>3. PICK c : c = [b EXCEPT !.todo = b.todo \ {j}]
    OBVIOUS
  <1>4. /\ c \in Calls
        /\ c.pc = b.pc /\ c.key = b.key /\ c.digest = b.digest /\ c.todo = b.todo \ {j}
    BY <1>3 DEF Calls
  <1>5. b.pc = "uploading" /\ Sound(b)
    BY <1>1 DEF EnsureObject, At, IndInv
  <1>6. objects' = objects \cup {j} /\ worker' = [worker EXCEPT ![w] = c]
    BY <1>1, <1>2, <1>3 DEF EnsureObject
  <1>7. UNCHANGED <<registry, code, packages, rows, files, versions, images>>
    BY DEF EnsureObject, disk, database, world
  <1>8. Sound(c)'
    BY <1>4, <1>5, <1>6, <1>7 DEF Sound
  <1>9. Harmless(w)
    BY <1>6, <1>7 DEF Harmless, IndInv, TypeOK
  <1>10. \A v \in Workers \ {w} : worker[v].pc \in Importing => Key(v) # c.key
    BY <1>1, <1>4, <1>5 DEF IndInv, Exclusive, Importing, Key
  <1>11. TypeOK' /\ Exclusive' /\ \A v \in Workers : Sound(worker[v])'
    BY <1>4, <1>6, <1>8, <1>9, <1>10, CallStep
  <1>12. ReadyIsBacked'
    BY <1>6, <1>7 DEF IndInv, ReadyIsBacked, FileRows, VersionRows
  <1>13. FilesExplained'
    BY <1>7 DEF IndInv, FilesExplained, FileRows
  <1> QED  BY <1>11, <1>12, <1>13 DEF IndInv

\* When nothing is left to upload every image of the package is stored.
LEMMA StoredKeeps ==
  ASSUME IndInv, NEW w \in Workers, AllStored(w) \/ NoExisting(w)
  PROVE  IndInv'
  <1>1. Quiet
    BY DEF Quiet, AllStored, NoExisting, disk, database, world
  <1>2. PICK p \in {"stored", "inserting"} : Goto(w, p) /\ (p = "inserting" => NoExisting(w))
    BY DEF AllStored, NoExisting
  <1>3. PICK b \in Calls : b = worker[w]
    BY DEF IndInv, TypeOK
  <1>4. PICK c \in Calls : c = [b EXCEPT !.pc = p]
    BY <1>2, MovedCall DEF Pcs, Importing
  <1>5. c.pc = p /\ c.key = b.key /\ c.digest = b.digest
    BY <1>2, <1>4, MovedCall DEF Pcs, Importing
  <1>6. Sound(b) /\ b.pc \in {"uploading", "stored"} /\ (b.pc = "uploading" => b.todo = {})
    BY <1>3 DEF AllStored, NoExisting, At, IndInv
  <1>7. p = "inserting" => rows[b.key] = NoRow
    BY <1>2, <1>3 DEF NoExisting, Key
  <1>8. packages[b.key] = b.digest /\ ImagesOf[b.key] \subseteq objects
    BY <1>6 DEF Sound, Packaged, Importing
  <1>9. Sound(c)
    BY <1>2, <1>5, <1>7, <1>8 DEF Sound
  <1>10. \A v \in Workers \ {w} : worker[v].pc \in Importing => Key(v) # c.key
    BY <1>3, <1>5, <1>6 DEF IndInv, Exclusive, Importing, Key
  <1>11. worker' = [worker EXCEPT ![w] = c]
    BY <1>2, <1>3, <1>4 DEF Goto
  <1> QED  BY <1>1, <1>9, <1>10, <1>11, QuietStep

\* A run that is there already is verified and kept.
LEMMA VerifiedKeeps ==
  ASSUME IndInv, NEW w \in Workers, VerifiedExisting(w)
  PROVE  IndInv'
  <1>1. Quiet
    BY DEF Quiet, VerifiedExisting, disk, database, world
  <1>2. PICK b \in Calls : b = worker[w]
    BY DEF IndInv, TypeOK
  <1>3. PICK c : c = [b EXCEPT !.pc = "inserted", !.existing = "yes"]
    OBVIOUS
  <1>4. c \in Calls /\ c.pc = "inserted" /\ c.key = b.key /\ c.digest = b.digest
    BY <1>3 DEF Calls, Pcs, Importing
  <1>5. packages[b.key] = b.digest /\ b.pc = "stored"
    BY <1>2 DEF VerifiedExisting, At, IndInv, Sound, Packaged, Importing
  <1>6. Sound(c)
    BY <1>4, <1>5 DEF Sound
  <1>7. \A v \in Workers \ {w} : worker[v].pc \in Importing => Key(v) # c.key
    BY <1>2, <1>4, <1>5 DEF IndInv, Exclusive, Importing, Key
  <1>8. worker' = [worker EXCEPT ![w] = c]
    BY <1>2, <1>3 DEF VerifiedExisting
  <1> QED  BY <1>1, <1>4, <1>6, <1>7, <1>8, QuietStep

\* The one transaction, seen by what it writes: the run of a key that had none,
\* with its digest of the package, and every row that belongs to it.
LEMMA InsertTables ==
  ASSUME IndInv, NEW w \in Workers, Insert(w)
  PROVE  Harmless(w) /\ ReadyIsBacked' /\ FilesExplained'
  <1>1. PICK b \in Calls : b = worker[w]
    BY DEF IndInv, TypeOK
  <1>2. /\ b.pc = "inserting" /\ b.key \in Keys /\ b.digest \in Nat /\ b.record \in Nat
        /\ Key(w) = b.key
    BY <1>1 DEF Insert, At, Calls, Key
  <1>3. packages[b.key] = b.digest /\ ImagesOf[b.key] \subseteq objects /\ rows[b.key] = NoRow
    BY <1>1, <1>2 DEF IndInv, Sound, Packaged, Importing
  <1>4. PICK r : r = Row(w)
    OBVIOUS
  <1>5. r \in Rows /\ r # NoRow /\ r.digest = b.digest
    BY <1>1, <1>2, <1>4 DEF Row, Rows, NoRow, None
  <1>6. /\ rows' \in [Keys -> Rows]
        /\ rows'[b.key] = r
        /\ \A k \in Keys \ {b.key} : rows'[k] = rows[k]
    BY <1>2, <1>4, <1>5 DEF IndInv, TypeOK, Insert
  <1>7. /\ files' = files \cup FileRows(b.key)
        /\ versions' = versions \cup VersionRows(b.key)
        /\ images' = images \cup ImagesOf[b.key]
    BY <1>2 DEF Insert, AssetRows
  <1>8. UNCHANGED <<registry, code, packages, objects>>
    BY DEF Insert, disk
  <1>9. \A v \in Workers \ {w} : At(v, "inserting") => Key(v) # b.key /\ Key(v) \in Keys
    BY <1>1, <1>2 DEF IndInv, TypeOK, Calls, Exclusive, Importing, At, Key
  <1>10. Harmless(w)
    BY <1>6, <1>8, <1>9 DEF Harmless, IndInv, TypeOK
  <1>11. ReadyIsBacked'
    BY <1>2, <1>3, <1>5, <1>6, <1>7, <1>8 DEF IndInv, ReadyIsBacked, FileRows, VersionRows
  <1>12. FilesExplained'
    <2>1. \A k \in Keys : rows[k] # NoRow => rows'[k] # NoRow
      BY <1>3, <1>5, <1>6
    <2>2. ASSUME NEW f \in files'
          PROVE  \E k \in Keys : rows'[k] # NoRow /\ f \in FileRows(k)
      <3>1. CASE f \in files
        BY <2>1, <3>1 DEF IndInv, FilesExplained
      <3>2. CASE f \in FileRows(b.key)
        BY <1>2, <1>5, <1>6, <3>2
      <3> QED  BY <1>7, <2>2, <3>1, <3>2
    <2> QED  BY <2>2 DEF FilesExplained, FileRows
  <1> QED  BY <1>10, <1>11, <1>12

\* The transaction keeps the invariant, whether its reply arrives or not.
LEMMA InsertKeeps ==
  ASSUME IndInv, NEW w \in Workers, InsertReady(w) \/ Unanswered(w)
  PROVE  IndInv'
  <1>1. Insert(w)
    BY DEF InsertReady, Unanswered
  <1>2. Harmless(w) /\ ReadyIsBacked' /\ FilesExplained'
    BY <1>1, InsertTables
  <1>3. PICK b \in Calls : b = worker[w]
    BY DEF IndInv, TypeOK
  <1>4. PICK c \in Calls : /\ worker' = [worker EXCEPT ![w] = c]
                           /\ \/ c.pc = "idle"
                              \/ c.pc = "inserted" /\ c.key = b.key /\ c.digest = b.digest
    <2>1. CASE InsertReady(w)
      <3>1. PICK c \in Calls : c = [b EXCEPT !.pc = "inserted"]
        BY MovedCall DEF Pcs, Importing
      <3>2. c.pc = "inserted" /\ c.key = b.key /\ c.digest = b.digest
        BY <3>1, MovedCall DEF Pcs, Importing
      <3>3. worker' = [worker EXCEPT ![w] = c]
        BY <1>3, <2>1, <3>1 DEF InsertReady, Goto
      <3> QED  BY <3>2, <3>3
    <2>2. CASE Unanswered(w)
      <3>1. PICK c \in Calls : c = [Nobody EXCEPT !.answer = "failed"]
        BY AnsweredCall DEF Answers
      <3>2. c.pc = "idle"
        BY <3>1, AnsweredCall DEF Answers
      <3>3. worker' = [worker EXCEPT ![w] = c]
        BY <2>2, <3>1 DEF Unanswered, Answer
      <3> QED  BY <3>2, <3>3
    <2> QED  BY <2>1, <2>2
  <1>5. b.pc = "inserting" /\ packages[b.key] = b.digest /\ packages' = packages
    BY <1>1, <1>3 DEF Insert, At, IndInv, Sound, Packaged, Importing, disk
  <1>6. Sound(c)'
    BY <1>4, <1>5 DEF Sound, Packaged, Importing
  <1>7. c.pc \in Importing =>
          \A v \in Workers \ {w} : worker[v].pc \in Importing => Key(v) # c.key
    BY <1>3, <1>4, <1>5 DEF IndInv, Exclusive, Importing, Key
  <1> QED  BY <1>2, <1>4, <1>6, <1>7, CallStep DEF IndInv

\* An exception and a kill end the call and leave the tables alone.
LEMMA FaultKeeps ==
  ASSUME IndInv, NEW w \in Workers, Raise(w) \/ Kill(w)
  PROVE  IndInv'
  <1>1. Quiet
    BY DEF Quiet, Raise, Kill, database
  <1> QED  BY <1>1, AnswerStep DEF Raise, Kill, Answers

\* An edit of the registry and a deployment.
LEMMA WorldKeeps ==
  ASSUME IndInv, Edit \/ Deploy
  PROVE  IndInv'
  <1>1. UNCHANGED <<packages, objects, rows, files, versions, images, worker>>
    BY DEF Edit, Deploy, disk, database
  <1>2. registry' \in Entries /\ code' \in Nat
    BY DEF IndInv, TypeOK, Entries, Edit, Deploy
  <1> QED  BY <1>1, <1>2, WorldStep

\* Every step keeps the invariant.
LEMMA StepKeeps ==
  ASSUME IndInv, [Next]_vars
  PROVE  IndInv'
  <1>1. CASE UNCHANGED vars
    BY <1>1, WorldStep DEF vars, IndInv, TypeOK
  <1>2. ASSUME NEW w \in Workers, Step(w) \/ Fault(w)
        PROVE  IndInv'
    <2>1. CASE \/ (\E m \in Modes : Start(w, m)) \/ Publish(w) \/ Snapshot(w) \/ Plan(w)
      BY <2>1, StartKeeps, PublishKeeps, SnapshotKeeps, PlanKeeps
    <2>2. CASE \/ Lock(w) \/ RunLocked(w) \/ BeginClone(w) \/ ConfigureRemote(w) \/ EndClone(w)
               \/ CloneAgain(w) \/ WriteCandidate(w) \/ IdempotencyConflict(w) \/ Close(w)
      BY <2>2, ExtractionKeeps
    <2>3. CASE \/ PlanRefused(w) \/ TakeLock(w) \/ ImportLocked(w) \/ PackageConflict(w)
               \/ WriteFailed(w) \/ Unlock(w) \/ Finish(w) \/ MirrorUnusable(w)
      BY <2>3, ImportKeeps
    <2>4. CASE (\E i \in worker[w].todo : EnsureObject(w, i)) \/ AllStored(w) \/ NoExisting(w)
               \/ VerifiedExisting(w)
      BY <2>4, EnsureObjectKeeps, StoredKeeps, VerifiedKeeps
    <2>5. CASE InsertReady(w) \/ Fault(w)
      BY <2>5, InsertKeeps, FaultKeeps DEF Fault
    <2> QED  BY <1>2, <2>1, <2>2, <2>3, <2>4, <2>5 DEF Step
  <1> QED  BY <1>1, <1>2, WorldKeeps DEF Next

\* The empty inventory.
LEMMA InitHolds == Init => IndInv
  <1> SUFFICES ASSUME Init PROVE IndInv
    OBVIOUS
  <1>1. Nobody \in Calls /\ Nobody.pc = "idle"
    BY InventoryAssumption DEF Nobody, Calls, Pcs, Modes, Answers
  <1>2. TypeOK
    BY <1>1, InventoryAssumption DEF Init, TypeOK, Entries, Rows
  <1>3. Exclusive
    BY <1>1 DEF Init, Exclusive, Importing
  <1>4. \A w \in Workers : Sound(worker[w])
    BY <1>1, NothingToRelyOn DEF Init, Packaged, Importing
  <1>5. ReadyIsBacked /\ FilesExplained
    BY DEF Init, ReadyIsBacked, FilesExplained
  <1> QED  BY <1>2, <1>3, <1>4, <1>5 DEF IndInv

-----------------------------------------------------------------------------
(* What follows from it.                                                   *)

\* IndInv is an invariant of the inventory.
THEOREM Invariance == Spec => []IndInv
  BY InitHolds, StepKeeps, PTL DEF Spec

\* The registry, the packages, the rows of the runs and the locals of every
\* call keep their types.
THEOREM Typing == Spec => []TypeOK
  <1>1. IndInv => TypeOK
    BY DEF IndInv
  <1> QED  BY <1>1, Invariance, PTL

\* A ready run is backed by its package, objects and rows, for any number of
\* processes and keys, whatever raises, is killed or loses its answer.
THEOREM Backed == Spec => []ReadyIsBacked
  <1>1. IndInv => ReadyIsBacked
    BY DEF IndInv
  <1> QED  BY <1>1, Invariance, PTL

\* Packages are written by Publish and runs by the transaction.
LEMMA Writers ==
  ASSUME Next
  PROVE  \/ UNCHANGED <<packages, rows>>
         \/ \E w \in Workers : Publish(w) /\ UNCHANGED rows
         \/ \E w \in Workers : Insert(w) /\ UNCHANGED packages
  <1>1. ASSUME NEW w \in Workers, Step(w) \/ Fault(w)
        PROVE  \/ UNCHANGED <<packages, rows>>
               \/ Publish(w) /\ UNCHANGED rows
               \/ Insert(w) /\ UNCHANGED packages
    <2>1. CASE InsertReady(w) \/ Unanswered(w)
      BY <2>1 DEF InsertReady, Unanswered, Insert, disk
    <2>2. CASE Publish(w)
      BY <2>2 DEF Publish, database
    <2>3. CASE \/ (\E m \in Modes : Start(w, m))
               \/ Lock(w) \/ RunLocked(w) \/ BeginClone(w) \/ ConfigureRemote(w) \/ EndClone(w)
               \/ CloneAgain(w) \/ Snapshot(w)
               \/ WriteCandidate(w) \/ IdempotencyConflict(w) \/ Close(w)
      BY <2>3 DEF Start, Lock, RunLocked, BeginClone, ConfigureRemote, EndClone, CloneAgain,
                  Snapshot, WriteCandidate, IdempotencyConflict, Close, disk, database
    <2>4. CASE \/ Plan(w) \/ PlanRefused(w) \/ TakeLock(w) \/ ImportLocked(w)
               \/ (\E i \in worker[w].todo : EnsureObject(w, i)) \/ AllStored(w)
               \/ NoExisting(w) \/ VerifiedExisting(w) \/ PackageConflict(w)
      BY <2>4 DEF Plan, PlanRefused, TakeLock, ImportLocked, EnsureObject, AllStored,
                  NoExisting, VerifiedExisting, PackageConflict, disk, database
    <2>5. CASE \/ WriteFailed(w) \/ Unlock(w) \/ Finish(w) \/ MirrorUnusable(w)
               \/ Raise(w) \/ Kill(w)
      BY <2>5 DEF WriteFailed, Unlock, Finish, MirrorUnusable, Raise, Kill, disk, database
    <2> QED  BY <1>1, <2>1, <2>2, <2>3, <2>4, <2>5 DEF Step, Fault
  <1>2. CASE Edit \/ Deploy
    BY <1>2 DEF Edit, Deploy, disk, database
  <1> QED  BY <1>1, <1>2 DEF Next

\* A published package and a ready run are never replaced.
THEOREM Final == Spec => EvidenceIsFinal
  <1>1. IndInv /\ [Next]_vars =>
          [\A k \in Keys : /\ packages[k] # None => packages'[k] = packages[k]
                           /\ rows[k] # NoRow => rows'[k] = rows[k]]_vars
    <2> SUFFICES ASSUME IndInv, Next, NEW k \in Keys
                 PROVE  /\ packages[k] # None => packages'[k] = packages[k]
                        /\ rows[k] # NoRow => rows'[k] = rows[k]
      OBVIOUS
    <2>1. CASE UNCHANGED <<packages, rows>>
      BY <2>1
    <2>2. ASSUME NEW w \in Workers, Publish(w), UNCHANGED rows
          PROVE  packages[k] # None => packages'[k] = packages[k]
      BY <2>2 DEF IndInv, TypeOK, Publish
    <2>3. ASSUME NEW w \in Workers, Insert(w), UNCHANGED packages
          PROVE  rows[k] # NoRow => rows'[k] = rows[k]
      <3>1. rows[Key(w)] = NoRow
        BY <2>3 DEF IndInv, Sound, Insert, At, Key
      <3> QED  BY <2>3, <3>1 DEF IndInv, TypeOK, Insert
    <2> QED  BY <2>1, <2>2, <2>3, Writers
  <1> QED  BY <1>1, Invariance, PTL DEF Spec, EvidenceIsFinal

\* A run has as many file rows as its evidence names files.
LEMMA FileRowsCounted ==
  ASSUME NEW k \in Keys
  PROVE  Cardinality(FileRows(k)) = Cardinality(FilesOf[k])
  <1> DEFINE S == FilesOf[k]
             T == FileRows(k)
             pair == [f \in S |-> <<Commit[k], f>>]
  <1>1. pair \in [S -> T] /\ \A t \in T : \E f \in S : pair[f] = t
    BY DEF FileRows
  <1>2. \A f, g \in S : pair[f] = pair[g] => f = g
    OBVIOUS
  <1> HIDE DEF pair, S, T
  <1>3. ExistsBijection(S, T)
    BY <1>1, <1>2 DEF ExistsBijection, Bijection, Injection, Surjection, IsInjective
  <1>4. IsFiniteSet(S)
    BY InventoryAssumption DEF S
  <1>5. Cardinality(T) = Cardinality(S)
    BY <1>3, <1>4, FS_Bijection
  <1> QED  BY <1>5 DEF S, T

\* The commit of a run without a sibling has the files of the run and no other.
LEMMA OwnFilesOnly ==
  ASSUME IndInv, NEW k \in Keys, rows[k] # NoRow,
         \A j \in Keys \ {k} : Commit[j] = Commit[k] => rows[j] = NoRow
  PROVE  FilesAt(Commit[k]) = FileRows(k)
  <1>1. FileRows(k) \subseteq FilesAt(Commit[k])
    BY DEF IndInv, ReadyIsBacked, FilesAt, FileRows
  <1>2. ASSUME NEW f \in files, f[1] = Commit[k]
        PROVE  f \in FileRows(k)
    <2>1. PICK j \in Keys : rows[j] # NoRow /\ f \in FileRows(j)
      BY DEF IndInv, FilesExplained
    <2>2. Commit[j] = Commit[k]
      BY <1>2, <2>1 DEF FileRows
    <2> QED  BY <2>1, <2>2
  <1> QED  BY <1>1, <1>2 DEF FilesAt

\* Sending an import again conflicts only after an edit of the registry entry,
\* or when the commit has another run.
THEOREM Replay == Spec => ReplayConflictsOnlyAfterEdit
  <1> DEFINE Explained(w) ==
        /\ rows[Key(w)].digest = worker[w].digest
        /\ \/ rows[Key(w)].record # worker[w].record
           \/ \E k \in Keys \ {Key(w)} : Commit[k] = Commit[Key(w)] /\ rows[k] # NoRow
  <1>1. ASSUME IndInv, NEW w \in Workers, PackageConflict(w)
        PROVE  Explained(w)
    <2>1. PICK b \in Calls : b = worker[w]
      BY <1>1 DEF IndInv, TypeOK
    <2>2. b.pc = "stored" /\ b.key \in Keys /\ Key(w) = b.key
      BY <1>1, <2>1 DEF PackageConflict, At, Calls, Key
    <2>3. rows[b.key] # NoRow /\ packages[b.key] = b.digest /\ packages[b.key] = rows[b.key].digest
      BY <1>1, <2>1, <2>2 DEF PackageConflict, IndInv, Sound, Packaged, Importing, ReadyIsBacked
    <2>4. ASSUME rows[b.key].record = b.record,
                 \A j \in Keys \ {b.key} : Commit[j] = Commit[b.key] => rows[j] = NoRow
          PROVE  FALSE
      <3>1. rows[b.key] = Row(w)
        BY <1>1, <2>1, <2>2, <2>3, <2>4 DEF IndInv, TypeOK, Rows, Row
      <3>2. Cardinality(FilesAt(Commit[b.key])) = Cardinality(FilesOf[b.key])
        BY <1>1, <2>2, <2>3, <2>4, OwnFilesOnly, FileRowsCounted
      <3> QED  BY <1>1, <2>2, <3>1, <3>2 DEF PackageConflict, Complete
    <2> QED  BY <2>1, <2>2, <2>3, <2>4
  <1>2. IndInv => [\A w \in Workers : PackageConflict(w) => Explained(w)]_vars
    BY <1>1
  <1> QED  BY <1>2, Invariance, PTL DEF ReplayConflictsOnlyAfterEdit

-----------------------------------------------------------------------------
(* What a call leaves on the disk.                                         *)

CheckedOut == {"parsing", "candidate", "closing", "uploading"}

\* A step of one call that moves its lock file, worktree and candidate with it.
LEMMA TidyStep ==
  ASSUME TypeOK, TidyUnlessKilled, "kill" \notin spent, NEW w \in Workers, NEW c \in Calls,
         worker' = [worker EXCEPT ![w] = c],
         c.pc \in Extracting => \/ worker[w].pc \in Extracting /\ Key(w) = c.key
                                \/ worker[w].pc \notin Extracting /\ c.key \notin lockFiles,
         lockFiles' = IF c.pc \in Extracting THEN lockFiles \cup {c.key}
                      ELSE IF worker[w].pc \in Extracting THEN lockFiles \ {Key(w)}
                      ELSE lockFiles,
         worktrees' = IF c.pc \in CheckedOut THEN worktrees \cup {w} ELSE worktrees \ {w},
         candidates' = IF c.pc = "candidate" THEN candidates \cup {w} ELSE candidates \ {w}
  PROVE  TidyUnlessKilled'
  <1>1. worker'[w] = c /\ \A v \in Workers \ {w} : worker'[v] = worker[v]
    BY DEF TypeOK
  <1>2. lockFiles = {Key(v) : v \in {x \in Workers : worker[x].pc \in Extracting}}
    BY DEF TidyUnlessKilled
  <1>3. \A v \in Workers \ {w} :
          worker[v].pc \in Extracting /\ worker[w].pc \in Extracting => Key(v) # Key(w)
    BY DEF TidyUnlessKilled
  <1>4. \A v \in Workers \ {w} :
          worker[v].pc \in Extracting /\ c.pc \in Extracting => Key(v) # c.key
    BY <1>2, <1>3
  <1>5. \A u, v \in Workers :
          (worker[u].pc \in Extracting /\ worker[v].pc \in Extracting /\ Key(u) = Key(v) => u = v)'
    <2> SUFFICES ASSUME NEW u \in Workers, NEW v \in Workers,
                        worker'[u].pc \in Extracting, worker'[v].pc \in Extracting,
                        worker'[u].key = worker'[v].key
                 PROVE  u = v
      BY DEF Key
    <2>1. CASE u = w \/ v = w
      BY <1>1, <1>4, <2>1 DEF Key
    <2>2. CASE u # w /\ v # w
      BY <1>1, <2>2 DEF Key, TidyUnlessKilled
    <2> QED  BY <2>1, <2>2
  <1>6. ASSUME NEW k
        PROVE  k \in lockFiles' <=> \E v \in Workers : worker'[v].pc \in Extracting /\ worker'[v].key = k
    <2>1. k \in lockFiles <=> \E v \in Workers : worker[v].pc \in Extracting /\ worker[v].key = k
      BY <1>2 DEF Key
    <2>2. CASE c.pc \in Extracting
      <3>1. k \in lockFiles' <=> k = c.key \/ k \in lockFiles
        BY <2>2
      <3>2. worker[w].pc \in Extracting => worker[w].key = c.key
        BY <2>2 DEF Key
      <3> QED  BY <1>1, <2>1, <2>2, <3>1, <3>2
    <2>3. CASE c.pc \notin Extracting
      BY <1>1, <1>3, <2>1, <2>3 DEF Key
    <2> QED  BY <2>2, <2>3
  <1>7. lockFiles' = {worker'[v].key : v \in {x \in Workers : worker'[x].pc \in Extracting}}
    BY <1>6
  <1>8. worktrees' = {v \in Workers : worker'[v].pc \in CheckedOut}
    BY <1>1 DEF TidyUnlessKilled, CheckedOut
  <1>9. candidates' = {v \in Workers : worker'[v].pc = "candidate"}
    BY <1>1 DEF TidyUnlessKilled, At
  <1> QED  BY <1>5, <1>7, <1>8, <1>9 DEF TidyUnlessKilled, CheckedOut, Key, At

\* A call that ends, by an answer, an exception or a refusal, leaves nothing.
LEMMA TidyAnswer ==
  ASSUME TypeOK, TidyUnlessKilled, "kill" \notin spent, NEW w \in Workers, NEW a \in Answers,
         Answer(w, a), Unwind(w)
  PROVE  TidyUnlessKilled'
  <1>1. PICK c \in Calls : c = [Nobody EXCEPT !.answer = a]
    BY AnsweredCall
  <1>2. c.pc = "idle"
    BY <1>1, AnsweredCall
  <1>3. worker' = [worker EXCEPT ![w] = c]
    BY <1>1 DEF Answer
  <1> QED  BY <1>2, <1>3, TidyStep DEF Unwind, Extracting, CheckedOut

\* A call that goes on from p to q.
LEMMA TidyGoto ==
  ASSUME TypeOK, TidyUnlessKilled, "kill" \notin spent, NEW w \in Workers, NEW q \in Pcs,
         Goto(w, q),
         q \in Extracting => worker[w].pc \in Extracting \/ Key(w) \notin lockFiles,
         lockFiles' = IF q \in Extracting THEN lockFiles \cup {Key(w)}
                      ELSE IF worker[w].pc \in Extracting THEN lockFiles \ {Key(w)}
                      ELSE lockFiles,
         worktrees' = IF q \in CheckedOut THEN worktrees \cup {w} ELSE worktrees \ {w},
         candidates' = IF q = "candidate" THEN candidates \cup {w} ELSE candidates \ {w}
  PROVE  TidyUnlessKilled'
  <1>1. worker[w] \in Calls
    BY DEF TypeOK
  <1>2. PICK c \in Calls : c = [worker[w] EXCEPT !.pc = q]
    BY <1>1, MovedCall
  <1>3. c.pc = q /\ c.key = Key(w)
    BY <1>1, <1>2, MovedCall DEF Key
  <1>4. worker' = [worker EXCEPT ![w] = c]
    BY <1>2 DEF Goto
  <1> QED  BY <1>3, <1>4, TidyStep

\* The disk agrees with the calls, so what a step leaves alone needs no change:
\* outside an extraction a call has no candidate, and a worktree only while
\* it uploads.
LEMMA OnDisk ==
  ASSUME TidyUnlessKilled, "kill" \notin spent, NEW w \in Workers
  PROVE  /\ worker[w].pc \in Extracting => Key(w) \in lockFiles
         /\ w \in worktrees <=> worker[w].pc \in CheckedOut
         /\ w \in candidates <=> worker[w].pc = "candidate"
  BY DEF TidyUnlessKilled, CheckedOut, At

\* The steps that move a call on, with the files they make and remove.
LEMMA DiskSteps ==
  ASSUME TypeOK, TidyUnlessKilled, "kill" \notin spent, NEW w \in Workers,
         \/ Lock(w) \/ BeginClone(w) \/ EndClone(w) \/ (Snapshot(w) /\ At(w, "fetching"))
         \/ WriteCandidate(w) \/ Publish(w) \/ Close(w) \/ TakeLock(w) \/ AllStored(w)
         \/ NoExisting(w) \/ InsertReady(w) \/ Unlock(w)
  PROVE  TidyUnlessKilled'
  <1>1. /\ worker[w].pc \in Extracting => Key(w) \in lockFiles
        /\ w \in worktrees <=> worker[w].pc \in CheckedOut
        /\ w \in candidates <=> worker[w].pc = "candidate"
    BY OnDisk
  <1>2. CASE Lock(w)
    BY <1>1, <1>2, TidyGoto DEF Lock, At, Pcs, Extracting, CheckedOut
  <1>3. CASE BeginClone(w) \/ EndClone(w)
    <2>1. PICK q \in {"cloning", "fetching"} :
            Goto(w, q) /\ worker[w].pc \in {"cloning", "fetching"}
            /\ UNCHANGED <<lockFiles, worktrees, candidates>>
      BY <1>3 DEF BeginClone, EndClone, At, disk
    <2> QED  BY <1>1, <2>1, TidyGoto DEF Pcs, Extracting, CheckedOut
  <1>4. CASE Snapshot(w) /\ At(w, "fetching")
    BY <1>1, <1>4, TidyGoto DEF Snapshot, At, Pcs, Extracting, CheckedOut
  <1>5. CASE WriteCandidate(w)
    BY <1>1, <1>5, TidyGoto DEF WriteCandidate, At, Pcs, Extracting, CheckedOut
  <1>6. CASE Publish(w)
    BY <1>1, <1>6, TidyGoto DEF Publish, At, Pcs, Extracting, CheckedOut
  <1>7. CASE Close(w)
    BY <1>1, <1>7, TidyGoto DEF Close, At, Pcs, Extracting, CheckedOut
  <1>8. CASE AllStored(w)
    BY <1>1, <1>8, TidyGoto DEF AllStored, At, Pcs, Importing, Extracting, CheckedOut
  <1>9. CASE TakeLock(w) \/ NoExisting(w) \/ InsertReady(w) \/ Unlock(w)
    <2>1. PICK q \in {"refetching", "inserting", "inserted", "finishing"} :
            Goto(w, q) /\ worker[w].pc \in {"planned", "stored", "inserting", "inserted"}
            /\ UNCHANGED <<lockFiles, worktrees, candidates>>
      BY <1>9 DEF TakeLock, NoExisting, InsertReady, Insert, Unlock, At, disk
    <2> QED  BY <1>1, <2>1, TidyGoto DEF Pcs, Importing, Extracting, CheckedOut
  <1> QED  BY <1>2, <1>3, <1>4, <1>5, <1>6, <1>7, <1>8, <1>9

\* A call that changes its locals and keeps what it has on the disk.
LEMMA TidySame ==
  ASSUME TypeOK, TidyUnlessKilled, "kill" \notin spent, NEW w \in Workers, NEW c \in Calls,
         worker' = [worker EXCEPT ![w] = c],
         UNCHANGED <<lockFiles, worktrees, candidates>>,
         worker[w].pc \notin Extracting, c.pc \notin Extracting,
         worker[w].pc \in CheckedOut <=> c.pc \in CheckedOut
  PROVE  TidyUnlessKilled'
  <1>1. c.pc # "candidate" /\ worker[w].pc # "candidate"
    BY DEF Extracting
  <1>2. w \in worktrees <=> c.pc \in CheckedOut
    BY OnDisk
  <1>3. w \notin candidates
    BY <1>1, OnDisk
  <1> QED  BY <1>1, <1>2, <1>3, TidyStep

\* The steps that write more of a call than its program point.
LEMMA LocalSteps ==
  ASSUME IndInv, TidyUnlessKilled, "kill" \notin spent, NEW w \in Workers,
         \/ (\E m \in Modes : Start(w, m)) \/ Plan(w) \/ VerifiedExisting(w)
         \/ (\E i \in worker[w].todo : EnsureObject(w, i))
  PROVE  TidyUnlessKilled'
  <1>0. TypeOK
    BY DEF IndInv
  <1>1. UNCHANGED <<lockFiles, worktrees, candidates>>
    BY DEF Start, Plan, VerifiedExisting, EnsureObject, disk
  <1>2. PICK b \in Calls : b = worker[w]
    BY <1>0 DEF TypeOK
  <1>3. CASE \E m \in Modes : Start(w, m)
    <2>1. PICK m \in Modes : Start(w, m)
      BY <1>3
    <2>2. PICK r \in Entries, n \in Nat : r = registry /\ n = code
      BY <1>0 DEF TypeOK
    <2>3. PICK c : c = [Nobody EXCEPT !.pc = "locking", !.mode = m, !.key = r.key,
                                      !.record = r.record, !.digest = n]
      OBVIOUS
    <2>4. c \in Calls /\ c.pc = "locking"
      BY <2>3, InventoryAssumption DEF Nobody, Calls, Entries, Pcs, Answers, Modes
    <2>5. worker' = [worker EXCEPT ![w] = c] /\ worker[w].pc = "idle"
      BY <2>1, <2>2, <2>3 DEF Start, At
    <2> QED  BY <1>0, <1>1, <2>4, <2>5, TidySame DEF Extracting, CheckedOut
  <1>4. CASE Plan(w)
    <2>1. PICK n \in Nat : n = RecordRead(w)
      BY <1>0 DEF TypeOK, Calls, Entries, RecordRead
    <2>2. PICK c : c = [b EXCEPT !.pc = "planned", !.record = n]
      OBVIOUS
    <2>3. c \in Calls /\ c.pc = "planned"
      BY <2>2 DEF Calls, Pcs
    <2>4. worker' = [worker EXCEPT ![w] = c] /\ worker[w].pc = "packaged"
      BY <1>2, <1>4, <2>1, <2>2 DEF Plan, At
    <2> QED  BY <1>0, <1>1, <2>3, <2>4, TidySame DEF Extracting, CheckedOut
  <1>5. CASE VerifiedExisting(w)
    <2>1. PICK c : c = [b EXCEPT !.pc = "inserted", !.existing = "yes"]
      OBVIOUS
    <2>2. c \in Calls /\ c.pc = "inserted"
      BY <2>1 DEF Calls, Pcs, Importing
    <2>3. worker' = [worker EXCEPT ![w] = c] /\ worker[w].pc = "stored"
      BY <1>2, <1>5, <2>1 DEF VerifiedExisting, At
    <2> QED  BY <1>0, <1>1, <2>2, <2>3, TidySame DEF Extracting, CheckedOut
  <1>6. CASE \E i \in worker[w].todo : EnsureObject(w, i)
    <2>1. PICK i \in worker[w].todo : EnsureObject(w, i)
      BY <1>6
    <2>2. PICK j : j = i
      OBVIOUS
    <2>3. PICK c : c = [b EXCEPT !.todo = b.todo \ {j}]
      OBVIOUS
    <2>4. c \in Calls /\ c.pc = b.pc
      BY <2>3 DEF Calls
    <2>5. worker' = [worker EXCEPT ![w] = c] /\ b.pc = "uploading"
      BY <1>2, <2>1, <2>2, <2>3 DEF EnsureObject, At
    <2> QED  BY <1>0, <1>1, <1>2, <2>4, <2>5, TidySame DEF Extracting, CheckedOut
  <1> QED  BY <1>3, <1>4, <1>5, <1>6

\* The worktree of the import.
LEMMA RefetchTidy ==
  ASSUME IndInv, TidyUnlessKilled, "kill" \notin spent, NEW w \in Workers,
         Snapshot(w), At(w, "refetching")
  PROVE  TidyUnlessKilled'
  <1>1. PICK b \in Calls : b = worker[w]
    BY DEF IndInv, TypeOK
  <1>2. b.key \in Keys /\ ImagesOf[b.key] \subseteq Images
    BY DEF Calls, Images
  <1>3. PICK c : c = [b EXCEPT !.pc = "uploading", !.todo = ImagesOf[b.key]]
    OBVIOUS
  <1>4. c \in Calls /\ c.pc = "uploading"
    BY <1>2, <1>3 DEF Calls, Pcs, Importing
  <1>5. worker' = [worker EXCEPT ![w] = c]
    BY <1>1, <1>3 DEF Snapshot, At, Key
  <1>6. worktrees' = worktrees \cup {w} /\ UNCHANGED <<lockFiles, candidates>>
    BY DEF Snapshot
  <1>7. w \notin candidates
    BY OnDisk DEF At
  <1> QED  BY <1>4, <1>5, <1>6, <1>7, TidyStep DEF IndInv, At, Extracting, CheckedOut

\* The steps that end a call, except a kill.
LEMMA EndSteps ==
  ASSUME IndInv, TidyUnlessKilled, "kill" \notin spent, NEW w \in Workers,
         \/ RunLocked(w) \/ IdempotencyConflict(w) \/ PlanRefused(w) \/ ImportLocked(w)
         \/ PackageConflict(w) \/ WriteFailed(w) \/ Finish(w) \/ MirrorUnusable(w)
         \/ Raise(w) \/ Unanswered(w)
  PROVE  TidyUnlessKilled'
  <1>1. PICK a \in Answers : Answer(w, a)
    BY DEF RunLocked, IdempotencyConflict, PlanRefused, ImportLocked, PackageConflict,
           WriteFailed, Finish, MirrorUnusable, Raise, Unanswered, Answers
  <1>2. Unwind(w)
    <2>1. CASE IdempotencyConflict(w) \/ MirrorUnusable(w) \/ Raise(w)
      BY <2>1 DEF IdempotencyConflict, MirrorUnusable, Raise
    <2>2. CASE \/ RunLocked(w) \/ PlanRefused(w) \/ ImportLocked(w) \/ PackageConflict(w)
               \/ WriteFailed(w) \/ Finish(w) \/ Unanswered(w)
      <3>1. /\ worker[w].pc \in {"locking", "packaged", "planned", "stored", "inserting", "finishing"}
            /\ UNCHANGED <<lockFiles, worktrees, candidates>>
        BY <2>2 DEF RunLocked, PlanRefused, ImportLocked, PackageConflict, WriteFailed,
                    Finish, Unanswered, Insert, At, disk
      <3>2. w \notin worktrees /\ w \notin candidates
        BY <3>1, OnDisk DEF CheckedOut
      <3> QED  BY <3>1, <3>2 DEF Unwind, Extracting
    <2> QED  BY <2>1, <2>2
  <1> QED  BY <1>1, <1>2, TidyAnswer DEF IndInv

\* No event leaves the record of events, and a kill is recorded.
LEMMA SpentGrows ==
  ASSUME [Next]_vars
  PROVE  spent \subseteq spent' /\ (\A w \in Workers : Kill(w) => "kill" \in spent')
  <1>1. ASSUME NEW w \in Workers, Step(w) PROVE spent' = spent
    BY <1>1 DEF Step, Start, Lock, RunLocked, BeginClone, ConfigureRemote, EndClone, CloneAgain,
       Snapshot, WriteCandidate, Publish, IdempotencyConflict, Close, Plan, PlanRefused, TakeLock,
       ImportLocked, EnsureObject, AllStored, NoExisting, VerifiedExisting, PackageConflict,
       InsertReady, WriteFailed, Unlock, Finish, MirrorUnusable, world
  <1>2. ASSUME NEW w \in Workers, Fault(w) PROVE spent \subseteq spent'
    BY <1>2 DEF Fault, Raise, Kill, Unanswered, Spend
  <1>3. ASSUME Edit \/ Deploy PROVE spent \subseteq spent'
    BY <1>3 DEF Edit, Deploy, Spend
  <1>4. \A w \in Workers : Kill(w) => "kill" \in spent'
    BY DEF Kill, Spend
  <1> QED  BY <1>1, <1>2, <1>3, <1>4 DEF Next, vars

\* Without a kill every lock file, worktree and candidate on the disk belongs
\* to a call that is using it, and one key is extracted by one call at a time.
THEOREM Tidiness == Spec => []TidyUnlessKilled
  <1>1. Init => TidyUnlessKilled
    BY DEF Init, TidyUnlessKilled, Nobody, Extracting, At
  <1>2. TidyUnlessKilled /\ IndInv /\ [Next]_vars => TidyUnlessKilled'
    <2> SUFFICES ASSUME TidyUnlessKilled, IndInv, [Next]_vars, "kill" \notin spent'
                 PROVE  TidyUnlessKilled'
      BY DEF TidyUnlessKilled
    <2>1. "kill" \notin spent /\ TypeOK /\ \A w \in Workers : ~Kill(w)
      BY SpentGrows DEF IndInv
    <2>2. CASE UNCHANGED vars
      BY <2>2 DEF vars, TidyUnlessKilled, Key, At
    <2>3. CASE Edit \/ Deploy \/ \E w \in Workers : ConfigureRemote(w) \/ CloneAgain(w)
      <3>1. UNCHANGED <<lockFiles, worktrees, candidates, worker>>
        BY <2>3 DEF Edit, Deploy, ConfigureRemote, CloneAgain, disk
      <3> QED  BY <2>1, <3>1 DEF TidyUnlessKilled, Key, At
    <2>4. ASSUME NEW w \in Workers, Step(w) \/ Fault(w), ~(ConfigureRemote(w) \/ CloneAgain(w))
          PROVE  TidyUnlessKilled'
      <3>1. CASE \/ Lock(w) \/ BeginClone(w) \/ EndClone(w) \/ (Snapshot(w) /\ At(w, "fetching"))
                 \/ WriteCandidate(w) \/ Publish(w) \/ Close(w) \/ TakeLock(w) \/ AllStored(w)
                 \/ NoExisting(w) \/ InsertReady(w) \/ Unlock(w)
        BY <2>1, <3>1, DiskSteps
      <3>2. CASE \/ (\E m \in Modes : Start(w, m)) \/ Plan(w) \/ VerifiedExisting(w)
                 \/ (\E i \in worker[w].todo : EnsureObject(w, i))
        BY <2>1, <3>2, LocalSteps
      <3>3. CASE Snapshot(w) /\ At(w, "refetching")
        BY <2>1, <3>3, RefetchTidy
      <3>4. CASE \/ RunLocked(w) \/ IdempotencyConflict(w) \/ PlanRefused(w) \/ ImportLocked(w)
                 \/ PackageConflict(w) \/ WriteFailed(w) \/ Finish(w) \/ MirrorUnusable(w)
                 \/ Raise(w) \/ Unanswered(w)
        BY <2>1, <3>4, EndSteps
      <3>5. Snapshot(w) => At(w, "fetching") \/ At(w, "refetching")
        BY DEF Snapshot
      <3> QED  BY <2>1, <2>4, <3>1, <3>2, <3>3, <3>4, <3>5 DEF Step, Fault
    <2> QED  BY <2>2, <2>3, <2>4 DEF Next
  <1> QED  BY <1>1, <1>2, Invariance, PTL DEF Spec
=============================================================================
