----------------------- MODULE SyncPublicationProofs -----------------------
(***************************************************************************)
(* Safety of a synchronisation for any sources, runners, commits, cases and *)
(* courses of events. Several runners may serve one source, and nothing     *)
(* here rests on the candidate lock: what a call relies on is that ready    *)
(* inventory and built versions stay what they are, and what the tables     *)
(* promise is that a completed run and the pointer move in one transaction. *)
(***************************************************************************)
EXTENDS SyncPublication, TLAPS

Pcs == {"idle", "detected", "looked", "candidate", "failing", "losing"} \cup Locked
Answers == {"none", "no_change", "failed", "completed", "review_required"}
RunStates == {"none", "detected", "extracting", "review_required", "imported", "ready",
              "completed", "failed"}
Public == {"active", "superseded"}
CommitOrNone == Revs \cup {None}
VersionOrNone == Versions \cup {None}

Selections == [Sources -> CommitOrNone]
RunRows == [state : RunStates, previous : CommitOrNone, version : VersionOrNone]
VersionRows == [state : {"none", "ready"} \cup Public, selection : Selections,
                keys : SUBSET STRING]
Calls == [pc : Pcs, candidate : CommitOrNone, latest : CommitOrNone,
          previous : CommitOrNone, selection : Selections, version : VersionOrNone,
          answer : Answers]
TombstoneRows == [source : Sources, candidate : Revs, key : STRING,
                  event : {"removed", "restored"}]

\* what surrounds the tables of a synchronisation
WorldOK ==
  /\ head \in [Sources -> Revs]
  /\ lockFiles \subseteq Sources \X Revs
  /\ approved \subseteq Cases
  /\ spent \in [Events -> Nat]

TypeOK ==
  /\ WorldOK
  /\ runs \in [Sources \X Revs -> RunRows]
  /\ inventory \in [Sources -> SUBSET Revs]
  /\ latest \in [Sources -> CommitOrNone]
  /\ tombstones \subseteq TombstoneRows
  /\ versions \in [Versions -> VersionRows]
  /\ current \in VersionOrNone
  /\ announced \in VersionOrNone
  /\ runner \in [Runners -> Calls]

-----------------------------------------------------------------------------
(* The inductive invariant.                                                *)

\* a diff or a proof is made against ready inventory or against nothing
Base(p, s) == p = None \/ p \in inventory[s]

Built(v, s, c) ==
  v \in Versions /\ versions[v].state # "none" /\ versions[v].selection[s] = c
Published(v, s, c) ==
  v \in Versions /\ versions[v].state \in Public /\ versions[v].selection[s] = c

\* what a call relies on: the commit it diffs against is ready inventory, an
\* ancestor once it was proved, and the version it built is of its candidate
Sound(s, c) ==
  /\ c.pc # "idle" => c.candidate \in Revs
  /\ Base(c.previous, s)
  /\ c.pc \in {"extracting", "packaging"} => c.previous <= c.candidate
  /\ c.pc = "selected" => c.selection[s] = c.candidate
  /\ c.pc \in {"built", "ready"} => Built(c.version, s, c.candidate)

BasesAreReady ==
  \A s \in Sources :
    /\ Base(latest[s], s)
    /\ \A c \in Revs : Base(runs[<<s, c>>].previous, s)

CompletedRows ==
  \A s \in Sources, c \in Revs :
    runs[<<s, c>>].state = "completed" => Published(runs[<<s, c>>].version, s, c)

PointerIsActive ==
  /\ announced = current
  /\ \A v \in Versions : versions[v].state = "active" <=> v = current

IndInv ==
  /\ TypeOK
  /\ \A w \in Runners : Sound(Source(w), runner[w])
  /\ BasesAreReady
  /\ CompletedRows
  /\ PointerIsActive
  /\ RemovalsAreWitnessed

-----------------------------------------------------------------------------
(* What a step leaves to everybody else.                                   *)

InventoryGrows == \A s \in Sources : inventory[s] \subseteq inventory'[s]

\* a version that was built keeps its contents, a public one stays public
VersionsKept ==
  \A v \in Versions : versions[v].state # "none" =>
    /\ versions'[v].state # "none"
    /\ versions'[v].selection = versions[v].selection
    /\ versions'[v].keys = versions[v].keys
    /\ versions[v].state \in Public => versions'[v].state \in Public

\* What a call relies on survives every step of another.
LEMMA Relied ==
  ASSUME NEW s \in Sources, NEW c \in Calls, Sound(s, c), InventoryGrows, VersionsKept
  PROVE  Sound(s, c)'
  BY DEF Sound, Base, Built, InventoryGrows, VersionsKept

\* So a step that turns one call into a sound one keeps all calls sound.
LEMMA CallsStaySound ==
  ASSUME IndInv, InventoryGrows, VersionsKept,
         NEW w \in Runners, NEW c \in Calls, Sound(Source(w), c)',
         runner' = [runner EXCEPT ![w] = c]
  PROVE  /\ runner' \in [Runners -> Calls]
         /\ \A v \in Runners : Sound(Source(v), runner[v])'
  <1>1. runner \in [Runners -> Calls]
    BY DEF IndInv, TypeOK
  <1>2. ASSUME NEW v \in Runners
        PROVE  Sound(Source(v), runner[v])'
    <2>1. CASE v = w
      BY <1>1, <2>1 DEF Sound, Source
    <2>2. CASE v # w
      <3>1. PICK d \in Calls : d = runner[v]
        BY <1>1
      <3>2. Source(v) \in Sources
        BY ServesAssumption DEF Source
      <3>3. Sound(Source(v), d)
        BY <3>1 DEF IndInv
      <3>4. Sound(Source(v), d)'
        BY <3>2, <3>3, Relied DEF Source
      <3> QED  BY <1>1, <2>2, <3>1, <3>4 DEF Sound, Source
    <2> QED  BY <2>1, <2>2
  <1> QED  BY <1>1, <1>2

\* Where no call moves, the same holds.
LEMMA RestingCallsStaySound ==
  ASSUME IndInv, InventoryGrows, VersionsKept, UNCHANGED runner
  PROVE  \A v \in Runners : Sound(Source(v), runner[v])'
  <1> SUFFICES ASSUME NEW v \in Runners
               PROVE  Sound(Source(v), runner[v])'
    OBVIOUS
  <1>1. PICK d \in Calls : d = runner[v]
    BY DEF IndInv, TypeOK
  <1>2. Source(v) \in Sources /\ Sound(Source(v), d)
    BY <1>1, ServesAssumption DEF Source, IndInv
  <1>3. Sound(Source(v), d)'
    BY <1>2, Relied DEF Source
  <1> QED  BY <1>1, <1>3 DEF Sound, Source

\* Diffs and proofs keep their ground, and removals their witnesses.
LEMMA BasesStay ==
  ASSUME IndInv, InventoryGrows, UNCHANGED <<runs, latest>>
  PROVE  BasesAreReady'
  BY DEF IndInv, BasesAreReady, Base, InventoryGrows

\* A removal's witness stays in the inventory.
LEMMA WitnessesStay ==
  ASSUME IndInv, InventoryGrows, UNCHANGED tombstones
  PROVE  RemovalsAreWitnessed'
  BY DEF IndInv, TypeOK, TombstoneRows, RemovalsAreWitnessed, InventoryGrows, KeysOf, CasesOf

\* A completed run keeps its public version.
LEMMA CompletedRowsStay ==
  ASSUME IndInv, VersionsKept, UNCHANGED runs
  PROVE  CompletedRows'
  BY DEF IndInv, CompletedRows, Published, Public, VersionsKept

\* A step that changes no table of the synchronisation.
Tables == <<runs, inventory, latest, tombstones, versions, current, announced>>

\* ... keeps all that the tables promise.
LEMMA TablesUnchanged ==
  ASSUME IndInv, UNCHANGED Tables
  PROVE  /\ InventoryGrows /\ VersionsKept
         /\ BasesAreReady' /\ CompletedRows' /\ PointerIsActive' /\ RemovalsAreWitnessed'
  <1>1. InventoryGrows /\ VersionsKept
    BY DEF Tables, InventoryGrows, VersionsKept
  <1>2. BasesAreReady' /\ RemovalsAreWitnessed' /\ CompletedRows'
    BY <1>1, BasesStay, WitnessesStay, CompletedRowsStay DEF Tables
  <1>3. PointerIsActive'
    BY DEF IndInv, PointerIsActive, Tables
  <1> QED  BY <1>1, <1>2, <1>3

-----------------------------------------------------------------------------
(* One step of one call.                                                   *)

\* A step of a call that changes no table.
LEMMA QuietStep ==
  ASSUME IndInv, UNCHANGED Tables, WorldOK',
         NEW w \in Runners, NEW c \in Calls, Sound(Source(w), c),
         runner' = [runner EXCEPT ![w] = c]
  PROVE  IndInv'
  <1>1. InventoryGrows /\ VersionsKept
    BY TablesUnchanged
  <1>2. Source(w) \in Sources
    BY ServesAssumption DEF Source
  <1>3. Sound(Source(w), c)'
    BY <1>1, <1>2, Relied DEF Source
  <1>4. runner' \in [Runners -> Calls] /\ \A v \in Runners : Sound(Source(v), runner[v])'
    BY <1>1, <1>3, CallsStaySound
  <1>5. TypeOK'
    BY <1>4 DEF IndInv, TypeOK, Tables
  <1> QED  BY <1>4, <1>5, TablesUnchanged DEF IndInv

\* A step of a call that writes the row of a run, other than to complete it.
LEMMA RowStep ==
  ASSUME IndInv, UNCHANGED <<evidence, publication, world>>,
         NEW w \in Runners, NEW c \in Calls, Sound(Source(w), c),
         runner' = [runner EXCEPT ![w] = c],
         NEW k \in Sources \X Revs, NEW r \in RunRows, r.state # "completed",
         Base(r.previous, k[1]),
         runs' = [runs EXCEPT ![k] = r]
  PROVE  IndInv'
  <1>1. InventoryGrows /\ VersionsKept
    BY DEF evidence, publication, InventoryGrows, VersionsKept
  <1>2. Source(w) \in Sources
    BY ServesAssumption DEF Source
  <1>3. Sound(Source(w), c)'
    BY <1>1, <1>2, Relied DEF Source
  <1>4. runner' \in [Runners -> Calls] /\ \A v \in Runners : Sound(Source(v), runner[v])'
    BY <1>1, <1>3, CallsStaySound
  <1>5. TypeOK'
    BY <1>4 DEF IndInv, TypeOK, WorldOK, evidence, publication, world
  <1>6. \A s \in Sources, d \in Revs :
          runs'[<<s, d>>] = IF <<s, d>> = k THEN r ELSE runs[<<s, d>>]
    BY DEF IndInv, TypeOK
  <1>7. BasesAreReady'
    <2> SUFFICES ASSUME NEW s \in Sources
                 PROVE  /\ Base(latest[s], s)'
                        /\ \A d \in Revs : Base(runs[<<s, d>>].previous, s)'
      BY DEF BasesAreReady
    <2>1. Base(latest[s], s)'
      BY DEF IndInv, BasesAreReady, Base, evidence
    <2>2. ASSUME NEW d \in Revs
          PROVE  Base(runs[<<s, d>>].previous, s)'
      <3>1. CASE <<s, d>> = k
        BY <1>6, <3>1 DEF Base, evidence
      <3>2. CASE <<s, d>> # k
        BY <1>6, <3>2 DEF IndInv, BasesAreReady, Base, evidence
      <3> QED  BY <3>1, <3>2
    <2> QED  BY <2>1, <2>2
  <1>8. CompletedRows'
    BY <1>6 DEF IndInv, CompletedRows, Published, publication
  <1>9. PointerIsActive'
    BY DEF IndInv, PointerIsActive, publication
  <1>10. RemovalsAreWitnessed'
    BY <1>1, WitnessesStay DEF evidence
  <1> QED  BY <1>4, <1>5, <1>7, <1>8, <1>9, <1>10 DEF IndInv

\* What is known of a call before it moves.
LEMMA CallFacts ==
  ASSUME IndInv, NEW w \in Runners
  PROVE  /\ runner[w] \in Calls /\ Sound(Source(w), runner[w])
         /\ Source(w) \in Sources
         /\ ~At(w, "idle") => Key(w) \in Sources \X Revs /\ Key(w)[1] = Source(w)
  <1>1. runner[w] \in Calls /\ Sound(Source(w), runner[w])
    BY DEF IndInv, TypeOK
  <1>2. Source(w) \in Sources
    BY ServesAssumption DEF Source
  <1> QED  BY <1>1, <1>2 DEF Sound, At, Key, Source

\* Moving a call to another point changes nothing else of it.
LEMMA MovedCall ==
  ASSUME NEW b \in Calls, NEW p \in Pcs
  PROVE  /\ [b EXCEPT !.pc = p] \in Calls
         /\ [b EXCEPT !.pc = p].pc = p
         /\ [b EXCEPT !.pc = p].candidate = b.candidate
         /\ [b EXCEPT !.pc = p].previous = b.previous
         /\ [b EXCEPT !.pc = p].selection = b.selection
         /\ [b EXCEPT !.pc = p].version = b.version
  BY DEF Calls

\* A call that returned relies on nothing.
LEMMA ReturnedCall ==
  ASSUME NEW a \in Answers, NEW s \in Sources
  PROVE  /\ [Resting EXCEPT !.answer = a] \in Calls
         /\ Sound(s, [Resting EXCEPT !.answer = a])
  <1>1. PICK c : c = [Resting EXCEPT !.answer = a]
    OBVIOUS
  <1>2. c \in Calls /\ c.pc = "idle" /\ c.previous = None
    BY <1>1 DEF Resting, Nothing, Calls, Pcs, CommitOrNone, VersionOrNone, Selections, Answers
  <1>3. Sound(s, c)
    BY <1>2 DEF Sound, Base
  <1> QED  BY <1>1, <1>2, <1>3

\* ... so any step that only returns keeps the invariant.
LEMMA ReturnStep ==
  ASSUME IndInv, UNCHANGED Tables, WorldOK',
         NEW w \in Runners, NEW a \in Answers, Return(w, a)
  PROVE  IndInv'
  <1>1. PICK c : c = [Resting EXCEPT !.answer = a]
    OBVIOUS
  <1>2. c \in Calls /\ Sound(Source(w), c)
    BY <1>1, ReturnedCall, CallFacts
  <1>3. runner' = [runner EXCEPT ![w] = c]
    BY <1>1 DEF Return
  <1> QED  BY <1>2, <1>3, QuietStep

\* ... and so does a move to a point that asks for nothing new.
LEMMA GotoStep ==
  ASSUME IndInv, UNCHANGED Tables, WorldOK',
         NEW w \in Runners, NEW p \in Pcs, Goto(w, p), ~At(w, "idle"),
         \/ p \in {"losing", "failing"}
         \/ p = "packaging" /\ At(w, "extracting")
  PROVE  IndInv'
  <1>1. PICK b \in Calls : b = runner[w]
    BY CallFacts
  <1>2. Sound(Source(w), b)
    BY <1>1, CallFacts
  <1>3. PICK c : c = [b EXCEPT !.pc = p]
    OBVIOUS
  <1>4. c \in Calls /\ c.pc = p /\ c.candidate = b.candidate /\ c.previous = b.previous
    BY <1>3, MovedCall
  <1>5. Sound(Source(w), c)
    BY <1>1, <1>2, <1>4 DEF Sound, At
  <1>6. runner' = [runner EXCEPT ![w] = c]
    BY <1>1, <1>3 DEF Goto
  <1> QED  BY <1>4, <1>5, <1>6, QuietStep

-----------------------------------------------------------------------------
(* The actions that change no table but the calls.                         *)

\* Nothing around the tables changes either.
LEMMA WorldStays ==
  ASSUME IndInv, UNCHANGED <<head, lockFiles, approved, spent>>
  PROVE  WorldOK'
  BY DEF IndInv, TypeOK, WorldOK

\* A fault is counted.
LEMMA SpendStays ==
  ASSUME IndInv, NEW e \in Events, Spend(e)
  PROVE  spent' \in [Events -> Nat]
  BY DEF IndInv, TypeOK, WorldOK, Spend

\* Before the lock: the head and the database are read into the call.
LEMMA ReadingKeeps ==
  ASSUME IndInv, NEW w \in Runners, Detect(w) \/ ReadLatest(w) \/ Consult(w)
  PROVE  IndInv'
  <1>1. UNCHANGED Tables /\ UNCHANGED <<head, lockFiles, approved, spent>>
    BY DEF Detect, ReadLatest, Consult, evidence, publication, world, Tables
  <1>2. WorldOK'
    BY <1>1, WorldStays
  <1>3. Source(w) \in Sources
    BY CallFacts
  <1>4. ASSUME Detect(w)
        PROVE  IndInv'
    <2>1. PICK h \in Revs : h = head[Source(w)]
      BY <1>3 DEF IndInv, TypeOK, WorldOK
    <2>2. PICK c : c = [Resting EXCEPT !.pc = "detected", !.candidate = h]
      OBVIOUS
    <2>3. c \in Calls /\ c.pc = "detected" /\ c.candidate = h /\ c.previous = None
      BY <2>2 DEF Resting, Nothing, Calls, Pcs, CommitOrNone, VersionOrNone, Selections, Answers
    <2>4. Sound(Source(w), c)
      BY <2>3 DEF Sound, Base
    <2>5. runner' = [runner EXCEPT ![w] = c]
      BY <1>4, <2>1, <2>2 DEF Detect
    <2> QED  BY <1>1, <1>2, <2>3, <2>4, <2>5, QuietStep
  <1>5. ASSUME ReadLatest(w)
        PROVE  IndInv'
    <2>1. PICK b \in Calls : b = runner[w]
      BY CallFacts
    <2>2. b.candidate \in Revs
      BY <1>5, <2>1, CallFacts DEF ReadLatest, At, Sound
    <2>3. PICK q \in CommitOrNone : q = latest[Source(w)]
      BY <1>3 DEF IndInv, TypeOK
    <2>4. PICK c : c = [b EXCEPT !.pc = "looked", !.latest = q, !.previous = q]
      OBVIOUS
    <2>5. c \in Calls /\ c.pc = "looked" /\ c.candidate = b.candidate /\ c.previous = q
      BY <2>4 DEF Calls, Pcs
    <2>6. Base(q, Source(w))
      BY <1>3, <2>3 DEF IndInv, BasesAreReady
    <2>7. Sound(Source(w), c)
      BY <2>2, <2>5, <2>6 DEF Sound
    <2>8. runner' = [runner EXCEPT ![w] = c]
      BY <1>5, <2>1, <2>3, <2>4 DEF ReadLatest
    <2> QED  BY <1>1, <1>2, <2>5, <2>7, <2>8, QuietStep
  <1>6. ASSUME Consult(w)
        PROVE  IndInv'
    <2>1. PICK b \in Calls : b = runner[w]
      BY CallFacts
    <2>2. b.candidate \in Revs /\ Base(b.previous, Source(w))
      BY <1>6, <2>1, CallFacts DEF Consult, At, Sound
    <2>3. Row(w) \in RunRows /\ Base(Row(w).previous, Source(w))
      BY <1>3, <2>1, <2>2 DEF IndInv, TypeOK, BasesAreReady, Row, Key, Source
    <2>4. PICK q : q = PreviousRecorded(w)
      OBVIOUS
    <2>5. q \in CommitOrNone /\ Base(q, Source(w))
      BY <2>1, <2>2, <2>3, <2>4 DEF RunRows, Calls, PreviousRecorded
    <2>6. PICK c : c = [b EXCEPT !.pc = "candidate", !.previous = q]
      OBVIOUS
    <2>7. c \in Calls /\ c.pc = "candidate" /\ c.candidate = b.candidate /\ c.previous = q
      BY <2>5, <2>6 DEF Calls, Pcs
    <2>8. Sound(Source(w), c)
      BY <2>2, <2>5, <2>7 DEF Sound
    <2>9. runner' = [runner EXCEPT ![w] = c]
      BY <1>6, <2>1, <2>4, <2>6 DEF Consult
    <2> QED  BY <1>1, <1>2, <2>7, <2>8, <2>9, QuietStep
  <1> QED  BY <1>4, <1>5, <1>6

\* A call that ends or fails without a write.
LEMMA LeavingKeeps ==
  ASSUME IndInv, NEW w \in Runners,
         \/ NoChange(w) \/ LockBusy(w) \/ AlreadyCompleted(w)
         \/ RunLocked(w) \/ Conflict(w) \/ PublicLoss(w) \/ NoRoom(w)
  PROVE  IndInv'
  <1>1. UNCHANGED Tables /\ UNCHANGED <<head, lockFiles, approved, spent>>
    BY DEF NoChange, LockBusy, AlreadyCompleted, RunLocked, Conflict, PublicLoss, NoRoom,
           evidence, publication, world, Tables
  <1>2. WorldOK'
    BY <1>1, WorldStays
  <1>3. CASE NoChange(w) \/ LockBusy(w) \/ AlreadyCompleted(w)
    <2>1. PICK a \in Answers : Return(w, a)
      BY <1>3 DEF NoChange, LockBusy, AlreadyCompleted, Answers
    <2> QED  BY <1>1, <1>2, <2>1, ReturnStep
  <1>4. CASE RunLocked(w) \/ Conflict(w) \/ PublicLoss(w) \/ NoRoom(w)
    <2>1. PICK p \in {"losing", "failing"} : Goto(w, p)
      BY <1>4 DEF RunLocked, Conflict, PublicLoss, NoRoom
    <2>2. ~At(w, "idle") /\ p \in Pcs
      BY <1>4 DEF RunLocked, Conflict, PublicLoss, NoRoom, At, Pcs
    <2> QED  BY <1>1, <1>2, <2>1, <2>2, GotoStep
  <1> QED  BY <1>3, <1>4

\* The lock file of the package is taken.
LEMMA LockPackageKeeps ==
  ASSUME IndInv, NEW w \in Runners, LockPackage(w)
  PROVE  IndInv'
  <1>1. UNCHANGED Tables /\ UNCHANGED <<head, approved, spent>>
    BY DEF LockPackage, publication, world, Tables
  <1>2. ~At(w, "idle") /\ At(w, "extracting") /\ "packaging" \in Pcs /\ Goto(w, "packaging")
    BY DEF LockPackage, At, Pcs, Locked
  <1>3. WorldOK'
    BY <1>1, <1>2, CallFacts DEF LockPackage, IndInv, TypeOK, WorldOK
  <1> QED  BY <1>1, <1>2, <1>3, GotoStep

\* An error or a crash records nothing.
LEMMA FaultKeeps ==
  ASSUME IndInv, NEW w \in Runners, Raise(w) \/ Crash(w)
  PROVE  IndInv'
  <1>1. UNCHANGED Tables /\ UNCHANGED <<head, approved>>
    BY DEF Raise, Crash, publication, Tables
  <1>2. "raise" \in Events /\ "crash" \in Events
    BY DEF Events
  <1>3. spent' \in [Events -> Nat]
    BY <1>2, SpendStays DEF Raise, Crash
  <1>4. lockFiles' \subseteq lockFiles
    BY DEF Raise, Crash, RemoveLockFile
  <1>5. WorldOK'
    BY <1>1, <1>3, <1>4 DEF IndInv, TypeOK, WorldOK
  <1>6. CASE \E a \in Answers : Return(w, a)
    BY <1>1, <1>5, <1>6, ReturnStep
  <1>7. CASE runner[w].pc \in Locked /\ Goto(w, "failing")
    <2>1. ~At(w, "idle") /\ "failing" \in Pcs
      BY <1>7 DEF At, Locked, Pcs
    <2> QED  BY <1>1, <1>5, <1>7, <2>1, GotoStep
  <1> QED  BY <1>6, <1>7 DEF Raise, Crash, Answers

\* The selection is the public one with the candidate in the place of its source.
LEMMA SelectKeeps ==
  ASSUME IndInv, NEW w \in Runners, Select(w)
  PROVE  IndInv'
  <1>1. UNCHANGED Tables /\ UNCHANGED <<head, lockFiles, approved, spent>>
    BY DEF Select, evidence, publication, world, Tables
  <1>2. WorldOK'
    BY <1>1, WorldStays
  <1>3. PICK b \in Calls : b = runner[w]
    BY CallFacts
  <1>4. Source(w) \in Sources /\ b.candidate \in Revs /\ Base(b.previous, Source(w))
    BY <1>3, CallFacts DEF Select, At, Sound
  <1>5. Carried \in Selections
    BY DEF IndInv, TypeOK, Carried, Nothing, Selections, CommitOrNone, VersionOrNone, VersionRows
  <1>6. PICK q : q = [Carried EXCEPT ![Source(w)] = b.candidate]
    OBVIOUS
  <1>7. q \in Selections /\ q[Source(w)] = b.candidate
    BY <1>4, <1>5, <1>6 DEF Selections, CommitOrNone
  <1>8. PICK c : c = [b EXCEPT !.pc = "selected", !.selection = q]
    OBVIOUS
  <1>9. /\ c \in Calls /\ c.pc = "selected" /\ c.candidate = b.candidate
        /\ c.previous = b.previous /\ c.selection = q
    BY <1>7, <1>8 DEF Calls, Pcs, Locked
  <1>10. Sound(Source(w), c)
    BY <1>4, <1>7, <1>9 DEF Sound
  <1>11. runner' = [runner EXCEPT ![w] = c]
    BY <1>3, <1>6, <1>8 DEF Select
  <1> QED  BY <1>1, <1>2, <1>9, <1>10, <1>11, QuietStep

-----------------------------------------------------------------------------
(* The actions that write the row of a run.                                *)

\* update_run with any state but `completed` keeps the invariant.
LEMMA MarkStep ==
  ASSUME IndInv, UNCHANGED <<evidence, publication, world>>,
         NEW w \in Runners, ~At(w, "idle"),
         NEW st \in RunStates, st # "completed", Mark(w, st) \/ MarkVersion(w, st),
         NEW c \in Calls, Sound(Source(w), c), runner' = [runner EXCEPT ![w] = c]
  PROVE  IndInv'
  <1>1. PICK k \in Sources \X Revs : k = Key(w) /\ k[1] = Source(w)
    BY CallFacts
  <1>2. PICK row \in RunRows : row = runs[k]
    BY DEF IndInv, TypeOK
  <1>3. Base(row.previous, k[1])
    BY <1>1, <1>2 DEF IndInv, BasesAreReady
  <1>4. PICK v \in VersionOrNone : v = runner[w].version
    BY CallFacts DEF Calls
  <1>5. CASE Mark(w, st)
    <2>1. PICK r : r = [row EXCEPT !.state = st]
      OBVIOUS
    <2>2. r \in RunRows /\ r.state = st /\ r.previous = row.previous
      BY <2>1 DEF RunRows
    <2>3. runs' = [runs EXCEPT ![k] = r]
      BY <1>1, <1>2, <1>5, <2>1 DEF Mark
    <2> QED  BY <1>3, <2>2, <2>3, RowStep
  <1>6. CASE MarkVersion(w, st)
    <2>1. PICK r : r = [row EXCEPT !.state = st, !.version = v]
      OBVIOUS
    <2>2. r \in RunRows /\ r.state = st /\ r.previous = row.previous
      BY <2>1 DEF RunRows
    <2>3. runs' = [runs EXCEPT ![k] = r]
      BY <1>1, <1>2, <1>4, <1>6, <2>1 DEF MarkVersion
    <2> QED  BY <1>3, <2>2, <2>3, RowStep
  <1> QED  BY <1>5, <1>6

\* The row of a candidate starts with the commit its first call diffs against.
LEMMA BeginRunKeeps ==
  ASSUME IndInv, NEW w \in Runners, BeginRun(w)
  PROVE  IndInv'
  <1>1. PICK b \in Calls : b = runner[w]
    BY CallFacts
  <1>2. b.pc = "candidate" /\ b.candidate \in Revs /\ Base(b.previous, Source(w))
    BY <1>1, CallFacts DEF BeginRun, At, Sound
  <1>3. PICK c : c = [b EXCEPT !.pc = "begun"]
    OBVIOUS
  <1>4. "begun" \in Pcs
    BY DEF Pcs, Locked
  <1>5. c \in Calls /\ c.pc = "begun" /\ c.candidate = b.candidate /\ c.previous = b.previous
    BY <1>3, <1>4, MovedCall
  <1>6. Sound(Source(w), c)
    BY <1>2, <1>5 DEF Sound
  <1>7. runner' = [runner EXCEPT ![w] = c]
    BY <1>1, <1>3 DEF BeginRun, Goto
  <1>8. CASE UNCHANGED runs
    <2>1. UNCHANGED Tables /\ UNCHANGED <<head, lockFiles, approved, spent>>
      BY <1>8 DEF BeginRun, evidence, publication, world, Tables
    <2>2. WorldOK'
      BY <2>1, WorldStays
    <2> QED  BY <1>5, <1>6, <1>7, <2>1, <2>2, QuietStep
  <1>9. CASE runs' = [runs EXCEPT ![Key(w)] = [NoRun EXCEPT !.state = "detected",
                                                            !.previous = runner[w].previous]]
    <2>1. PICK k \in Sources \X Revs : k = Key(w) /\ k[1] = Source(w)
      BY <1>1, <1>2, CallFacts DEF At
    <2>2. PICK r : r = [NoRun EXCEPT !.state = "detected", !.previous = b.previous]
      OBVIOUS
    <2>3. r \in RunRows /\ r.state = "detected" /\ r.previous = b.previous
      BY <2>2 DEF NoRun, RunRows, RunStates, CommitOrNone, VersionOrNone, Calls
    <2>4. runs' = [runs EXCEPT ![k] = r] /\ Base(r.previous, k[1])
      BY <1>1, <1>2, <1>9, <2>1, <2>2, <2>3
    <2>5. UNCHANGED <<evidence, publication, world>>
      BY DEF BeginRun
    <2> QED  BY <1>5, <1>6, <1>7, <2>3, <2>4, <2>5, RowStep
  <1> QED  BY <1>8, <1>9 DEF BeginRun

\* A run held for review or failed is written when the call returns, also when
\* the lock was given up long before.
LEMMA HoldingKeeps ==
  ASSUME IndInv, NEW w \in Runners,
         NotForward(w) \/ HoldForReview(w) \/ ReviewLoss(w) \/ Fail(w)
  PROVE  IndInv'
  <1>1. PICK st \in {"review_required", "failed"} :
          (Mark(w, st) \/ MarkVersion(w, st)) /\ Return(w, st)
    BY DEF NotForward, HoldForReview, ReviewLoss, Fail
  <1>2. st \in RunStates /\ st # "completed" /\ st \in Answers
    BY DEF RunStates, Answers
  <1>3. ~At(w, "idle") /\ UNCHANGED <<evidence, publication, world>>
    BY DEF NotForward, HoldForReview, ReviewLoss, Fail, At
  <1>4. PICK c : c = [Resting EXCEPT !.answer = st]
    OBVIOUS
  <1>5. c \in Calls /\ Sound(Source(w), c)
    BY <1>2, <1>4, ReturnedCall, CallFacts
  <1>6. runner' = [runner EXCEPT ![w] = c]
    BY <1>1, <1>4 DEF Return
  <1> QED  BY <1>1, <1>2, <1>3, <1>5, <1>6, MarkStep

\* A call goes on after its row says how far it is.
LEMMA MarkingKeeps ==
  ASSUME IndInv, NEW w \in Runners, Extract(w) \/ MarkImported(w) \/ MarkReady(w)
  PROVE  IndInv'
  <1>1. PICK b \in Calls : b = runner[w]
    BY CallFacts
  <1>2. ~At(w, "idle") /\ UNCHANGED <<evidence, publication, world>>
    BY DEF Extract, MarkImported, MarkReady, At
  <1>3. Sound(Source(w), b) /\ b.pc # "idle"
    BY <1>1, <1>2, CallFacts DEF At
  <1>4. ASSUME NEW p \in Pcs, NEW st \in RunStates, st # "completed",
               Mark(w, st) \/ MarkVersion(w, st), Goto(w, p),
               \/ p = "extracting" /\ b.previous <= b.candidate
               \/ p = "marked"
               \/ p = "ready" /\ b.pc = "built"
        PROVE  IndInv'
    <2>1. PICK c : c = [b EXCEPT !.pc = p]
      OBVIOUS
    <2>2. /\ c \in Calls /\ c.pc = p /\ c.candidate = b.candidate
          /\ c.previous = b.previous /\ c.version = b.version
      BY <2>1, MovedCall
    <2>3. Sound(Source(w), c)
      BY <1>3, <1>4, <2>2 DEF Sound
    <2>4. runner' = [runner EXCEPT ![w] = c]
      BY <1>1, <1>4, <2>1 DEF Goto
    <2> QED  BY <1>2, <1>4, <2>2, <2>3, <2>4, MarkStep
  <1>5. /\ {"extracting", "marked", "ready"} \subseteq Pcs
        /\ {"extracting", "imported", "ready"} \subseteq RunStates
    BY DEF Pcs, Locked, RunStates
  <1>6. CASE Extract(w)
    BY <1>1, <1>4, <1>5, <1>6 DEF Extract, FastForward
  <1>7. CASE MarkImported(w)
    BY <1>4, <1>5, <1>7 DEF MarkImported
  <1>8. CASE MarkReady(w)
    BY <1>1, <1>4, <1>5, <1>8 DEF MarkReady, At
  <1> QED  BY <1>6, <1>7, <1>8

-----------------------------------------------------------------------------
(* The diff and the import.                                                *)

\* A removed case is one of an ancestor in ready inventory that the candidate lacks.
LEMMA CompareKeeps ==
  ASSUME IndInv, NEW w \in Runners, Compare(w)
  PROVE  IndInv'
  <1>1. PICK b \in Calls : b = runner[w]
    BY CallFacts
  <1>2. /\ b.pc = "packaging" /\ b.candidate \in Revs /\ Base(b.previous, Source(w))
        /\ b.previous <= b.candidate /\ Source(w) \in Sources
    BY <1>1, CallFacts DEF Compare, At, Sound
  <1>3. PICK c : c = [b EXCEPT !.pc = "compared"]
    OBVIOUS
  <1>4. "compared" \in Pcs
    BY DEF Pcs, Locked
  <1>5. c \in Calls /\ c.pc = "compared" /\ c.candidate = b.candidate /\ c.previous = b.previous
    BY <1>3, <1>4, MovedCall
  <1>6. Sound(Source(w), c)
    BY <1>2, <1>5 DEF Sound
  <1>7. runner' = [runner EXCEPT ![w] = c]
    BY <1>1, <1>3 DEF Compare, Goto
  <1>8. InventoryGrows /\ VersionsKept
    BY DEF Compare, publication, InventoryGrows, VersionsKept
  <1>9. Sound(Source(w), c)'
    BY <1>2, <1>5, <1>6, <1>8, Relied DEF Source
  <1>10. runner' \in [Runners -> Calls] /\ \A v \in Runners : Sound(Source(v), runner[v])'
    BY <1>5, <1>7, <1>8, <1>9, CallsStaySound
  <1>11. \A key \in Removed(w) :
           /\ key \in STRING
           /\ key \notin KeysOf(Source(w), b.candidate)
           /\ key \in KeysOf(Source(w), b.previous)
    BY <1>1, CasesAssumption DEF Removed, PackageKeys, KeysOf, CasesOf, CaseRows
  <1>12. \A key \in Restored(w) : key \in STRING
    BY CasesAssumption DEF Restored, Added, PackageKeys, KeysOf, CasesOf, CaseRows
  <1>13. \A t \in TombstoneEvents(w) :
           /\ t \in TombstoneRows /\ t.source = Source(w) /\ t.candidate = b.candidate
           /\ t.event = "removed" => t.key \in Removed(w)
    BY <1>1, <1>2, <1>11, <1>12 DEF TombstoneEvents, Tombstone, TombstoneRows
  <1>14. tombstones' \subseteq TombstoneRows
    BY <1>13 DEF Compare, IndInv, TypeOK
  <1>15. TypeOK'
    BY <1>10, <1>14 DEF Compare, IndInv, TypeOK, WorldOK, publication, world
  <1>16. BasesAreReady' /\ CompletedRows'
    BY <1>8, BasesStay, CompletedRowsStay DEF Compare
  <1>17. PointerIsActive'
    BY DEF Compare, IndInv, PointerIsActive, publication
  <1>18. ASSUME Removed(w) # {}
         PROVE  b.previous \in inventory[Source(w)] /\ b.previous < b.candidate
    <2>1. PICK key : key \in Removed(w)
      BY <1>18
    <2>2. b.previous # b.candidate
      BY <1>11, <2>1
    <2>3. b.previous # None
      BY <1>11, <2>1, CasesAssumption, BoundsAssumption DEF KeysOf, CasesOf, CaseRows, Revs, None
    <2>4. b.previous \in inventory[Source(w)]
      BY <1>2, <2>3 DEF Base
    <2>5. b.previous \in Int /\ b.candidate \in Int
      BY <1>2, BoundsAssumption DEF Calls, CommitOrNone, Revs, None
    <2> QED  BY <1>2, <2>2, <2>4, <2>5
  <1>19. RemovalsAreWitnessed'
    <2>1. \A t \in TombstoneEvents(w) : t.event = "removed" =>
            /\ t.key \notin KeysOf(t.source, t.candidate)
            /\ \E p \in inventory[t.source] : p < t.candidate /\ t.key \in KeysOf(t.source, p)
      <3> SUFFICES ASSUME NEW t \in TombstoneEvents(w), t.event = "removed"
                   PROVE  /\ t.key \notin KeysOf(t.source, t.candidate)
                          /\ \E p \in inventory[t.source] :
                               p < t.candidate /\ t.key \in KeysOf(t.source, p)
        OBVIOUS
      <3>1. t.source = Source(w) /\ t.candidate = b.candidate /\ t.key \in Removed(w)
        BY <1>13
      <3> QED  BY <1>11, <1>18, <3>1
    <2> QED  BY <2>1 DEF Compare, IndInv, RemovalsAreWitnessed, KeysOf, CasesOf
  <1> QED  BY <1>10, <1>15, <1>16, <1>17, <1>19 DEF IndInv

\* A candidate that passed the gate becomes ready inventory, and the latest when new.
LEMMA ImportKeeps ==
  ASSUME IndInv, NEW w \in Runners, Import(w)
  PROVE  IndInv'
  <1>1. PICK b \in Calls : b = runner[w]
    BY CallFacts
  <1>2. /\ b.pc = "compared" /\ b.candidate \in Revs /\ Base(b.previous, Source(w))
        /\ Source(w) \in Sources
    BY <1>1, CallFacts DEF Import, At, Sound
  <1>3. PICK c : c = [b EXCEPT !.pc = "imported"]
    OBVIOUS
  <1>4. "imported" \in Pcs
    BY DEF Pcs, Locked
  <1>5. c \in Calls /\ c.pc = "imported" /\ c.candidate = b.candidate /\ c.previous = b.previous
    BY <1>3, <1>4, MovedCall
  <1>6. Sound(Source(w), c)
    BY <1>2, <1>5 DEF Sound
  <1>7. runner' = [runner EXCEPT ![w] = c]
    BY <1>1, <1>3 DEF Import, Goto
  <1>8. inventory' = [inventory EXCEPT ![Source(w)] = @ \cup {b.candidate}]
    BY <1>1 DEF Import
  <1>9. latest' = latest \/ latest' = [latest EXCEPT ![Source(w)] = b.candidate]
    BY <1>1 DEF Import
  <1>10. inventory' \in [Sources -> SUBSET Revs] /\ InventoryGrows
    BY <1>2, <1>8 DEF IndInv, TypeOK, InventoryGrows
  <1>11. b.candidate \in inventory'[Source(w)]
    BY <1>2, <1>8 DEF IndInv, TypeOK
  <1>12. VersionsKept
    BY DEF Import, publication, VersionsKept
  <1>13. Sound(Source(w), c)'
    BY <1>2, <1>5, <1>6, <1>10, <1>12, Relied DEF Source
  <1>14. runner' \in [Runners -> Calls] /\ \A v \in Runners : Sound(Source(v), runner[v])'
    BY <1>5, <1>7, <1>10, <1>12, <1>13, CallsStaySound
  <1>15. latest' \in [Sources -> CommitOrNone]
    BY <1>2, <1>9 DEF IndInv, TypeOK, CommitOrNone
  <1>16. TypeOK'
    BY <1>10, <1>14, <1>15 DEF Import, IndInv, TypeOK, WorldOK, publication, world
  <1>17. BasesAreReady'
    BY <1>2, <1>9, <1>10, <1>11 DEF Import, IndInv, TypeOK, BasesAreReady, Base, InventoryGrows
  <1>18. CompletedRows' /\ RemovalsAreWitnessed'
    BY <1>10, <1>12, CompletedRowsStay, WitnessesStay DEF Import
  <1>19. PointerIsActive'
    BY DEF Import, IndInv, PointerIsActive, publication
  <1> QED  BY <1>14, <1>16, <1>17, <1>18, <1>19 DEF IndInv

-----------------------------------------------------------------------------
(* The versions and the pointer.                                           *)

\* A build fills a version that nobody refers to.
LEMMA BuildKeeps ==
  ASSUME IndInv, NEW w \in Runners, Build(w)
  PROVE  IndInv' /\ VersionsKept
  <1>1. PICK b \in Calls : b = runner[w]
    BY CallFacts
  <1>2. /\ b.pc = "selected" /\ b.candidate \in Revs /\ Base(b.previous, Source(w))
        /\ b.selection[Source(w)] = b.candidate /\ b.selection \in Selections
        /\ Source(w) \in Sources
    BY <1>1, CallFacts DEF Build, At, Sound, Calls
  <1>3. PICK keys : keys = PublicKeys(b.selection)
    OBVIOUS
  <1>4. keys \subseteq STRING
    BY <1>3, CasesAssumption DEF IndInv, TypeOK, WorldOK, PublicKeys, CaseRows
  <1>5. PICK r : r = [state |-> "ready", selection |-> b.selection, keys |-> keys]
    OBVIOUS
  <1>6. r \in VersionRows /\ r.state = "ready" /\ r.selection = b.selection
    BY <1>2, <1>4, <1>5 DEF VersionRows
  <1>7. PICK v \in Versions :
          /\ Fresh(v)
          /\ versions' = [versions EXCEPT ![v] = r]
          /\ runner' = [runner EXCEPT ![w] = [@ EXCEPT !.pc = "built", !.version = v]]
    BY <1>1, <1>3, <1>5 DEF Build
  <1>8. PICK c : c = [b EXCEPT !.pc = "built", !.version = v]
    OBVIOUS
  <1>9. /\ c \in Calls /\ c.pc = "built" /\ c.candidate = b.candidate
        /\ c.previous = b.previous /\ c.version = v
    BY <1>8 DEF Calls, Pcs, Locked, VersionOrNone
  <1>10. runner' = [runner EXCEPT ![w] = c]
    BY <1>1, <1>7, <1>8
  <1>11. /\ versions' \in [Versions -> VersionRows] /\ versions'[v] = r
         /\ \A u \in Versions \ {v} : versions'[u] = versions[u]
         /\ versions[v].state = "none"
    BY <1>6, <1>7 DEF IndInv, TypeOK, Fresh
  <1>12. VersionsKept
    BY <1>11 DEF VersionsKept
  <1>13. InventoryGrows /\ UNCHANGED <<runs, latest, tombstones, current, announced>>
    BY DEF Build, InventoryGrows, evidence
  <1>14. Sound(Source(w), c)'
    BY <1>2, <1>6, <1>9, <1>11, <1>13 DEF Build, evidence, Sound, Base, Built, Source
  <1>15. runner' \in [Runners -> Calls] /\ \A x \in Runners : Sound(Source(x), runner[x])'
    BY <1>9, <1>10, <1>12, <1>13, <1>14, CallsStaySound
  <1>16. TypeOK'
    BY <1>11, <1>15 DEF Build, IndInv, TypeOK, WorldOK, evidence, world
  <1>17. BasesAreReady' /\ CompletedRows' /\ RemovalsAreWitnessed'
    BY <1>12, <1>13, BasesStay, CompletedRowsStay, WitnessesStay
  <1>18. PointerIsActive'
    BY <1>6, <1>11, <1>13 DEF IndInv, PointerIsActive
  <1> QED  BY <1>12, <1>15, <1>16, <1>17, <1>18 DEF IndInv

\* The switch of the pointer, of the version states and of the outbox is one
\* change, which takes no public case away.
LEMMA SwitchFacts ==
  ASSUME IndInv, NEW v \in Versions, versions[v].state # "none", Switch(v)
  PROVE  /\ versions' \in [Versions -> VersionRows]
         /\ current' = v /\ announced' = v
         /\ versions'[v].state = "active"
         /\ VersionsKept /\ PointerIsActive'
         /\ current # None => versions[current].keys \subseteq versions'[current'].keys
  <1>0. versions \in [Versions -> VersionRows] /\ current \in VersionOrNone
    BY DEF IndInv, TypeOK
  <1>1. PointerIsActive
    BY DEF IndInv
  <1>2. CASE versions[v].state = "active" /\ current = v /\ UNCHANGED publication
    BY <1>0, <1>1, <1>2 DEF publication, VersionsKept, PointerIsActive
  <1>3. CASE /\ versions[v].state # "active"
             /\ ~Loses(v)
             /\ versions' = [u \in Versions |->
                  IF u = v THEN [versions[u] EXCEPT !.state = "active"]
                  ELSE IF u = current /\ versions[u].state = "active"
                       THEN [versions[u] EXCEPT !.state = "superseded"]
                       ELSE versions[u]]
             /\ current' = v
             /\ announced' = v
    <2>1. \A u \in Versions :
            /\ versions'[u] \in VersionRows
            /\ versions'[u].selection = versions[u].selection
            /\ versions'[u].keys = versions[u].keys
            /\ versions'[u].state = IF u = v THEN "active"
                                    ELSE IF u = current /\ versions[u].state = "active"
                                         THEN "superseded" ELSE versions[u].state
      BY <1>0, <1>3 DEF VersionRows, Public
    <2>2. versions' = [u \in Versions |-> versions'[u]]
      BY <1>3
    <2>3. versions' \in [Versions -> VersionRows]
      BY <2>1, <2>2
    <2>4. VersionsKept
      BY <2>1 DEF VersionsKept, Public
    <2>5. PointerIsActive'
      BY <1>1, <1>3, <2>1 DEF PointerIsActive
    <2>6. current # None => versions[current].keys \subseteq versions'[v].keys
      BY <1>3, <2>1 DEF Loses
    <2> QED  BY <1>3, <2>1, <2>3, <2>4, <2>5, <2>6
  <1> QED  BY <1>2, <1>3 DEF Switch

\* The activation for a run: the pointer moves and the run is completed at once.
LEMMA CompleteStep ==
  ASSUME IndInv, NEW w \in Runners, Complete(w), WorldOK', lockFiles' = lockFiles,
         NEW c \in Calls, c.pc \in {"idle", "failing"},
         c.pc # "idle" => c.candidate = runner[w].candidate,
         Base(c.previous, Source(w)),
         runner' = [runner EXCEPT ![w] = c]
  PROVE  IndInv'
  <1>1. PICK b \in Calls : b = runner[w]
    BY CallFacts
  <1>2. /\ b.pc = "ready" /\ b.candidate \in Revs /\ Source(w) \in Sources
        /\ Built(b.version, Source(w), b.candidate)
    BY <1>1, CallFacts DEF Complete, At, Sound
  <1>3. PICK v \in Versions : v = b.version
    BY <1>2 DEF Built
  <1>4. versions[v].state # "none" /\ versions[v].selection[Source(w)] = b.candidate
    BY <1>2, <1>3 DEF Built
  <1>5. Switch(v)
    BY <1>1, <1>3 DEF Complete
  <1>6. /\ versions' \in [Versions -> VersionRows] /\ current' = v /\ announced' = v
        /\ versions'[v].state = "active" /\ VersionsKept /\ PointerIsActive'
    BY <1>4, <1>5, SwitchFacts
  <1>7. PICK k \in Sources \X Revs : k = Key(w) /\ k = <<Source(w), b.candidate>>
    BY <1>1, <1>2 DEF Key, Source
  <1>8. PICK row \in RunRows : row = runs[k]
    BY DEF IndInv, TypeOK
  <1>9. PICK r : r = [row EXCEPT !.state = "completed", !.version = v]
    OBVIOUS
  <1>10. r \in RunRows /\ r.version = v /\ r.previous = row.previous
    BY <1>9 DEF RunRows, RunStates, VersionOrNone
  <1>11. runs' = [runs EXCEPT ![k] = r]
    BY <1>1, <1>3, <1>7, <1>8, <1>9 DEF Complete, MarkVersion
  <1>12. runs' \in [Sources \X Revs -> RunRows]
    BY <1>10, <1>11 DEF IndInv, TypeOK
  <1>13. \A s \in Sources, d \in Revs :
           runs'[<<s, d>>] = IF <<s, d>> = k THEN r ELSE runs[<<s, d>>]
    BY <1>11 DEF IndInv, TypeOK
  <1>14. InventoryGrows /\ UNCHANGED <<inventory, latest, tombstones>>
    BY DEF Complete, evidence, InventoryGrows
  <1>15. Sound(Source(w), c)'
    BY <1>1, <1>2, <1>14 DEF Sound, Base, Source
  <1>16. runner' \in [Runners -> Calls] /\ \A x \in Runners : Sound(Source(x), runner[x])'
    BY <1>6, <1>14, <1>15, CallsStaySound
  <1>17. TypeOK'
    BY <1>6, <1>12, <1>14, <1>16 DEF IndInv, TypeOK, VersionOrNone
  <1>18. BasesAreReady'
    BY <1>8, <1>10, <1>13, <1>14 DEF IndInv, BasesAreReady, Base
  <1>19. CompletedRows'
    <2> SUFFICES ASSUME NEW s \in Sources, NEW d \in Revs, runs'[<<s, d>>].state = "completed"
                 PROVE  Published(runs[<<s, d>>].version, s, d)'
      BY DEF CompletedRows
    <2>1. CASE <<s, d>> = k
      <3>1. s = Source(w) /\ d = b.candidate /\ runs'[<<s, d>>].version = v
        BY <1>7, <1>10, <1>13, <2>1
      <3>2. versions'[v].selection[s] = d
        BY <1>4, <1>6, <3>1 DEF VersionsKept
      <3> QED  BY <1>6, <3>1, <3>2 DEF Published, Public
    <2>2. CASE <<s, d>> # k
      <3>1. runs'[<<s, d>>] = runs[<<s, d>>]
        BY <1>13, <2>2
      <3>2. PICK u : u = runs[<<s, d>>].version
        OBVIOUS
      <3>3. Published(u, s, d)
        BY <3>1, <3>2 DEF IndInv, CompletedRows
      <3>4. Published(u, s, d)'
        BY <1>6, <3>3 DEF Published, VersionsKept, Public
      <3> QED  BY <3>1, <3>2, <3>4 DEF Published
    <2> QED  BY <2>1, <2>2
  <1>20. RemovalsAreWitnessed'
    BY <1>14, WitnessesStay
  <1> QED  BY <1>6, <1>16, <1>17, <1>18, <1>19, <1>20 DEF IndInv

\* The activation answers, or commits and fails to answer.
LEMMA CompleteKeeps ==
  ASSUME IndInv, NEW w \in Runners, Activate(w) \/ Unanswered(w)
  PROVE  IndInv'
  <1>1. Complete(w) /\ UNCHANGED <<head, lockFiles, approved>>
    BY DEF Activate, Unanswered, Complete, evidence, world
  <1>2. spent' \in [Events -> Nat]
    <2>1. "unanswered" \in Events
      BY DEF Events
    <2> QED  BY <2>1, SpendStays DEF Activate, Unanswered, world, IndInv, TypeOK, WorldOK
  <1>3. WorldOK'
    BY <1>1, <1>2 DEF IndInv, TypeOK, WorldOK
  <1>4. ASSUME Activate(w)
        PROVE  IndInv'
    <2>1. PICK c : c = [Resting EXCEPT !.answer = "completed"]
      OBVIOUS
    <2>2. c \in Calls /\ c.pc = "idle" /\ c.previous = None
      BY <2>1 DEF Resting, Nothing, Calls, Pcs, CommitOrNone, VersionOrNone, Selections, Answers
    <2>3. runner' = [runner EXCEPT ![w] = c]
      BY <1>4, <2>1 DEF Activate, Return
    <2>4. Base(c.previous, Source(w))
      BY <2>2 DEF Base
    <2> QED  BY <1>1, <1>3, <2>2, <2>3, <2>4, CompleteStep
  <1>5. ASSUME Unanswered(w)
        PROVE  IndInv'
    <2>1. PICK b \in Calls : b = runner[w]
      BY CallFacts
    <2>2. PICK c : c = [b EXCEPT !.pc = "failing"]
      OBVIOUS
    <2>3. "failing" \in Pcs
      BY DEF Pcs
    <2>4. c \in Calls /\ c.pc = "failing" /\ c.candidate = b.candidate /\ c.previous = b.previous
      BY <2>2, <2>3, MovedCall
    <2>5. runner' = [runner EXCEPT ![w] = c]
      BY <1>5, <2>1, <2>2 DEF Unanswered, Goto
    <2>6. Base(c.previous, Source(w))
      BY <2>1, <2>4, CallFacts DEF Sound
    <2> QED  BY <1>1, <1>3, <2>1, <2>4, <2>5, <2>6, CompleteStep
  <1> QED  BY <1>4, <1>5

-----------------------------------------------------------------------------
(* Around the synchronisation.                                             *)

\* Pushes, resets and reviews change no table of the synchronisation.
LEMMA OutsideKeeps ==
  ASSUME IndInv,
         \/ \E s \in Sources : Push(s) \/ Reset(s)
         \/ \E c \in Cases : Review(c)
  PROVE  IndInv'
  <1>1. UNCHANGED Tables /\ UNCHANGED <<runner, lockFiles>>
    BY DEF Push, Reset, Review, evidence, publication, Tables
  <1>2. "reset" \in Events /\ "review" \in Events
    BY DEF Events
  <1>3. WorldOK'
    <2>1. ASSUME NEW s \in Sources, Push(s)
          PROVE  WorldOK'
      <3>1. head[s] \in Revs /\ head[s] + 1 \in Revs
        BY <2>1, BoundsAssumption DEF Push, IndInv, TypeOK, WorldOK, Revs
      <3>2. head' \in [Sources -> Revs]
        BY <2>1, <3>1 DEF Push, IndInv, TypeOK, WorldOK
      <3> QED  BY <1>1, <2>1, <3>2 DEF Push, IndInv, TypeOK, WorldOK
    <2>2. ASSUME NEW s \in Sources, Reset(s)
          PROVE  WorldOK'
      <3>1. head' \in [Sources -> Revs]
        BY <2>2 DEF Reset, IndInv, TypeOK, WorldOK
      <3>2. spent' \in [Events -> Nat]
        BY <1>2, <2>2, SpendStays DEF Reset
      <3> QED  BY <1>1, <2>2, <3>1, <3>2 DEF Reset, IndInv, TypeOK, WorldOK
    <2>3. ASSUME NEW c \in Cases, Review(c)
          PROVE  WorldOK'
      <3>1. spent' \in [Events -> Nat]
        BY <1>2, <2>3, SpendStays DEF Review
      <3> QED  BY <1>1, <2>3, <3>1 DEF Review, IndInv, TypeOK, WorldOK
    <2> QED  BY <2>1, <2>2, <2>3
  <1>4. TypeOK'
    BY <1>1, <1>3 DEF IndInv, TypeOK, Tables
  <1>5. \A v \in Runners : Sound(Source(v), runner[v])'
    BY <1>1, TablesUnchanged, RestingCallsStaySound
  <1> QED  BY <1>1, <1>4, <1>5, TablesUnchanged DEF IndInv

\* The operator's activation or rollback switches like a call's.
LEMMA OperateKeeps ==
  ASSUME IndInv, NEW v \in Versions, Operate(v)
  PROVE  IndInv'
  <1>1. versions[v].state # "none" /\ Switch(v)
    BY DEF Operate
  <1>2. /\ versions' \in [Versions -> VersionRows] /\ current' = v /\ announced' = v
        /\ VersionsKept /\ PointerIsActive'
    BY <1>1, SwitchFacts
  <1>3. /\ InventoryGrows
        /\ UNCHANGED <<runs, inventory, latest, lockFiles, tombstones, runner, head, approved>>
    BY DEF Operate, evidence, InventoryGrows
  <1>4. "operate" \in Events
    BY DEF Events
  <1>5. spent' \in [Events -> Nat]
    BY <1>4, SpendStays DEF Operate
  <1>6. TypeOK'
    BY <1>2, <1>3, <1>5 DEF IndInv, TypeOK, WorldOK, VersionOrNone
  <1>7. BasesAreReady' /\ CompletedRows' /\ RemovalsAreWitnessed'
    BY <1>2, <1>3, BasesStay, CompletedRowsStay, WitnessesStay
  <1>8. \A x \in Runners : Sound(Source(x), runner[x])'
    BY <1>2, <1>3, RestingCallsStaySound
  <1> QED  BY <1>2, <1>6, <1>7, <1>8 DEF IndInv

-----------------------------------------------------------------------------
(* The theorems.                                                           *)

\* Nothing has happened at first.
LEMMA InitInd == Init => IndInv
  <1> SUFFICES ASSUME Init
               PROVE  IndInv
    OBVIOUS
  <1>1. /\ NoRun \in RunRows /\ NoRun.previous = None /\ NoRun.state = "none"
        /\ NoVersion \in VersionRows /\ NoVersion.state = "none"
    BY DEF NoRun, RunRows, RunStates, NoVersion, Nothing, VersionRows, Selections, CommitOrNone,
           VersionOrNone, Public
  <1>2. Resting \in Calls /\ Resting.pc = "idle" /\ Resting.previous = None
    BY DEF Resting, Nothing, Calls, Pcs, CommitOrNone, VersionOrNone, Selections, Answers
  <1>3. 1 \in Revs
    BY BoundsAssumption DEF Revs
  <1>4. WorldOK
    BY <1>3 DEF Init, WorldOK
  <1>5. TypeOK
    BY <1>1, <1>2, <1>4 DEF Init, TypeOK, CommitOrNone, VersionOrNone
  <1>6. \A w \in Runners : Sound(Source(w), runner[w])
    BY <1>2 DEF Init, Sound, Base
  <1>7. BasesAreReady /\ CompletedRows
    BY <1>1 DEF Init, BasesAreReady, Base, CompletedRows
  <1>8. PointerIsActive
    BY <1>1, BoundsAssumption DEF Init, PointerIsActive, Versions, None
  <1>9. RemovalsAreWitnessed
    BY DEF Init, RemovalsAreWitnessed
  <1> QED  BY <1>5, <1>6, <1>7, <1>8, <1>9 DEF IndInv

\* Every step keeps the invariant.
LEMMA StepKeeps == IndInv /\ [Next]_vars => IndInv'
  <1> SUFFICES ASSUME IndInv, [Next]_vars
               PROVE  IndInv'
    OBVIOUS
  <1>1. ASSUME NEW w \in Runners, Step(w) \/ Fault(w)
        PROVE  IndInv'
    <2>1. CASE \/ Detect(w) \/ ReadLatest(w) \/ Consult(w)
      BY <2>1, ReadingKeeps
    <2>2. CASE \/ NoChange(w) \/ LockBusy(w) \/ AlreadyCompleted(w)
               \/ RunLocked(w) \/ Conflict(w) \/ PublicLoss(w) \/ NoRoom(w)
      BY <2>2, LeavingKeeps
    <2>3. CASE BeginRun(w) \/ LockPackage(w) \/ Select(w)
      BY <2>3, BeginRunKeeps, LockPackageKeeps, SelectKeeps
    <2>4. CASE NotForward(w) \/ HoldForReview(w) \/ ReviewLoss(w) \/ Fail(w)
      BY <2>4, HoldingKeeps
    <2>5. CASE Extract(w) \/ MarkImported(w) \/ MarkReady(w)
      BY <2>5, MarkingKeeps
    <2>6. CASE Compare(w) \/ Import(w) \/ Build(w)
      BY <2>6, CompareKeeps, ImportKeeps, BuildKeeps
    <2>7. CASE Activate(w) \/ Unanswered(w)
      BY <2>7, CompleteKeeps
    <2>8. CASE Raise(w) \/ Crash(w)
      BY <2>8, FaultKeeps
    <2> QED  BY <1>1, <2>1, <2>2, <2>3, <2>4, <2>5, <2>6, <2>7, <2>8 DEF Step, Fault
  <1>2. CASE Around
    BY <1>2, OutsideKeeps, OperateKeeps DEF Around
  <1>3. ASSUME UNCHANGED vars
        PROVE  IndInv'
    <2>1. UNCHANGED Tables /\ UNCHANGED <<runner, head, lockFiles, approved, spent>>
      BY <1>3 DEF vars, Tables
    <2>2. TypeOK'
      BY <2>1, WorldStays DEF IndInv, TypeOK, Tables
    <2>3. \A v \in Runners : Sound(Source(v), runner[v])'
      BY <2>1, TablesUnchanged, RestingCallsStaySound
    <2> QED  BY <2>1, <2>2, <2>3, TablesUnchanged DEF IndInv
  <1> QED  BY <1>1, <1>2, <1>3 DEF Next

\* The invariant holds throughout.
THEOREM Invariance == Spec => []IndInv
  BY InitInd, StepKeeps, PTL DEF Spec

\* All state keeps its type.
THEOREM TypeCorrect == Spec => []TypeOK
  <1>1. IndInv => TypeOK
    BY DEF IndInv
  <1> QED  BY <1>1, Invariance, PTL

\* Whatever retries, faults and switches come, a completed run names a version
\* that was made public for its candidate, and the pointer, the one active version
\* and the newest announcement agree.
THEOREM CompletedIsPublicAlways == Spec => []CompletedIsPublic
  <1>1. IndInv => CompletedIsPublic
    BY BoundsAssumption DEF IndInv, CompletedRows, PointerIsActive, CompletedIsPublic, Published,
                            Public, Versions, None
  <1> QED  BY <1>1, Invariance, PTL

\* Every removal on record is one between an ancestor in ready inventory and the
\* candidate.
THEOREM RemovalsAlwaysWitnessed == Spec => []RemovalsAreWitnessed
  <1>1. IndInv => RemovalsAreWitnessed
    BY DEF IndInv
  <1> QED  BY <1>1, Invariance, PTL

\* No step takes a case from the public set.
THEOREM PublicNeverLost == Spec => NoPublicLoss
  <1> DEFINE Kept == current # None =>
               /\ current' # None
               /\ versions[current].keys \subseteq versions'[current'].keys
  <1>1. IndInv /\ [Next]_vars => [Kept]_vars
    <2> SUFFICES ASSUME IndInv, Next
                 PROVE  Kept
      OBVIOUS
    <2>1. CASE UNCHANGED <<versions, current>>
      BY <2>1
    <2>2. ASSUME NEW v \in Versions, versions[v].state # "none", Switch(v)
          PROVE  Kept
      BY <2>2, SwitchFacts, BoundsAssumption DEF Versions, None
    <2>3. ASSUME NEW w \in Runners, Build(w)
          PROVE  Kept
      <3>1. VersionsKept /\ current' = current
        BY <2>3, BuildKeeps DEF Build
      <3>2. current # None => current \in Versions /\ versions[current].state = "active"
        BY DEF IndInv, TypeOK, PointerIsActive, VersionOrNone
      <3> QED  BY <3>1, <3>2 DEF VersionsKept
    <2>4. ASSUME NEW w \in Runners, Complete(w)
          PROVE  Kept
      <3>1. Built(runner[w].version, Source(w), runner[w].candidate)
        BY <2>4, CallFacts DEF Complete, At, Sound
      <3> QED  BY <2>2, <2>4, <3>1 DEF Complete, Built
    <2>5. ASSUME NEW w \in Runners, Step(w) \/ Fault(w), ~Build(w), ~Complete(w)
          PROVE  UNCHANGED <<versions, current>>
      BY <2>5 DEF Step, Fault, Detect, ReadLatest, NoChange, Consult, LockBusy, BeginRun,
           AlreadyCompleted, NotForward, Extract, LockPackage, RunLocked, Compare, HoldForReview,
           Import, MarkImported, Select, MarkReady, Activate, Conflict, PublicLoss, ReviewLoss,
           Fail, NoRoom, Raise, Crash, Unanswered, publication
    <2>6. CASE Around
      BY <2>1, <2>2, <2>6 DEF Around, Push, Reset, Review, Operate, publication
    <2> QED  BY <2>1, <2>3, <2>4, <2>5, <2>6 DEF Next
  <1> QED  BY <1>1, Invariance, PTL DEF Spec, NoPublicLoss
=============================================================================
