------------------------- MODULE PublicationV2Proofs ------------------------
(***************************************************************************)
(* Machine-checked proofs about PublicationV2, for any number of sources,  *)
(* cases, sessions, versions, reviews and takedown scopes. The argument is *)
(* about locks: a session keeps every advisory lock that guards what it    *)
(* has read until it ends (Holding), a session that would change what was  *)
(* read needs the same lock, so what was checked is still true (Checked).  *)
(***************************************************************************)
EXTENDS PublicationV2, FiniteSetTheorems, WellFoundedInduction, TLAPS

-----------------------------------------------------------------------------
(* Locks.                                                                  *)

(* The four kinds of locks differ, and a project lock names its source.    *)
LEMMA LockNames ==
    /\ Current # Timeline
    /\ \A k \in BuildKeys : BuildKey(k) # Current /\ BuildKey(k) # Timeline
    /\ \A s \in Sources : Project(s) # Current /\ Project(s) # Timeline
    /\ \A k \in BuildKeys, s \in Sources : BuildKey(k) # Project(s)
    /\ \A s, t \in Sources : Project(s) = Project(t) => s = t
    /\ \A j, k \in BuildKeys : BuildKey(j) = BuildKey(k) => j = k
BY DEF Current, Timeline, BuildKey, Project

(* Key and pointer come first, then the projects by id, then the timeline. *)
LEMMA Stages ==
    /\ Stage(Current) = 0 /\ Stage(Timeline) = 2
    /\ \A k \in BuildKeys : Stage(BuildKey(k)) = 0 /\ BuildKey(k)[1] = "build"
    /\ \A s \in Sources : Stage(Project(s)) = 1 /\ Project(s)[1] = "project" /\ Project(s)[2] = s
    /\ Current[1] # "build" /\ Timeline[1] # "build"
BY LockNames DEF Stage, Current, Timeline, BuildKey, Project

LEMMA LockKinds ==
    ASSUME NEW l \in Locks
    PROVE  \/ l = Current \/ l = Timeline
           \/ \E s \in Sources : l = Project(s)
           \/ \E k \in BuildKeys : l = BuildKey(k)
BY DEF Locks

(* Nothing comes after the timeline. *)
LEMMA TimelineIsLast ==
    ASSUME NEW l \in Locks
    PROVE  ~Before(Timeline, l)
<1>1. Stage(l) \in {0, 1, 2}
  BY DEF Stage
<1> QED  BY <1>1, Stages DEF Before

-----------------------------------------------------------------------------
(* Types.                                                                  *)

LEMMA RevsType ==
    /\ Revs \subseteq Nat
    /\ None \notin Revs
    /\ \A s \in Sources : 1 \in Revs
    /\ \A s \in Sources, n \in Nat : 0 < n /\ n <= MaxRuns[s] => n \in Revs
BY BoundsAssumption, NoneAssumption DEF Revs

(* The rows a transaction starts with, and every way it goes on. *)
LEMMA NoCallType == NoCall \in CallRows
BY BoundsAssumption DEF NoCall, CallRows, Phases, Operations, Selections, Nothing, Reviews, NoReview,
   Requests, NoRequest

LEMMA StepTypes ==
    ASSUME NEW row \in CallRows
    PROVE  /\ \A phase \in Phases : [row EXCEPT !.phase = phase] \in CallRows
           /\ \A phase \in Phases, needs \in SUBSET Locks :
                [row EXCEPT !.needs = needs, !.phase = phase] \in CallRows
           /\ \A entries \in SUBSET Entries :
                [row EXCEPT !.phase = "commit", !.entries = entries] \in CallRows
BY DEF CallRows, Phases

LEMMA ReviewsType ==
    ASSUME TypeOK, NEW selection \in Selections, NEW c \in Cases,
           selection[SourceOf[c]] \in Holds[c]
    PROVE  /\ selection[SourceOf[c]] \in Revs
           /\ Reviewed(selection, c) \in Reviews
BY FactsAssumption DEF TypeOK, Reviewed

LEMMA EntriesType ==
    ASSUME TypeOK, NEW selection \in Selections
    PROVE  /\ EntriesFor(selection) \in SUBSET Entries
           /\ \A e \in EntriesFor(selection) :
                e.case \in Cases /\ selection[SourceOf[e.case]] \in Holds[e.case]
<1> SUFFICES ASSUME NEW c \in Cases, Included(selection, c)
             PROVE  /\ EntryFor(selection, c) \in Entries
                    /\ EntryFor(selection, c).case = c
                    /\ selection[SourceOf[c]] \in Holds[c]
  BY DEF EntriesFor
<1>1. selection[SourceOf[c]] \in Holds[c] /\ Reviewed(selection, c).primary # None
  BY DEF Included
<1>2. Reviewed(selection, c) \in Reviews
  BY <1>1, ReviewsType
<1>3. Shows[c] \subseteq Assets
  BY FactsAssumption
<1> QED  BY <1>1, <1>2, <1>3 DEF EntryFor, Entries, Reviews

LEMMA BuildRow ==
    ASSUME NEW k \in BuildKeys, NEW selection \in Selections, NEW needs \in SUBSET Locks
    PROVE  [NoCall EXCEPT !.phase = "locking", !.operation = "build", !.key = k,
              !.selection = selection, !.needs = needs] \in CallRows
BY NoCallType DEF CallRows, Phases, Operations

LEMMA SwitchRow ==
    ASSUME NEW v \in Versions, NEW operation \in Switches, NEW needs \in SUBSET Locks
    PROVE  [NoCall EXCEPT !.phase = "locking", !.operation = operation, !.version = v,
              !.needs = needs] \in CallRows
BY NoCallType DEF CallRows, Phases, Operations, Switches

LEMMA TakedownRow ==
    ASSUME NEW x \in Scopes, NEW request \in Requests, NEW needs \in SUBSET Locks
    PROVE  [NoCall EXCEPT !.phase = "locking", !.operation = "takedown", !.scope = x,
              !.request = request, !.needs = needs] \in CallRows
BY NoCallType DEF CallRows, Phases, Operations

LEMMA ReviewRow ==
    ASSUME NEW c \in Cases, NEW selection \in Selections, NEW review \in Reviews,
           NEW needs \in SUBSET Locks
    PROVE  [NoCall EXCEPT !.phase = "locking", !.operation = "review", !.case = c,
              !.selection = selection, !.review = review, !.needs = needs] \in CallRows
BY NoCallType DEF CallRows, Phases, Operations

LEMMA ImportRow ==
    ASSUME NEW selection \in Selections, NEW needs \in SUBSET Locks
    PROVE  [NoCall EXCEPT !.phase = "locking", !.operation = "import",
              !.selection = selection, !.needs = needs] \in CallRows
BY NoCallType DEF CallRows, Phases, Operations

(* Whatever a transaction still needs are locks. *)
LEMMA NeedsType ==
    /\ {Current, Timeline} \subseteq Locks
    /\ \A s \in Sources : Project(s) \in Locks
    /\ \A k \in BuildKeys : BuildKey(k) \in Locks
    /\ \A selection \in Selections : ProjectsOf(selection) \in SUBSET Locks
BY DEF Locks, ProjectsOf

LEMMA StartTyped ==
    ASSUME TypeOK, NEW p \in Callers, NEW row \in CallRows, Start(p, row), drawn' \in [Sources -> Revs]
    PROVE  TypeOK'
<1>1. begun' \in 0 .. MaxBegun
  BY BoundsAssumption DEF TypeOK, Start
<1>2. call' \in [Callers -> CallRows]
  BY DEF TypeOK, Start
<1> QED  BY <1>1, <1>2 DEF TypeOK, Start, authority, publication

LEMMA BeginTyped ==
    ASSUME TypeOK, NEW p \in Callers, Begin(p)
    PROVE  TypeOK'
<1>1. CASE BeginBuild(p)
  <2>1. PICK k \in BuildKeys, chosen \in (SUBSET Sources) \ {{}} :
          LET selection == [s \in Sources |-> IF s \in chosen THEN ready[s] ELSE None]
          IN /\ Start(p, [NoCall EXCEPT !.phase = "locking", !.operation = "build", !.key = k,
                            !.selection = selection,
                            !.needs = {BuildKey(k), Timeline} \cup ProjectsOf(selection)])
             /\ UNCHANGED drawn
    BY <1>1 DEF BeginBuild
  <2> DEFINE selection == [s \in Sources |-> IF s \in chosen THEN ready[s] ELSE None]
  <2>2. selection \in Selections
    BY DEF Selections, TypeOK
  <2> HIDE DEF selection
  <2>3. {BuildKey(k), Timeline} \cup ProjectsOf(selection) \in SUBSET Locks
    BY <2>2, NeedsType
  <2> USE DEF selection
  <2> QED  BY <2>1, <2>2, <2>3, BuildRow, StartTyped DEF TypeOK
<1>2. CASE BeginSwitch(p)
  <2>1. PICK v \in Versions, operation \in Switches :
          /\ Start(p, [NoCall EXCEPT !.phase = "locking", !.operation = operation, !.version = v,
                         !.needs = {Current, Timeline} \cup ProjectsOf(versions[v].selection)])
          /\ UNCHANGED drawn
    BY <1>2 DEF BeginSwitch
  <2>2. versions[v].selection \in Selections
    BY DEF TypeOK, VersionRows
  <2>3. {Current, Timeline} \cup ProjectsOf(versions[v].selection) \in SUBSET Locks
    BY <2>2, NeedsType
  <2> QED  BY <2>1, <2>3, SwitchRow, StartTyped DEF TypeOK
<1>3. CASE BeginTakedown(p)
  <2>1. PICK x \in Scopes, at \in 1 .. MaxTimes, action \in {"restore", "remove"} :
          /\ Start(p, [NoCall EXCEPT !.phase = "locking", !.operation = "takedown", !.scope = x,
                         !.request = [at |-> at, action |-> action], !.needs = {Timeline}])
          /\ UNCHANGED drawn
    BY <1>3 DEF BeginTakedown
  <2>2. [at |-> at, action |-> action] \in Requests
    BY BoundsAssumption DEF Requests
  <2> QED  BY <2>1, <2>2, NeedsType, TakedownRow, StartTyped DEF TypeOK
<1>4. CASE BeginReview(p)
  <2>0. PICK c \in Cases : \E primary \in Shows[c] \cup {None} :
          LET s == SourceOf[c]  seen == reviews[<<c, ready[s]>>].batch
          IN /\ seen < MaxReviews
             /\ Start(p, [NoCall EXCEPT !.phase = "locking", !.operation = "review", !.case = c,
                            !.selection = [Nothing EXCEPT ![s] = ready[s]],
                            !.review = [batch |-> seen + 1, primary |-> primary],
                            !.needs = {Project(s)}])
             /\ UNCHANGED drawn
    BY <1>4 DEF BeginReview
  <2>1. PICK primary \in Shows[c] \cup {None} :
          LET s == SourceOf[c]  seen == reviews[<<c, ready[s]>>].batch
          IN /\ seen < MaxReviews
             /\ Start(p, [NoCall EXCEPT !.phase = "locking", !.operation = "review", !.case = c,
                            !.selection = [Nothing EXCEPT ![s] = ready[s]],
                            !.review = [batch |-> seen + 1, primary |-> primary],
                            !.needs = {Project(s)}])
             /\ UNCHANGED drawn
    BY <2>0
  <2> DEFINE s == SourceOf[c]
             seen == reviews[<<c, ready[s]>>].batch
             selection == [Nothing EXCEPT ![s] = ready[s]]
             review == [batch |-> seen + 1, primary |-> primary]
  <2>2. s \in Sources /\ ready[s] \in Revs
    BY FactsAssumption DEF TypeOK
  <2>3. selection \in Selections
    BY <2>2 DEF Selections, Nothing
  <2>4. seen \in Nat /\ seen < MaxReviews
    BY <2>1, <2>2, BoundsAssumption DEF TypeOK, Reviews
  <2>5. review \in Reviews
    BY <2>4, FactsAssumption, BoundsAssumption DEF Reviews
  <2> QED  BY <2>1, <2>2, <2>3, <2>5, NeedsType, ReviewRow, StartTyped DEF TypeOK
<1>5. CASE BeginImport(p)
  <2>1. PICK s \in Sources :
          /\ drawn[s] < MaxRuns[s]
          /\ drawn' = [drawn EXCEPT ![s] = @ + 1]
          /\ Start(p, [NoCall EXCEPT !.phase = "locking", !.operation = "import",
                         !.selection = [Nothing EXCEPT ![s] = drawn[s] + 1],
                         !.needs = {Project(s)}])
    BY <1>5 DEF BeginImport
  <2>2. drawn[s] + 1 \in Revs
    <3>1. drawn[s] \in Nat /\ MaxRuns[s] \in Nat
      BY RevsType, BoundsAssumption DEF TypeOK
    <3>2. 0 < drawn[s] + 1 /\ drawn[s] + 1 <= MaxRuns[s] /\ drawn[s] + 1 \in Nat
      BY <2>1, <3>1
    <3> QED  BY <3>2, RevsType
  <2>3. drawn' \in [Sources -> Revs] /\ [Nothing EXCEPT ![s] = drawn[s] + 1] \in Selections
    BY <2>1, <2>2 DEF TypeOK, Selections, Nothing
  <2> QED  BY <2>1, <2>3, NeedsType, ImportRow, StartTyped
<1> QED  BY <1>1, <1>2, <1>3, <1>4, <1>5 DEF Begin

(* Ending a transaction, and moving it to another phase. *)
LEMMA EndTyped ==
    ASSUME TypeOK, NEW p \in Callers, End(p)
    PROVE  /\ call' \in [Callers -> CallRows]
           /\ holder' \in [Locks -> Callers \cup {None}]
BY NoCallType DEF TypeOK, End

LEMMA AheadType ==
    ASSUME NEW p, NEW needs
    PROVE  Ahead(p, needs) \in Phases
BY DEF Ahead, Phases

LEMMA AcquireTyped ==
    ASSUME TypeOK, NEW p \in Callers, Acquire(p)
    PROVE  TypeOK'
<1>1. PICK l \in Locks :
        /\ holder' = [holder EXCEPT ![l] = p]
        /\ LET needs == call[p].needs \ {l}
           IN call' = [call EXCEPT ![p] =
                [@ EXCEPT !.needs = needs,
                          !.phase = IF l[1] = "build" THEN "replay" ELSE Ahead(p, needs)]]
  BY DEF Acquire
<1> DEFINE needs == call[p].needs \ {l}
           phase == IF l[1] = "build" THEN "replay" ELSE Ahead(p, needs)
<1>2. call[p] \in CallRows /\ needs \in SUBSET Locks
  BY DEF TypeOK, CallRows
<1>3. phase \in Phases
  BY AheadType DEF Phases
<1>4. [call[p] EXCEPT !.needs = needs, !.phase = phase] \in CallRows
  BY <1>2, <1>3, StepTypes
<1>5. call' \in [Callers -> CallRows]
  BY <1>1, <1>4 DEF TypeOK
<1>6. holder' \in [Locks -> Callers \cup {None}]
  BY <1>1 DEF TypeOK
<1> QED  BY <1>5, <1>6 DEF TypeOK, Acquire, authority, inputs, publication

LEMMA CheckTyped ==
    ASSUME TypeOK, NEW p \in Callers, Check(p)
    PROVE  TypeOK'
<1>1. ASSUME NEW phase \in Phases, Goto(p, phase), UNCHANGED <<authority, inputs, publication, holder>>
      PROVE  TypeOK'
  <2>1. call' = [call EXCEPT ![p] = [call[p] EXCEPT !.phase = phase]] /\ call[p] \in CallRows
    BY <1>1 DEF TypeOK, Goto
  <2>2. call' \in [Callers -> CallRows]
    BY <2>1, StepTypes DEF TypeOK
  <2> QED  BY <1>1, <2>2 DEF TypeOK, authority, inputs, publication
<1>2. ASSUME End(p), UNCHANGED <<authority, inputs, publication>>
      PROVE  TypeOK'
  BY <1>2, EndTyped DEF TypeOK, authority, inputs, publication
<1>3. CASE ReadFacts(p)
  <2>1. CASE call[p].selection \in Selections
    <3>1. [call[p] EXCEPT !.phase = "commit", !.entries = EntriesFor(call[p].selection)] \in CallRows
      BY <2>1, EntriesType, StepTypes DEF TypeOK
    <3> QED  BY <1>3, <3>1 DEF ReadFacts, TypeOK, authority, inputs, publication
  <2> QED  BY <2>1 DEF TypeOK, CallRows
<1>4. CASE FirstRequest(p)
  BY <1>1, <1>4, AheadType DEF FirstRequest
<1>5. CASE CheckLatest(p) \/ CheckTarget(p) \/ CheckReview(p)
  BY <1>1, <1>5 DEF CheckLatest, CheckTarget, CheckReview, Phases
<1>6. CASE Replay(p) \/ StaleRevision(p) \/ Refuse(p) \/ StaleReview(p)
  BY <1>2, <1>6 DEF Replay, StaleRevision, Refuse, StaleReview
<1> QED  BY <1>3, <1>4, <1>5, <1>6 DEF Check

LEMMA CommitTyped ==
    ASSUME TypeOK, NEW p \in Callers, Commit(p),
           Is(p, Switches) => call[p].version \in Versions
    PROVE  TypeOK'
<1>1. call[p] \in CallRows
  BY DEF TypeOK
<1>2. CASE Build(p)
  <2>1. ASSUME NEW v \in Versions
        PROVE  [versions EXCEPT ![v] =
                 [state |-> "ready", key |-> call[p].key, selection |-> call[p].selection,
                  entries |-> call[p].entries]] \in [Versions -> VersionRows]
    BY <1>1 DEF TypeOK, CallRows, VersionRows
  <2>2. versions' \in [Versions -> VersionRows]
    BY <1>2, <2>1 DEF Build
  <2> QED  BY <1>2, <2>2, EndTyped DEF Build, TypeOK, authority, inputs
<1>3. CASE Switch(p)
  <2>1. call[p].version \in Versions
    BY <1>3 DEF Switch
  <2>2. \A u \in Versions, state \in {"active", "superseded"} :
          [versions[u] EXCEPT !.state = state] \in VersionRows
    BY DEF TypeOK, VersionRows
  <2>3. versions' \in [Versions -> VersionRows]
    BY <1>3, <2>2 DEF Switch, MovePointer, TypeOK
  <2> QED  BY <1>3, <2>1, <2>3, EndTyped DEF Switch, MovePointer, TypeOK, authority, inputs
<1>4. CASE Takedown(p)
  <2>1. timeline' \in [Scopes -> Requests]
    BY <1>1, <1>4 DEF Takedown, TypeOK, CallRows
  <2> QED  BY <1>4, <2>1, EndTyped DEF Takedown, TypeOK, inputs, publication
<1>5. CASE Review(p)
  <2>1. reviews' \in [Cases \X Revs -> Reviews]
    BY <1>1, <1>5 DEF Review, TypeOK, CallRows
  <2> QED  BY <1>5, <2>1, EndTyped DEF Review, TypeOK, inputs, publication
<1>6. CASE Import(p)
  <2>1. ready' \in [Sources -> Revs]
    BY <1>1, <1>6 DEF Import, TypeOK, CallRows, Selections
  <2> QED  BY <1>6, <2>1, EndTyped DEF Import, TypeOK, inputs, publication
<1> QED  BY <1>2, <1>3, <1>4, <1>5, <1>6 DEF Commit

LEMMA InitTyped == Init => TypeOK
<1> SUFFICES ASSUME Init PROVE TypeOK
  OBVIOUS
<1>1. drawn \in [Sources -> Revs] /\ ready \in [Sources -> Revs]
  BY RevsType DEF Init
<1>2. reviews \in [Cases \X Revs -> Reviews]
  <2>1. PICK decided \in [Cases -> UNION {FirstReview(c) : c \in Cases}] :
          /\ \A c \in Cases : decided[c] \in FirstReview(c)
          /\ reviews = [k \in Cases \X Revs |->
               IF k[2] = 1 /\ 1 \in Holds[k[1]] THEN decided[k[1]] ELSE NoReview]
    BY DEF Init
  <2>2. NoReview \in Reviews
    BY BoundsAssumption DEF NoReview, Reviews
  <2>3. ASSUME NEW c \in Cases
        PROVE  decided[c] \in Reviews
    <3>1. decided[c] \in [batch: {1}, primary: Shows[c] \cup {None}]
      BY <2>1 DEF FirstReview
    <3>2. Shows[c] \subseteq Assets /\ 1 \in 0 .. MaxReviews
      BY FactsAssumption, BoundsAssumption
    <3> QED  BY <3>1, <3>2 DEF Reviews
  <2> QED  BY <2>1, <2>2, <2>3
<1>3. NoRequest \in Requests /\ 0 \in 0 .. MaxBegun
  BY BoundsAssumption DEF NoRequest, Requests
<1>4. NoVersion \in VersionRows
  BY DEF NoVersion, VersionRows, Nothing, Selections
<1> QED  BY <1>1, <1>2, <1>3, <1>4, NoCallType DEF Init, TypeOK

-----------------------------------------------------------------------------
(* What a session keeps.                                                   *)

CallInv(p) == Holding(p) /\ WellFormed(p) /\ Checked(p)

LEMMA Ended ==
    ASSUME TypeOK, NEW p \in Callers, End(p)
    PROVE  CallInv(p)'
<1>1. call'[p] = NoCall /\ \A l \in Locks : holder'[l] # p
  BY NoneAssumption DEF TypeOK, End
<1>2. Guards(p)' = {} /\ call'[p].needs = {}
  <2>1. call'[p].operation = "none" /\ SelectionOf(p)' = Nothing
    BY <1>1 DEF NoCall, SelectionOf, Is, Switches
  <2> QED  BY <1>1, <2>1 DEF Guards, Is, NoCall, Switches, Nothing
<1>3. Holding(p)'
  <2>1. call'[p].phase = "idle"
    BY <1>1 DEF NoCall
  <2> QED  BY <1>1, <1>2, <2>1 DEF Holding, In
<1>4. WellFormed(p)' /\ Checked(p)'
  BY <1>1 DEF NoCall, WellFormed, Checked, SawRevisions, In, Is, Switches
<1> QED  BY <1>3, <1>4 DEF CallInv

(* A session that does not move keeps its locks and its row. *)
LEMMA HoldingKept ==
    ASSUME NEW q \in Callers, Holding(q), WellFormed(q), call'[q] = call[q],
           \A l \in Locks : (holder'[l] = q) <=> (holder[l] = q),
           SelectionOf(q)' = SelectionOf(q)
    PROVE  Holding(q)'
<1>1. Guards(q)' = Guards(q)
  BY DEF Guards, Is
<1>2. Guards(q) \subseteq Locks
  BY NeedsType DEF Guards, WellFormed, Is
<1> QED  BY <1>1, <1>2 DEF Holding, In, Is

(* The entries of a selection depend on its reviews and on the timeline. *)
LEMMA EntriesSame ==
    ASSUME NEW selection, timeline' = timeline,
           \A c \in Cases : selection[SourceOf[c]] \in Holds[c] =>
             reviews'[<<c, selection[SourceOf[c]]>>] = reviews[<<c, selection[SourceOf[c]]>>]
    PROVE  EntriesFor(selection)' = EntriesFor(selection)
<1>1. \A c \in Cases : Included(selection, c)' <=> Included(selection, c)
  BY DEF Included, Reviewed, TakenDown, Removed, RemovedAssets
<1>2. \A c \in Cases : Included(selection, c) =>
        EntryFor(selection, c)' = EntryFor(selection, c)
  BY DEF Included, EntryFor, Reviewed, Removed, RemovedAssets
<1> QED  BY <1>1, <1>2 DEF EntriesFor

(* What permits a switch depends on its target, on the current version, on  *)
(* the reviews of the target's cases and on the timeline.                   *)
LEMMA PermittedSame ==
    ASSUME NEW q, NEW v, call'[q] = call[q], call[q].version = v,
           current' = current, timeline' = timeline, versions'[v] = versions[v],
           current # None => versions'[current] = versions[current],
           \A e \in versions[v].entries :
             reviews'[<<e.case, versions[v].selection[SourceOf[e.case]]>>] =
               reviews[<<e.case, versions[v].selection[SourceOf[e.case]]>>]
    PROVE  Permitted(q)' <=> Permitted(q)
<1>1. LatestReviewed(v)' <=> LatestReviewed(v)
  BY DEF LatestReviewed, Reviewed
<1>2. Clean(v)' <=> Clean(v)
  BY DEF Clean, Unsafe, TakenDown, Removed, RemovedAssets
<1>3. LossAuthorized(v)' <=> LossAuthorized(v)
  BY DEF LossAuthorized, CasesIn, TakenDown, Removed, RemovedAssets
<1> QED  BY <1>1, <1>2, <1>3 DEF Permitted, Is

(* Checks of a session that does not move stay true while the rows it read  *)
(* and the versions do.                                                     *)
LEMMA CheckedKept ==
    ASSUME NEW q, call'[q] = call[q], Checked(q), UNCHANGED <<authority, publication>>
    PROVE  Checked(q)'
<1>1. /\ SelectionOf(q)' = SelectionOf(q)
      /\ SawRevisions(q)' <=> SawRevisions(q)
      /\ \A phase : In(q, phase)' <=> In(q, phase)
      /\ \A operations : Is(q, operations)' <=> Is(q, operations)
  BY DEF publication, SelectionOf, Is, SawRevisions, In
<1>2. /\ \A k : BuiltFor(k)' = BuiltFor(k)
      /\ \A selection : LatestReady(selection)' <=> LatestReady(selection)
      /\ \A selection : EntriesFor(selection)' = EntriesFor(selection)
  <2>1. \A selection : EntriesFor(selection)' = EntriesFor(selection)
    BY EntriesSame DEF authority
  <2> QED  BY <2>1 DEF authority, publication, BuiltFor, LatestReady
<1>3. Permitted(q)' <=> Permitted(q)
  BY PermittedSame DEF authority, publication
<1>4. StillCurrent(q)' <=> StillCurrent(q)
  BY <1>2 DEF StillCurrent, Reviewed, authority
<1> QED  BY <1>1, <1>2, <1>3, <1>4 DEF Checked

LEMMA OthersKept ==
    ASSUME NEW q \in Callers, CallInv(q), call'[q] = call[q],
           \A l \in Locks : (holder'[l] = q) <=> (holder[l] = q),
           UNCHANGED <<authority, publication>>
    PROVE  CallInv(q)'
<1>1. SelectionOf(q)' = SelectionOf(q)
  BY DEF SelectionOf, Is, publication
<1>2. Holding(q)'
  BY <1>1, HoldingKept DEF CallInv
<1>3. WellFormed(q)'
  BY DEF CallInv, WellFormed, Is, publication
<1> QED  BY <1>2, <1>3, CheckedKept DEF CallInv

-----------------------------------------------------------------------------
(* Beginning a transaction.                                                *)

(* The guards of each kind of transaction, before and after a step. *)
GuardsAre(p) ==
  /\ Is(p, {"build"}) =>
       Guards(p) = {BuildKey(call[p].key), Timeline} \cup ProjectsOf(call[p].selection)
  /\ Is(p, Switches) =>
       Guards(p) = {Current, Timeline} \cup ProjectsOf(versions[call[p].version].selection)
  /\ Is(p, {"takedown"}) => Guards(p) = {Timeline} \cup ProjectsOf(call[p].selection)
  /\ Is(p, {"review", "import"}) => Guards(p) = ProjectsOf(call[p].selection)

LEMMA GuardsOf ==
    ASSUME NEW p
    PROVE  GuardsAre(p) /\ GuardsAre(p)'
<1>1. GuardsAre(p)
  BY DEF GuardsAre, Guards, Is, Switches, SelectionOf, ProjectsOf
<1>2. GuardsAre(p)'
  BY DEF GuardsAre, Guards, Is, Switches, SelectionOf, ProjectsOf
<1> QED  BY <1>1, <1>2

(* A transaction that asks for all its guards and has taken none is sound. *)
LEMMA StartSound ==
    ASSUME NEW p, Holding(p), In(p, "idle"), holder' = holder,
           call'[p].phase = "locking", call'[p].needs = Guards(p)',
           WellFormed(p)',
           Is(p, {"build"})' => BuildKey(call'[p].key) \in call'[p].needs,
           Is(p, {"build"} \cup Switches)' => call'[p].needs # {Timeline}
    PROVE  CallInv(p)'
<1>1. Holding(p)'
  BY DEF Holding, In
<1>2. Checked(p)'
  BY DEF Checked, SawRevisions, In, Is
<1> QED  BY <1>1, <1>2 DEF CallInv

LEMMA BuildBegun ==
    ASSUME TypeOK, NEW p \in Callers, Holding(p), BeginBuild(p)
    PROVE  CallInv(p)'
<1>1. PICK k \in BuildKeys, chosen \in (SUBSET Sources) \ {{}} :
        LET selection == [s \in Sources |-> IF s \in chosen THEN ready[s] ELSE None]
        IN Start(p, [NoCall EXCEPT !.phase = "locking", !.operation = "build", !.key = k,
                       !.selection = selection,
                       !.needs = {BuildKey(k), Timeline} \cup ProjectsOf(selection)])
  BY DEF BeginBuild
<1> DEFINE selection == [s \in Sources |-> IF s \in chosen THEN ready[s] ELSE None]
           needs == {BuildKey(k), Timeline} \cup ProjectsOf(selection)
<1>2. /\ call'[p].phase = "locking" /\ call'[p].operation = "build" /\ call'[p].key = k
      /\ call'[p].selection = selection /\ call'[p].needs = needs
  BY <1>1 DEF Start, TypeOK, NoCall
<1>3. Guards(p)' = needs
  BY <1>2, GuardsOf DEF GuardsAre, Is, ProjectsOf
<1>4. BuildKey(k) \in needs /\ needs # {Timeline}
  BY LockNames
<1>5. WellFormed(p)'
  BY <1>2 DEF WellFormed, Is, Switches
<1> HIDE DEF needs
<1> QED  BY <1>1, <1>2, <1>3, <1>4, <1>5, StartSound DEF Start

LEMMA SwitchBegun ==
    ASSUME TypeOK, NEW p \in Callers, Holding(p), BeginSwitch(p)
    PROVE  CallInv(p)'
<1>1. PICK v \in Versions, operation \in Switches :
        /\ versions[v].state # "none"
        /\ Start(p, [NoCall EXCEPT !.phase = "locking", !.operation = operation, !.version = v,
                       !.needs = {Current, Timeline} \cup ProjectsOf(versions[v].selection)])
  BY DEF BeginSwitch
<1> DEFINE needs == {Current, Timeline} \cup ProjectsOf(versions[v].selection)
<1>2. /\ call'[p].phase = "locking" /\ call'[p].operation = operation /\ call'[p].version = v
      /\ call'[p].needs = needs /\ versions' = versions
  BY <1>1 DEF Start, TypeOK, NoCall, publication
<1>3. Guards(p)' = needs
  BY <1>2, GuardsOf DEF GuardsAre, Is, ProjectsOf
<1>4. needs # {Timeline} /\ operation # "build"
  BY LockNames DEF Switches
<1>5. WellFormed(p)'
  BY <1>1, <1>2 DEF WellFormed, Is, Switches
<1> HIDE DEF needs
<1> QED  BY <1>1, <1>2, <1>3, <1>4, <1>5, StartSound DEF Start, Is

LEMMA TakedownBegun ==
    ASSUME TypeOK, NEW p \in Callers, Holding(p), BeginTakedown(p)
    PROVE  CallInv(p)'
<1>1. PICK x \in Scopes, at \in 1 .. MaxTimes, action \in {"restore", "remove"} :
        Start(p, [NoCall EXCEPT !.phase = "locking", !.operation = "takedown", !.scope = x,
                    !.request = [at |-> at, action |-> action], !.needs = {Timeline}])
  BY DEF BeginTakedown
<1>2. /\ call'[p].phase = "locking" /\ call'[p].operation = "takedown"
      /\ call'[p].selection = Nothing /\ call'[p].needs = {Timeline}
  BY <1>1 DEF Start, TypeOK, NoCall
<1>3. Guards(p)' = {Timeline}
  BY <1>2, GuardsOf DEF GuardsAre, Is, ProjectsOf, Nothing
<1>4. WellFormed(p)'
  BY <1>2 DEF WellFormed, Is, Switches
<1> QED  BY <1>1, <1>2, <1>3, <1>4, StartSound DEF Start, Is, Switches

(* Reviews and imports are guarded by the project of their source alone. *)
LEMMA OneProject ==
    ASSUME NEW p, Is(p, {"review", "import"})', NEW s \in Sources, NEW r, r # None,
           call'[p].selection = [Nothing EXCEPT ![s] = r]
    PROVE  Guards(p)' = {Project(s)}
<1>1. \A t \in Sources : call'[p].selection[t] # None <=> t = s
  BY DEF Nothing
<1>2. Guards(p)' = ProjectsOf(call'[p].selection)
  BY GuardsOf DEF GuardsAre, ProjectsOf
<1> QED  BY <1>1, <1>2 DEF ProjectsOf

LEMMA ReviewBegun ==
    ASSUME TypeOK, NEW p \in Callers, Holding(p), BeginReview(p)
    PROVE  CallInv(p)'
<1>1. PICK c \in Cases : \E primary \in Shows[c] \cup {None} :
        Start(p, [NoCall EXCEPT !.phase = "locking", !.operation = "review", !.case = c,
                    !.selection = [Nothing EXCEPT ![SourceOf[c]] = ready[SourceOf[c]]],
                    !.review = [batch |-> reviews[<<c, ready[SourceOf[c]]>>].batch + 1,
                                primary |-> primary],
                    !.needs = {Project(SourceOf[c])}])
  BY DEF BeginReview
<1> DEFINE s == SourceOf[c]
<1>2. s \in Sources /\ ready[s] # None
  BY FactsAssumption, RevsType DEF TypeOK
<1>3. /\ call'[p].phase = "locking" /\ call'[p].operation = "review" /\ call'[p].case = c
      /\ call'[p].selection = [Nothing EXCEPT ![s] = ready[s]]
      /\ call'[p].needs = {Project(s)}
  BY <1>1 DEF Start, TypeOK, NoCall
<1>4. Guards(p)' = {Project(s)}
  <2>1. PICK r : r = ready[s]
    OBVIOUS
  <2> QED  BY <1>2, <1>3, <2>1, OneProject DEF Is
<1>5. WellFormed(p)'
  BY <1>2, <1>3 DEF WellFormed, Is, Switches, Nothing
<1> QED  BY <1>1, <1>3, <1>4, <1>5, StartSound DEF Start, Is, Switches

LEMMA ImportBegun ==
    ASSUME TypeOK, NEW p \in Callers, Holding(p), BeginImport(p)
    PROVE  CallInv(p)'
<1>1. PICK s \in Sources :
        Start(p, [NoCall EXCEPT !.phase = "locking", !.operation = "import",
                    !.selection = [Nothing EXCEPT ![s] = drawn[s] + 1],
                    !.needs = {Project(s)}])
  BY DEF BeginImport
<1>2. drawn[s] + 1 # None
  <2>1. drawn[s] \in Nat
    BY RevsType DEF TypeOK
  <2>2. drawn[s] + 1 \in Nat
    BY <2>1
  <2> QED  BY <2>2, NoneAssumption
<1>3. /\ call'[p].phase = "locking" /\ call'[p].operation = "import"
      /\ call'[p].selection = [Nothing EXCEPT ![s] = drawn[s] + 1]
      /\ call'[p].needs = {Project(s)}
  BY <1>1 DEF Start, TypeOK, NoCall
<1>4. Guards(p)' = {Project(s)}
  <2>1. PICK r : r # None /\ call'[p].selection = [Nothing EXCEPT ![s] = r]
    BY <1>2, <1>3
  <2>2. Is(p, {"review", "import"})'
    BY <1>3 DEF Is
  <2> QED  BY <2>1, <2>2, OneProject
<1>5. WellFormed(p)'
  BY <1>3 DEF WellFormed, Is, Switches
<1> QED  BY <1>1, <1>3, <1>4, <1>5, StartSound DEF Start, Is, Switches

-----------------------------------------------------------------------------
(* Taking a lock.                                                          *)

(* Only builds are guarded by a key, and by their own. *)
LEMMA KeyGuards ==
    ASSUME NEW p, NEW l \in Guards(p), l[1] = "build"
    PROVE  Is(p, {"build"}) /\ l = BuildKey(call[p].key)
BY DEF Guards, Current, Timeline, Project, Is

(* Builds, switches and takedowns ask for the timeline last. *)
LEMMA TimelineWaits ==
    ASSUME NEW p, Holding(p), Is(p, {"build", "takedown"} \cup Switches),
           NEW l \in call[p].needs, l \in Locks
    PROVE  Timeline \in call[p].needs
<1>1. Timeline \in Guards(p)
  BY DEF Guards
<1>2. Timeline \in Locks
  BY NeedsType
<1> QED  BY <1>1, <1>2, TimelineIsLast DEF Holding

LEMMA AcquireKeeps ==
    ASSUME TypeOK, NEW p \in Callers, CallInv(p), Acquire(p)
    PROVE  CallInv(p)'
<1>1. PICK l \in Locks :
        /\ NextLock(p, l)
        /\ holder' = [holder EXCEPT ![l] = p]
        /\ LET needs == call[p].needs \ {l}
           IN call' = [call EXCEPT ![p] =
                [@ EXCEPT !.needs = needs,
                          !.phase = IF l[1] = "build" THEN "replay" ELSE Ahead(p, needs)]]
  BY DEF Acquire
<1> DEFINE needs == call[p].needs \ {l}
           phase == IF l[1] = "build" THEN "replay" ELSE Ahead(p, needs)
<1>2. /\ call'[p] = [call[p] EXCEPT !.needs = needs, !.phase = phase]
      /\ call[p] \in CallRows /\ In(p, "locking")
  BY <1>1 DEF TypeOK, Acquire
<1>3. /\ call'[p].needs = needs /\ call'[p].phase = phase
      /\ call'[p].operation = call[p].operation /\ call'[p].key = call[p].key
      /\ call'[p].selection = call[p].selection /\ call'[p].version = call[p].version
      /\ call'[p].case = call[p].case /\ call'[p].entries = call[p].entries
  BY <1>2 DEF CallRows
<1>4. UNCHANGED <<authority, publication>>
  BY DEF Acquire
<1>5. SelectionOf(p)' = SelectionOf(p) /\ (\A operations : Is(p, operations)' <=> Is(p, operations))
  BY <1>3, <1>4 DEF SelectionOf, Is, publication
<1>6. Guards(p)' = Guards(p)
  BY <1>3, <1>5 DEF Guards
<1>7. /\ l \in call[p].needs /\ \A m \in needs : Before(l, m)
      /\ l \in Guards(p) /\ call[p].needs \subseteq Guards(p)
  BY <1>1 DEF NextLock, CallInv, Holding
<1>8. /\ phase = "replay" => Is(p, {"build"}) /\ l = BuildKey(call[p].key)
      /\ l = BuildKey(call[p].key) => phase = "replay"
      /\ phase # "idle"
      /\ phase \in {"facts", "commit"} => needs = {}
      /\ phase = "latest" => needs = {Timeline}
      /\ phase = "locking" => needs # {Timeline}
      /\ phase = "commit" => Is(p, {"takedown", "import"})
  BY <1>7, KeyGuards DEF Ahead, BuildKey
<1> HIDE DEF phase
<1>9. phase = "replay" => Timeline \in needs
  BY <1>7, <1>8, TimelineWaits, LockNames DEF CallInv, WellFormed, Is
<1>10. Holding(p)'
  <2>1. \A m \in Guards(p) : m \in needs \/ holder'[m] = p
    <3>1. \A m \in Guards(p) : m \in call[p].needs \/ holder[m] = p
      BY DEF CallInv, Holding
    <3>2. holder' = [holder EXCEPT ![l] = p] /\ l \in DOMAIN holder
      BY <1>1 DEF TypeOK
    <3> QED  BY <3>1, <3>2
  <2>2. \A k \in Locks : holder'[k] = p => \A m \in needs : Before(k, m)
    BY <1>1, <1>7 DEF TypeOK, CallInv, Holding
  <2> QED  BY <1>3, <1>5, <1>6, <1>7, <1>8, <1>9, <2>1, <2>2 DEF Holding, In
<1>11. WellFormed(p)'
  BY <1>3, <1>4, <1>5 DEF CallInv, WellFormed, publication
<1>12. Checked(p)'
  <2>1. ASSUME Is(p, {"build"}), BuildKey(call[p].key) \notin needs, phase # "replay"
        PROVE  BuiltFor(call[p].key) = {}
    <3>1. BuildKey(call[p].key) \notin call[p].needs /\ ~In(p, "replay")
      BY <1>2, <1>8, <2>1 DEF In
    <3> QED  BY <2>1, <3>1 DEF CallInv, Checked
  <2>2. ASSUME phase \in {"facts", "commit"}, Is(p, {"build"} \cup Switches)
        PROVE  LatestReady(SelectionOf(p))
    <3>1. Timeline \in call[p].needs
      BY <1>7, <2>2, TimelineWaits DEF CallInv, Is
    <3>2. call[p].needs = {Timeline}
      BY <1>7, <1>8, <2>2, <3>1
    <3>3. SawRevisions(p)
      BY <1>2, <3>2 DEF SawRevisions, In
    <3> QED  BY <2>2, <3>3 DEF CallInv, Checked
  <2>3. SawRevisions(p)' => phase \in {"facts", "commit"}
    BY <1>3, <1>8 DEF SawRevisions, In
  <2>4. /\ BuiltFor(call[p].key)' = BuiltFor(call[p].key)
        /\ LatestReady(SelectionOf(p))' <=> LatestReady(SelectionOf(p))
    BY <1>3, <1>4, <1>5 DEF BuiltFor, LatestReady, authority, publication
  <2>5. In(p, "commit")' => ~Is(p, {"build"})' /\ ~Is(p, Switches)' /\ ~Is(p, {"review"})'
    BY <1>3, <1>5, <1>8 DEF In, Is, Switches
  <2> QED  BY <1>3, <1>5, <2>1, <2>2, <2>3, <2>4, <2>5 DEF Checked, In
<1> QED  BY <1>10, <1>11, <1>12 DEF CallInv

-----------------------------------------------------------------------------
(* Checks.                                                                 *)

(* A session that only changes its phase keeps its locks, if the phase goes *)
(* with what it still needs.                                                *)
LEMMA PhaseMoves ==
    ASSUME NEW p, CallInv(p), NEW phase,
           call'[p].phase = phase, call'[p].operation = call[p].operation,
           call'[p].needs = call[p].needs, call'[p].key = call[p].key,
           call'[p].selection = call[p].selection, call'[p].version = call[p].version,
           call'[p].case = call[p].case,
           UNCHANGED <<authority, publication, holder>>,
           ~In(p, "idle"), phase \notin {"idle", "replay"},
           phase \in {"facts", "commit"} => call[p].needs = {},
           phase = "latest" => call[p].needs = {Timeline}
    PROVE  Holding(p)' /\ WellFormed(p)'
<1>1. SelectionOf(p)' = SelectionOf(p) /\ (\A operations : Is(p, operations)' <=> Is(p, operations))
  BY DEF SelectionOf, Is, publication
<1>2. Guards(p)' = Guards(p)
  BY <1>1 DEF Guards
<1>3. Holding(p)'
  BY <1>2 DEF CallInv, Holding, In
<1>4. WellFormed(p)'
  BY <1>1 DEF CallInv, WellFormed, publication
<1> QED  BY <1>3, <1>4

LEMMA GotoFields ==
    ASSUME TypeOK, NEW p \in Callers, NEW phase, Goto(p, phase)
    PROVE  /\ call'[p].phase = phase /\ call'[p].operation = call[p].operation
           /\ call'[p].needs = call[p].needs /\ call'[p].key = call[p].key
           /\ call'[p].selection = call[p].selection /\ call'[p].version = call[p].version
           /\ call'[p].case = call[p].case /\ call'[p].entries = call[p].entries
           /\ call'[p].review = call[p].review
<1>1. call[p] \in CallRows /\ call'[p] = [call[p] EXCEPT !.phase = phase]
  BY DEF TypeOK, Goto
<1> QED  BY <1>1 DEF CallRows

LEMMA FirstRequestKeeps ==
    ASSUME TypeOK, NEW p \in Callers, CallInv(p), FirstRequest(p)
    PROVE  CallInv(p)'
<1> DEFINE phase == Ahead(p, call[p].needs)
<1>1. /\ In(p, "replay") /\ Is(p, {"build"}) /\ Timeline \in call[p].needs
      /\ BuiltFor(call[p].key) = {}
      /\ UNCHANGED <<authority, publication, holder>>
  BY DEF FirstRequest, CallInv, Holding
<1>2. /\ phase = "latest" => call[p].needs = {Timeline}
      /\ phase = "locking" => call[p].needs # {Timeline}
      /\ phase \in {"latest", "locking"}
  BY <1>1 DEF Ahead
<1>3. PICK ph : ph = phase
  OBVIOUS
<1>4. /\ call'[p].phase = ph /\ call'[p].operation = call[p].operation
      /\ call'[p].needs = call[p].needs /\ call'[p].key = call[p].key
      /\ call'[p].selection = call[p].selection /\ call'[p].version = call[p].version
      /\ call'[p].case = call[p].case
  BY <1>3, GotoFields DEF FirstRequest
<1>5. Holding(p)' /\ WellFormed(p)'
  BY <1>1, <1>2, <1>3, <1>4, PhaseMoves DEF In
<1>6. Checked(p)'
  BY <1>1, <1>2, <1>3, <1>4 DEF Checked, SawRevisions, In, Is, BuiltFor, publication
<1> QED  BY <1>5, <1>6 DEF CallInv

LEMMA CheckLatestKeeps ==
    ASSUME TypeOK, NEW p \in Callers, CallInv(p), CheckLatest(p)
    PROVE  CallInv(p)'
<1>1. /\ In(p, "latest") /\ LatestReady(SelectionOf(p)) /\ call[p].needs = {Timeline}
      /\ UNCHANGED <<authority, publication, holder>>
  BY DEF CheckLatest, CallInv, Holding
<1>2. /\ call'[p].phase = "locking" /\ call'[p].operation = call[p].operation
      /\ call'[p].needs = call[p].needs /\ call'[p].key = call[p].key
      /\ call'[p].selection = call[p].selection /\ call'[p].version = call[p].version
      /\ call'[p].case = call[p].case
  BY GotoFields DEF CheckLatest
<1>3. Holding(p)' /\ WellFormed(p)'
  BY <1>1, <1>2, PhaseMoves DEF In
<1>4. LatestReady(SelectionOf(p))'
  BY <1>1, <1>2 DEF LatestReady, SelectionOf, Is, authority, publication
<1>5. BuildKey(call[p].key) \notin call[p].needs /\ Is(p, {"build"}) => BuiltFor(call[p].key) = {}
  BY <1>1 DEF CallInv, Checked, In
<1>6. Checked(p)'
  BY <1>1, <1>2, <1>4, <1>5 DEF Checked, In, Is, BuiltFor, publication
<1> QED  BY <1>3, <1>6 DEF CallInv

(* From the facts to the commit. *)
LEMMA FactsKeeps ==
    ASSUME TypeOK, NEW p \in Callers, CallInv(p), In(p, "facts"),
           call'[p].phase = "commit", call'[p].operation = call[p].operation,
           call'[p].needs = call[p].needs, call'[p].key = call[p].key,
           call'[p].selection = call[p].selection, call'[p].version = call[p].version,
           call'[p].case = call[p].case, call'[p].review = call[p].review,
           UNCHANGED <<authority, publication, holder>>,
           Is(p, {"build"}) => call'[p].entries = EntriesFor(call[p].selection),
           Is(p, Switches) => Permitted(p),
           Is(p, {"review"}) => StillCurrent(p)
    PROVE  CallInv(p)'
<1>1. call[p].needs = {}
  BY DEF CallInv, Holding, In
<1>2. Holding(p)' /\ WellFormed(p)'
  BY <1>1, PhaseMoves DEF In
<1>3. /\ \A selection : EntriesFor(selection)' = EntriesFor(selection)
      /\ \A selection : LatestReady(selection)' <=> LatestReady(selection)
      /\ \A k : BuiltFor(k)' = BuiltFor(k)
  <2>1. \A selection : EntriesFor(selection)' = EntriesFor(selection)
    BY EntriesSame DEF authority
  <2> QED  BY <2>1 DEF LatestReady, BuiltFor, authority, publication
<1>4. /\ SelectionOf(p)' = SelectionOf(p)
      /\ \A operations : Is(p, operations)' <=> Is(p, operations)
  BY DEF SelectionOf, Is, publication
<1>5. Is(p, {"build"} \cup Switches) => LatestReady(SelectionOf(p))
  BY DEF CallInv, Checked, SawRevisions, In
<1>6. Is(p, {"build"}) => BuiltFor(call[p].key) = {}
  BY <1>1 DEF CallInv, Checked, In
<1>7. Is(p, Switches) => Permitted(p)'
  BY DEF Permitted, LatestReviewed, Reviewed, Clean, Unsafe, TakenDown, Removed, RemovedAssets,
     LossAuthorized, CasesIn, Is, authority, publication
<1>8. Is(p, {"review"}) => StillCurrent(p)'
  BY <1>3 DEF StillCurrent, Reviewed, authority
<1>9. Checked(p)'
  BY <1>3, <1>4, <1>5, <1>6, <1>7, <1>8 DEF Checked
<1> QED  BY <1>2, <1>9 DEF CallInv

LEMMA CheckKeeps ==
    ASSUME TypeOK, NEW p \in Callers, CallInv(p), Check(p)
    PROVE  CallInv(p)'
<1>1. CASE ReadFacts(p)
  <2>1. /\ call'[p] = [call[p] EXCEPT !.phase = "commit", !.entries = EntriesFor(call[p].selection)]
        /\ call[p] \in CallRows
    BY <1>1 DEF ReadFacts, TypeOK
  <2>2. /\ call'[p].phase = "commit" /\ call'[p].operation = call[p].operation
        /\ call'[p].needs = call[p].needs /\ call'[p].key = call[p].key
        /\ call'[p].selection = call[p].selection /\ call'[p].version = call[p].version
        /\ call'[p].case = call[p].case /\ call'[p].review = call[p].review
        /\ call'[p].entries = EntriesFor(call[p].selection)
    BY <2>1 DEF CallRows
  <2> QED  BY <1>1, <2>2, FactsKeeps DEF ReadFacts, Is, Switches
<1>2. CASE CheckTarget(p) \/ CheckReview(p)
  <2>1. /\ call'[p].phase = "commit" /\ call'[p].operation = call[p].operation
        /\ call'[p].needs = call[p].needs /\ call'[p].key = call[p].key
        /\ call'[p].selection = call[p].selection /\ call'[p].version = call[p].version
        /\ call'[p].case = call[p].case /\ call'[p].review = call[p].review
    BY <1>2, GotoFields DEF CheckTarget, CheckReview
  <2> QED  BY <1>2, <2>1, FactsKeeps DEF CheckTarget, CheckReview, Is, Switches
<1>3. CASE Replay(p) \/ StaleRevision(p) \/ Refuse(p) \/ StaleReview(p)
  BY <1>3, Ended DEF Replay, StaleRevision, Refuse, StaleReview
<1> QED  BY <1>1, <1>2, <1>3, FirstRequestKeeps, CheckLatestKeeps DEF Check

-----------------------------------------------------------------------------
(* Commits, seen by the other sessions.                                    *)

(* What guards a commit guards no other session that has its locks. *)
LEMMA Excluded ==
    ASSUME NEW p \in Callers, NEW q \in Callers, q # p, Holding(p), Holding(q),
           In(p, "commit"), NEW l \in Guards(p), l \in Guards(q)
    PROVE  l \in call[q].needs
<1>1. call[p].needs = {}
  BY DEF Holding, In
<1> QED  BY <1>1 DEF Holding

LEMMA ProjectGuards ==
    ASSUME NEW q, NEW s \in Sources, SelectionOf(q)[s] # None
    PROVE  Project(s) \in Guards(q)
BY DEF Guards

(* The end of a transaction moves no other session and none of its locks. *)
LEMMA EndFrame ==
    ASSUME TypeOK, NEW p \in Callers, NEW q \in Callers, q # p, End(p)
    PROVE  call'[q] = call[q] /\ \A l \in Locks : (holder'[l] = q) <=> (holder[l] = q)
BY NoneAssumption DEF TypeOK, End

(* A session that does not move is sound after a step, if its version is    *)
(* the same, and so is what it has checked.                                 *)
LEMMA OthersAfter ==
    ASSUME TypeOK, NEW q \in Callers, CallInv(q), call'[q] = call[q],
           \A l \in Locks : (holder'[l] = q) <=> (holder[l] = q),
           SelectionOf(q)' = SelectionOf(q),
           Is(q, Switches) => versions'[call[q].version].state # "none",
           Is(q, {"build"}) /\ BuildKey(call[q].key) \notin call[q].needs =>
             BuiltFor(call[q].key)' = BuiltFor(call[q].key),
           SawRevisions(q) /\ Is(q, {"build"} \cup Switches) =>
             (LatestReady(SelectionOf(q))' <=> LatestReady(SelectionOf(q))),
           In(q, "commit") /\ Is(q, {"build"}) =>
             EntriesFor(call[q].selection)' = EntriesFor(call[q].selection),
           In(q, "commit") /\ Is(q, Switches) => (Permitted(q)' <=> Permitted(q)),
           In(q, "commit") /\ Is(q, {"review"}) => (StillCurrent(q)' <=> StillCurrent(q))
    PROVE  CallInv(q)'
<1>1. Holding(q)'
  BY HoldingKept DEF CallInv
<1>2. WellFormed(q)'
  BY DEF CallInv, WellFormed, Is
<1>3. /\ SawRevisions(q)' <=> SawRevisions(q)
      /\ \A phase : In(q, phase)' <=> In(q, phase)
      /\ \A operations : Is(q, operations)' <=> Is(q, operations)
  BY DEF SawRevisions, In, Is
<1>4. Checked(q)'
  BY <1>3 DEF CallInv, Checked
<1> QED  BY <1>1, <1>2, <1>4 DEF CallInv

LEMMA TakedownKeeps ==
    ASSUME TypeOK, NEW p \in Callers, NEW q \in Callers, q # p, CallInv(p), CallInv(q), Takedown(p)
    PROVE  CallInv(q)'
<1>1. /\ In(p, "commit") /\ Is(p, {"takedown"})
      /\ UNCHANGED <<ready, reviews, publication>>
      /\ call'[q] = call[q] /\ \A l \in Locks : (holder'[l] = q) <=> (holder[l] = q)
  BY EndFrame DEF Takedown
<1>2. In(q, "commit") => ~Is(q, {"build"} \cup Switches)
  <2>1. Timeline \in Guards(p)
    BY <1>1 DEF Guards, Is
  <2>2. Is(q, {"build"} \cup Switches) => Timeline \in Guards(q)
    BY DEF Guards, Is
  <2>3. In(q, "commit") => call[q].needs = {}
    BY DEF CallInv, Holding, In
  <2> QED  BY <1>1, <2>1, <2>2, <2>3, Excluded DEF CallInv
<1>3. /\ SelectionOf(q)' = SelectionOf(q)
      /\ BuiltFor(call[q].key)' = BuiltFor(call[q].key)
      /\ LatestReady(SelectionOf(q))' <=> LatestReady(SelectionOf(q))
      /\ StillCurrent(q)' <=> StillCurrent(q)
  BY <1>1 DEF SelectionOf, Is, BuiltFor, LatestReady, StillCurrent, Reviewed, publication
<1>4. Is(q, Switches) => versions'[call[q].version].state # "none"
  BY <1>1 DEF CallInv, WellFormed, publication
<1> QED  BY <1>1, <1>2, <1>3, <1>4, OthersAfter DEF Is

LEMMA ReviewKeeps ==
    ASSUME TypeOK, NEW p \in Callers, NEW q \in Callers, q # p, CallInv(p), CallInv(q), Review(p),
           \A v \in Versions : VersionSound(v)
    PROVE  CallInv(q)'
<1> DEFINE c == call[p].case
<1>1. /\ In(p, "commit") /\ Is(p, {"review"})
      /\ UNCHANGED <<ready, timeline, publication>>
      /\ call'[q] = call[q] /\ \A l \in Locks : (holder'[l] = q) <=> (holder[l] = q)
  BY EndFrame DEF Review
<1>2. c \in Cases /\ SourceOf[c] \in Sources /\ Project(SourceOf[c]) \in Guards(p)
  <2>1. c \in Cases /\ SelectionOf(p)[SourceOf[c]] # None
    BY <1>1 DEF CallInv, WellFormed, SelectionOf, Is, Switches
  <2> QED  BY <2>1, ProjectGuards, FactsAssumption
<1>3. ASSUME NEW d \in Cases, In(q, "commit"), SelectionOf(q)[SourceOf[d]] # None, NEW r
      PROVE  reviews'[<<d, r>>] = reviews[<<d, r>>]
  <2>1. SourceOf[d] \in Sources /\ Project(SourceOf[d]) \in Guards(q) /\ call[q].needs = {}
    BY <1>3, ProjectGuards, FactsAssumption DEF CallInv, Holding, In
  <2>2. d # c
    BY <1>1, <1>2, <2>1, Excluded DEF CallInv
  <2> QED  BY <1>2, <2>2 DEF Review, TypeOK
<1>4. /\ SelectionOf(q)' = SelectionOf(q)
      /\ BuiltFor(call[q].key)' = BuiltFor(call[q].key)
      /\ LatestReady(SelectionOf(q))' <=> LatestReady(SelectionOf(q))
      /\ Is(q, Switches) => versions'[call[q].version].state # "none"
  BY <1>1 DEF CallInv, WellFormed, SelectionOf, Is, BuiltFor, LatestReady, publication
<1>5. In(q, "commit") /\ Is(q, {"build"}) =>
        EntriesFor(call[q].selection)' = EntriesFor(call[q].selection)
  <2> SUFFICES ASSUME In(q, "commit"), Is(q, {"build"})
               PROVE  EntriesFor(call[q].selection)' = EntriesFor(call[q].selection)
    OBVIOUS
  <2>1. PICK selection : selection = call[q].selection
    OBVIOUS
  <2>2. SelectionOf(q) = selection
    BY <2>1 DEF SelectionOf, Is, Switches
  <2>3. \A d \in Cases : selection[SourceOf[d]] \in Holds[d] => selection[SourceOf[d]] # None
    BY RevsType, FactsAssumption
  <2> QED  BY <1>1, <1>3, <2>1, <2>2, <2>3, EntriesSame
<1>6. In(q, "commit") /\ Is(q, Switches) => (Permitted(q)' <=> Permitted(q))
  <2> SUFFICES ASSUME In(q, "commit"), Is(q, Switches)
               PROVE  Permitted(q)' <=> Permitted(q)
    OBVIOUS
  <2>1. PICK v \in Versions : v = call[q].version
    BY DEF CallInv, WellFormed
  <2>2. \A e \in versions[v].entries : e.case \in Cases /\ SelectionOf(q)[SourceOf[e.case]] # None
    BY <2>1 DEF VersionSound, SelectionOf, TypeOK, VersionRows, Entries
  <2>3. \A e \in versions[v].entries :
          reviews'[<<e.case, versions[v].selection[SourceOf[e.case]]>>] =
            reviews[<<e.case, versions[v].selection[SourceOf[e.case]]>>]
    BY <1>3, <2>2
  <2> QED  BY <1>1, <2>1, <2>3, PermittedSame DEF publication
<1>7. In(q, "commit") /\ Is(q, {"review"}) => (StillCurrent(q)' <=> StillCurrent(q))
  <2> SUFFICES ASSUME In(q, "commit"), Is(q, {"review"})
               PROVE  StillCurrent(q)' <=> StillCurrent(q)
    OBVIOUS
  <2>1. call[q].case \in Cases /\ SelectionOf(q)[SourceOf[call[q].case]] # None
    BY DEF CallInv, WellFormed, SelectionOf, Is, Switches
  <2> QED  BY <1>1, <1>3, <2>1 DEF StillCurrent, Reviewed, LatestReady
<1> QED  BY <1>1, <1>4, <1>5, <1>6, <1>7, OthersAfter

LEMMA ImportKeeps ==
    ASSUME TypeOK, NEW p \in Callers, NEW q \in Callers, q # p, CallInv(p), CallInv(q), Import(p)
    PROVE  CallInv(q)'
<1>1. /\ In(p, "commit") /\ Is(p, {"import"})
      /\ UNCHANGED <<reviews, timeline, publication>>
      /\ call'[q] = call[q] /\ \A l \in Locks : (holder'[l] = q) <=> (holder[l] = q)
  BY EndFrame DEF Import
<1>2. ASSUME NEW s \in Sources, SelectionOf(q)[s] # None, call[q].needs \subseteq {Timeline}
      PROVE  ready'[s] = ready[s]
  <2>1. Project(s) \in Guards(q) /\ Project(s) \notin call[q].needs
    BY <1>2, ProjectGuards, LockNames
  <2>2. Project(s) \notin Guards(p)
    BY <1>1, <2>1, Excluded DEF CallInv
  <2>3. call[p].selection[s] = None
    BY <1>1, <2>2, ProjectGuards DEF SelectionOf, Is, Switches
  <2> QED  BY <2>3 DEF Import
<1>3. /\ SelectionOf(q)' = SelectionOf(q)
      /\ BuiltFor(call[q].key)' = BuiltFor(call[q].key)
      /\ Is(q, Switches) => versions'[call[q].version].state # "none"
  BY <1>1 DEF CallInv, WellFormed, SelectionOf, Is, BuiltFor, publication
<1>4. SawRevisions(q) => call[q].needs \subseteq {Timeline}
  BY DEF SawRevisions, CallInv, Holding, In
<1>5. SawRevisions(q) => (LatestReady(SelectionOf(q))' <=> LatestReady(SelectionOf(q)))
  BY <1>2, <1>3, <1>4 DEF LatestReady
<1>6. EntriesFor(call[q].selection)' = EntriesFor(call[q].selection)
  <2>1. PICK selection : selection = call[q].selection
    OBVIOUS
  <2> QED  BY <1>1, <2>1, EntriesSame
<1>7. Permitted(q)' <=> Permitted(q)
  <2>1. PICK v : v = call[q].version
    OBVIOUS
  <2> QED  BY <1>1, <2>1, PermittedSame DEF publication
<1>8. In(q, "commit") /\ Is(q, {"review"}) => (StillCurrent(q)' <=> StillCurrent(q))
  <2> SUFFICES ASSUME In(q, "commit"), Is(q, {"review"})
               PROVE  StillCurrent(q)' <=> StillCurrent(q)
    OBVIOUS
  <2>1. SelectionOf(q) = call[q].selection /\ call[q].needs = {}
    BY DEF SelectionOf, Is, Switches, CallInv, Holding, In
  <2> QED  BY <1>1, <1>2, <2>1 DEF StillCurrent, Reviewed, LatestReady
<1> QED  BY <1>1, <1>3, <1>5, <1>6, <1>7, <1>8, OthersAfter

LEMMA SwitchFrame ==
    ASSUME TypeOK, NEW v \in Versions, MovePointer(v)
    PROVE  \A u \in Versions :
             /\ versions'[u].key = versions[u].key
             /\ versions'[u].selection = versions[u].selection
             /\ versions'[u].entries = versions[u].entries
             /\ versions'[u].state = IF u = v THEN "active"
                                     ELSE IF u = current THEN "superseded"
                                     ELSE versions[u].state
<1> SUFFICES ASSUME NEW u \in Versions
             PROVE  /\ versions'[u].key = versions[u].key
                    /\ versions'[u].selection = versions[u].selection
                    /\ versions'[u].entries = versions[u].entries
                    /\ versions'[u].state = IF u = v THEN "active"
                                            ELSE IF u = current THEN "superseded"
                                            ELSE versions[u].state
  OBVIOUS
<1>1. versions[u] \in VersionRows
  BY DEF TypeOK
<1> QED  BY <1>1 DEF MovePointer, VersionRows

LEMMA SwitchKeeps ==
    ASSUME TypeOK, NEW p \in Callers, NEW q \in Callers, q # p, CallInv(p), CallInv(q), Switch(p)
    PROVE  CallInv(q)'
<1>1. /\ In(p, "commit") /\ Is(p, Switches) /\ MovePointer(call[p].version)
      /\ UNCHANGED authority /\ call[p].version \in Versions
      /\ call'[q] = call[q] /\ \A l \in Locks : (holder'[l] = q) <=> (holder[l] = q)
  BY EndFrame DEF Switch, CallInv, WellFormed
<1>2. PICK v \in Versions : v = call[p].version
  BY <1>1
<1>3. \A u \in Versions :
        /\ versions'[u].key = versions[u].key
        /\ versions'[u].selection = versions[u].selection
        /\ versions[u].state # "none" => versions'[u].state # "none"
  BY <1>1, <1>2, SwitchFrame
<1>4. In(q, "commit") => ~Is(q, Switches)
  <2>1. Current \in Guards(p) /\ (Is(q, Switches) => Current \in Guards(q))
    BY <1>1 DEF Guards
  <2>2. In(q, "commit") => call[q].needs = {}
    BY DEF CallInv, Holding, In
  <2> QED  BY <1>1, <2>1, <2>2, Excluded DEF CallInv
<1>5. /\ SelectionOf(q)' = SelectionOf(q)
      /\ Is(q, Switches) => versions'[call[q].version].state # "none"
  BY <1>1, <1>3 DEF CallInv, WellFormed, SelectionOf, Is
<1>6. BuiltFor(call[q].key)' = BuiltFor(call[q].key)
  BY <1>1, <1>3 DEF BuiltFor
<1>7. /\ LatestReady(SelectionOf(q))' <=> LatestReady(SelectionOf(q))
      /\ StillCurrent(q)' <=> StillCurrent(q)
  BY <1>1, <1>5 DEF LatestReady, StillCurrent, Reviewed, authority
<1>8. EntriesFor(call[q].selection)' = EntriesFor(call[q].selection)
  <2>1. PICK selection : selection = call[q].selection
    OBVIOUS
  <2> QED  BY <1>1, <2>1, EntriesSame DEF authority
<1> QED  BY <1>1, <1>4, <1>5, <1>6, <1>7, <1>8, OthersAfter

LEMMA BuildKeeps ==
    ASSUME TypeOK, NEW p \in Callers, NEW q \in Callers, q # p, CallInv(p), CallInv(q), Build(p),
           \A u \in Versions : VersionSound(u), PointerConsistent
    PROVE  CallInv(q)'
<1>1. /\ In(p, "commit") /\ Is(p, {"build"}) /\ UNCHANGED <<authority, current, announced>>
      /\ call'[q] = call[q] /\ \A l \in Locks : (holder'[l] = q) <=> (holder[l] = q)
  BY EndFrame DEF Build
<1>2. PICK v \in Versions :
        /\ versions[v].state = "none"
        /\ versions' = [versions EXCEPT ![v] =
             [state |-> "ready", key |-> call[p].key, selection |-> call[p].selection,
              entries |-> call[p].entries]]
  BY DEF Build, Fresh
<1>3. \A u \in Versions : u # v => versions'[u] = versions[u]
  BY <1>2 DEF TypeOK
<1>4. versions'[v].key = call[p].key /\ versions[v].key = None
  BY <1>2 DEF TypeOK, VersionSound
<1>5. Is(q, Switches) => call[q].version \in Versions \ {v}
  BY <1>2 DEF CallInv, WellFormed
<1>6. /\ SelectionOf(q)' = SelectionOf(q)
      /\ Is(q, Switches) => versions'[call[q].version].state # "none"
  BY <1>1, <1>3, <1>5 DEF CallInv, WellFormed, SelectionOf, Is
<1>7. Is(q, {"build"}) /\ BuildKey(call[q].key) \notin call[q].needs =>
        BuiltFor(call[q].key)' = BuiltFor(call[q].key)
  <2> SUFFICES ASSUME Is(q, {"build"}), BuildKey(call[q].key) \notin call[q].needs
               PROVE  BuiltFor(call[q].key)' = BuiltFor(call[q].key)
    OBVIOUS
  <2>1. BuildKey(call[q].key) \in Guards(q) /\ BuildKey(call[p].key) \in Guards(p)
    BY <1>1 DEF Guards
  <2>2. call[q].key # call[p].key
    BY <1>1, <2>1, Excluded DEF CallInv
  <2>3. call[q].key # None
    BY NoneAssumption DEF CallInv, WellFormed
  <2> QED  BY <1>1, <1>3, <1>4, <2>2, <2>3 DEF BuiltFor
<1>8. /\ LatestReady(SelectionOf(q))' <=> LatestReady(SelectionOf(q))
      /\ StillCurrent(q)' <=> StillCurrent(q)
  BY <1>1, <1>6 DEF LatestReady, StillCurrent, Reviewed, authority
<1>9. EntriesFor(call[q].selection)' = EntriesFor(call[q].selection)
  <2>1. PICK selection : selection = call[q].selection
    OBVIOUS
  <2> QED  BY <1>1, <2>1, EntriesSame DEF authority
<1>10. Is(q, Switches) => (Permitted(q)' <=> Permitted(q))
  <2> SUFFICES ASSUME Is(q, Switches) PROVE Permitted(q)' <=> Permitted(q)
    OBVIOUS
  <2>1. PICK u \in Versions : u = call[q].version /\ versions'[u] = versions[u]
    BY <1>3, <1>5
  <2>2. current # None => versions'[current] = versions[current]
    BY <1>2, <1>3 DEF PointerConsistent, TypeOK
  <2> QED  BY <1>1, <2>1, <2>2, PermittedSame DEF authority
<1> QED  BY <1>1, <1>6, <1>7, <1>8, <1>9, <1>10, OthersAfter

-----------------------------------------------------------------------------
(* The tables of versions.                                                 *)

TablesInv == (\A v \in Versions : VersionSound(v)) /\ PointerConsistent /\ OneVersionPerKey

LEMMA BuildStores ==
    ASSUME TypeOK, TablesInv, NEW p \in Callers, CallInv(p), Build(p)
    PROVE  TablesInv'
<1>1. PICK v \in Versions :
        /\ versions[v].state = "none"
        /\ versions' = [versions EXCEPT ![v] =
             [state |-> "ready", key |-> call[p].key, selection |-> call[p].selection,
              entries |-> call[p].entries]]
  BY DEF Build, Fresh
<1>2. /\ \A u \in Versions : u # v => versions'[u] = versions[u]
      /\ versions'[v].state = "ready" /\ versions'[v].key = call[p].key
      /\ versions'[v].selection = call[p].selection /\ versions'[v].entries = call[p].entries
  BY <1>1 DEF TypeOK
<1>3. /\ call[p].key \in BuildKeys /\ BuiltFor(call[p].key) = {}
      /\ call[p].entries = EntriesFor(call[p].selection)
      /\ call[p].selection \in Selections
      /\ UNCHANGED <<current, announced>>
  BY DEF Build, CallInv, WellFormed, Checked, Holding, In, TypeOK, CallRows
<1>4. VersionSound(v)'
  <2>1. \A e \in call[p].entries : call[p].selection[SourceOf[e.case]] # None
    BY <1>3, EntriesType, RevsType, FactsAssumption
  <2> QED  BY <1>2, <1>3, <2>1 DEF VersionSound
<1>5. \A u \in Versions : VersionSound(u)'
  BY <1>2, <1>4 DEF TablesInv, VersionSound
<1>6. PointerConsistent'
  BY <1>1, <1>2, <1>3 DEF TablesInv, PointerConsistent
<1>7. OneVersionPerKey'
  <2>1. \A u \in Versions : versions[u].key # call[p].key
    BY <1>3 DEF BuiltFor
  <2> QED  BY <1>2, <2>1 DEF TablesInv, OneVersionPerKey
<1> QED  BY <1>5, <1>6, <1>7 DEF TablesInv

LEMMA SwitchStores ==
    ASSUME TypeOK, TablesInv, NEW p \in Callers, CallInv(p), Switch(p)
    PROVE  TablesInv'
<1>1. PICK v \in Versions : v = call[p].version /\ versions[v].state # "none" /\ MovePointer(v)
  BY DEF Switch, CallInv, WellFormed
<1>2. \A u \in Versions :
        /\ versions'[u].key = versions[u].key
        /\ versions'[u].selection = versions[u].selection
        /\ versions'[u].entries = versions[u].entries
        /\ versions'[u].state = IF u = v THEN "active"
                                ELSE IF u = current THEN "superseded"
                                ELSE versions[u].state
  BY <1>1, SwitchFrame
<1>3. current' = v /\ announced' = v
  BY <1>1 DEF MovePointer
<1>4. \A u \in Versions : versions'[u].state # "none" <=> versions[u].state # "none"
  BY <1>1, <1>2 DEF TablesInv, PointerConsistent
<1>5. \A u \in Versions : VersionSound(u)'
  BY <1>2, <1>4 DEF TablesInv, VersionSound
<1>6. PointerConsistent'
  BY <1>2, <1>3 DEF TablesInv, PointerConsistent
<1>7. OneVersionPerKey'
  BY <1>2, <1>4 DEF TablesInv, OneVersionPerKey
<1> QED  BY <1>5, <1>6, <1>7 DEF TablesInv

LEMMA TablesKept ==
    ASSUME TablesInv, UNCHANGED publication
    PROVE  TablesInv'
BY DEF TablesInv, VersionSound, PointerConsistent, OneVersionPerKey, publication

-----------------------------------------------------------------------------
(* The invariant.                                                          *)

LEMMA InvParts == IndInv <=> (\A p \in Callers : CallInv(p)) /\ TablesInv
BY DEF IndInv, CallInv, TablesInv

(* The steps that only read, take a lock or give up. *)
LEMMA QuietKeeps ==
    ASSUME TypeOK, NEW p \in Callers, NEW q \in Callers, CallInv(p), CallInv(q),
           Begin(p) \/ Acquire(p) \/ Check(p) \/ Abort(p)
    PROVE  CallInv(q)' /\ UNCHANGED publication
<1>1. UNCHANGED <<authority, publication>>
  BY DEF Begin, BeginBuild, BeginSwitch, BeginTakedown, BeginReview, BeginImport, Start, Acquire,
     Abort, Check, Replay, FirstRequest, CheckLatest, StaleRevision, ReadFacts, CheckTarget,
     Refuse, CheckReview, StaleReview
<1>2. CallInv(p)'
  <2>1. CASE Begin(p)
    BY <2>1, BuildBegun, SwitchBegun, TakedownBegun, ReviewBegun, ImportBegun DEF Begin, CallInv
  <2>2. CASE Abort(p)
    BY <2>2, Ended DEF Abort
  <2> QED  BY <2>1, <2>2, AcquireKeeps, CheckKeeps
<1>3. ASSUME q # p
      PROVE  call'[q] = call[q] /\ \A l \in Locks : (holder'[l] = q) <=> (holder[l] = q)
  <2>1. CASE Begin(p)
    BY <1>3, <2>1 DEF Begin, BeginBuild, BeginSwitch, BeginTakedown, BeginReview, BeginImport,
       Start, TypeOK
  <2>2. CASE Acquire(p)
    BY <1>3, <2>2, NoneAssumption DEF Acquire, TypeOK
  <2>3. CASE End(p)
    BY <1>3, <2>3, EndFrame
  <2>4. CASE Check(p) /\ ~End(p)
    BY <1>3, <2>4 DEF Check, Replay, FirstRequest, CheckLatest, StaleRevision, ReadFacts,
       CheckTarget, Refuse, CheckReview, StaleReview, Goto, TypeOK
  <2> QED  BY <2>1, <2>2, <2>3, <2>4 DEF Abort
<1> QED  BY <1>1, <1>2, <1>3, OthersKept

LEMMA CommitKeeps ==
    ASSUME TypeOK, IndInv, NEW p \in Callers, Commit(p)
    PROVE  IndInv'
<1>1. (\A q \in Callers : CallInv(q)) /\ TablesInv
  BY InvParts
<1>2. CallInv(p)'
  BY Ended DEF Commit, Build, Switch, Takedown, Review, Import
<1>3. ASSUME NEW q \in Callers, q # p
      PROVE  CallInv(q)'
  BY <1>1, <1>3, BuildKeeps, SwitchKeeps, TakedownKeeps, ReviewKeeps, ImportKeeps
  DEF Commit, TablesInv
<1>4. TablesInv'
  BY <1>1, BuildStores, SwitchStores, TablesKept DEF Commit, Takedown, Review, Import
<1> QED  BY <1>2, <1>3, <1>4, InvParts DEF IndInv, CallInv, TablesInv

LEMMA InitSound == Init => IndInv
<1> SUFFICES ASSUME Init PROVE IndInv
  OBVIOUS
<1>1. ASSUME NEW p \in Callers
      PROVE  CallInv(p)
  <2>1. call[p] = NoCall /\ \A l \in Locks : holder[l] # p
    BY <1>1, NoneAssumption DEF Init
  <2>2. call[p].operation = "none" /\ SelectionOf(p) = Nothing /\ call[p].phase = "idle"
    BY <2>1 DEF NoCall, SelectionOf, Is, Switches
  <2>3. Guards(p) = {} /\ call[p].needs = {}
    BY <2>1, <2>2 DEF Guards, Is, NoCall, Switches, Nothing
  <2> QED  BY <2>1, <2>2, <2>3 DEF CallInv, Holding, WellFormed, Checked, SawRevisions, In, Is,
            Switches
<1>2. \A v \in Versions : versions[v].state = "none" /\ versions[v].key = None /\ versions[v].entries = {}
  BY DEF Init, NoVersion
<1>3. TablesInv
  BY <1>2, NoneAssumption DEF Init, TablesInv, VersionSound, PointerConsistent, OneVersionPerKey,
     Versions
<1> QED  BY <1>1, <1>3, InvParts

-----------------------------------------------------------------------------
(* Theorems.                                                               *)

LEMMA StepKeeps ==
    ASSUME TypeOK, IndInv, [Next]_vars
    PROVE  TypeOK' /\ IndInv'
<1>1. (\A q \in Callers : CallInv(q)) /\ TablesInv
  BY InvParts
<1>2. CASE UNCHANGED vars
  <2>1. TypeOK'
    BY <1>2 DEF vars, TypeOK
  <2>2. \A q \in Callers : CallInv(q)'
    BY <1>1, <1>2, OthersKept DEF vars, authority, publication
  <2>3. TablesInv'
    BY <1>1, <1>2, TablesKept DEF vars, publication
  <2> QED  BY <2>1, <2>2, <2>3 DEF IndInv, CallInv, TablesInv
<1>3. ASSUME NEW p \in Callers, Begin(p) \/ Acquire(p) \/ Check(p) \/ Abort(p)
      PROVE  TypeOK' /\ IndInv'
  <2>1. TypeOK'
    <3>1. CASE Abort(p)
      BY <3>1, EndTyped DEF Abort, TypeOK, authority, inputs, publication
    <3> QED  BY <1>3, <3>1, BeginTyped, AcquireTyped, CheckTyped
  <2>2. \A q \in Callers : CallInv(q)' /\ UNCHANGED publication
    BY <1>1, <1>3, QuietKeeps
  <2>3. TablesInv'
    BY <1>1, <2>2, TablesKept
  <2> QED  BY <2>1, <2>2, <2>3 DEF IndInv, CallInv, TablesInv
<1>4. ASSUME NEW p \in Callers, Commit(p)
      PROVE  TypeOK' /\ IndInv'
  BY <1>1, <1>4, CommitTyped, CommitKeeps DEF CallInv, WellFormed
<1> QED  BY <1>2, <1>3, <1>4 DEF Next

(* The tables, locks and transactions keep their types, and the             *)
(* strengthening is an invariant: every session keeps the locks that guard  *)
(* what it has checked.                                                     *)
THEOREM Invariance == Spec => [](TypeOK /\ IndInv)
<1>1. Init => TypeOK /\ IndInv
  BY InitTyped, InitSound
<1>2. TypeOK /\ IndInv /\ [Next]_vars => (TypeOK /\ IndInv)'
  BY StepKeeps
<1> QED  BY <1>1, <1>2, PTL DEF Spec

(* The pointer, the active version and the newest outbox event agree. *)
THEOREM Pointer == Spec => []PointerConsistent
<1>1. IndInv => PointerConsistent
  BY DEF IndInv
<1> QED  BY <1>1, Invariance, PTL

(* One idempotency key never names two versions. *)
THEOREM Idempotency == Spec => []OneVersionPerKey
<1>1. IndInv => OneVersionPerKey
  BY DEF IndInv
<1> QED  BY <1>1, Invariance, PTL

(* How many locks may still come after a lock. *)
After(l) ==
  IF Stage(l) = 0 THEN Cardinality(Sources) + 2
  ELSE IF Stage(l) = 1 THEN Cardinality({s \in Sources : ProjectId[s] > ProjectId[l[2]]}) + 1
  ELSE 0

LEMMA AfterFalls ==
    ASSUME NEW l \in Locks, NEW m \in Locks, Before(l, m)
    PROVE  After(l) \in Nat /\ After(m) \in Nat /\ After(m) < After(l)
<1> DEFINE later(k) == {s \in Sources : ProjectId[s] > ProjectId[k]}
<1>1. \A k : /\ Cardinality(later(k)) \in Nat
             /\ Cardinality(later(k)) <= Cardinality(Sources)
  <2> TAKE k
  <2>1. later(k) \in SUBSET Sources
    OBVIOUS
  <2> HIDE DEF later
  <2> QED  BY <2>1, OrderAssumption, FS_Subset, FS_CardinalityType
<1>2. Cardinality(Sources) \in Nat
  BY OrderAssumption, FS_CardinalityType
<1>3. /\ After(l) = IF Stage(l) = 0 THEN Cardinality(Sources) + 2
                    ELSE IF Stage(l) = 1 THEN Cardinality(later(l[2])) + 1 ELSE 0
      /\ After(m) = IF Stage(m) = 0 THEN Cardinality(Sources) + 2
                    ELSE IF Stage(m) = 1 THEN Cardinality(later(m[2])) + 1 ELSE 0
  BY DEF After
<1>4. Stage(l) \in {0, 1, 2} /\ Stage(m) \in {0, 1, 2}
  BY DEF Stage
<1>5. CASE Stage(l) < Stage(m)
  <2> HIDE DEF later
  <2> QED  BY <1>1, <1>2, <1>3, <1>4, <1>5
<1>6. CASE Stage(l) = 1 /\ Stage(m) = 1 /\ ProjectId[l[2]] < ProjectId[m[2]]
  <2>1. l[2] \in Sources /\ m[2] \in Sources
    BY <1>6, LockKinds, Stages
  <2>2. ProjectId[l[2]] \in Nat /\ ProjectId[m[2]] \in Nat
    BY <2>1, OrderAssumption
  <2>3. later(m[2]) \subseteq later(l[2]) /\ m[2] \in later(l[2]) /\ m[2] \notin later(m[2])
    BY <1>6, <2>1, <2>2, OrderAssumption
  <2>4. IsFiniteSet(later(l[2]))
    BY OrderAssumption, FS_Subset
  <2> HIDE DEF later
  <2>5. /\ Cardinality(later(m[2])) <= Cardinality(later(l[2]))
        /\ Cardinality(later(m[2])) # Cardinality(later(l[2]))
    BY <2>3, <2>4, FS_Subset
  <2>6. Cardinality(later(m[2])) < Cardinality(later(l[2]))
    BY <1>1, <2>5
  <2> QED  BY <1>1, <1>3, <1>6, <2>6
<1> QED  BY <1>5, <1>6 DEF Before

(* The lock a session awaits comes after every lock it owns. *)
LEMMA AwaitsLater ==
    ASSUME TypeOK, IndInv, NEW q \in Callers, NEW l \in Locks, holder[l] = q,
           NEW m \in Locks, NextLock(q, m)
    PROVE  After(l) \in Nat /\ After(m) \in Nat /\ After(m) < After(l)
<1>1. Before(l, m)
  BY DEF IndInv, Holding, NextLock
<1> QED  BY <1>1, AfterFalls

LEMMA NatLess == IsWellFoundedOn({xy \in Nat \X Nat : xy[1] < xy[2]}, Nat)
BY NatLessThanWellFounded DEF OpToRel

(* A group in which everyone waits for a member has an awaited lock after  *)
(* which no awaited lock comes; but its owner awaits a later one.          *)
LEMMA NoCycleNow ==
    ASSUME TypeOK, IndInv
    PROVE  NoLockCycle
<1> SUFFICES ASSUME NEW group \in (SUBSET Callers) \ {{}},
                    \A p \in group : \E q \in group : Waits(p, q)
             PROVE  FALSE
  BY DEF NoLockCycle
<1> DEFINE less == {xy \in Nat \X Nat : xy[1] < xy[2]}
           awaited == {l \in Locks : \E q \in group : holder[l] = q /\ \E p \in group : NextLock(p, l)}
           ranks == {After(l) : l \in awaited}
<1>1. \A q \in group : \E l \in awaited : NextLock(q, l)
  BY DEF Waits
<1>2. \A l \in awaited : \E m \in awaited :
        After(l) \in Nat /\ After(m) \in Nat /\ After(m) < After(l)
  <2> TAKE l \in awaited
  <2>1. PICK q \in group : holder[l] = q
    OBVIOUS
  <2>2. PICK m \in awaited : NextLock(q, m)
    BY <1>1
  <2>3. q \in Callers /\ l \in Locks /\ m \in Locks
    OBVIOUS
  <2> QED  BY <2>1, <2>2, <2>3, AwaitsLater
<1>3. awaited # {}
  BY <1>1
<1> HIDE DEF awaited
<1>4. ranks \subseteq Nat /\ ranks # {}
  BY <1>2, <1>3
<1>5. PICK x \in ranks : \A y \in ranks : ~(<<y, x>> \in less)
  <2> HIDE DEF ranks, less
  <2>1. IsWellFoundedOn(less, Nat)
    BY NatLess DEF less
  <2> QED  BY <1>4, <2>1, WFMin
<1>6. PICK l \in awaited : x = After(l)
  OBVIOUS
<1>7. PICK m \in awaited : After(l) \in Nat /\ After(m) \in Nat /\ After(m) < After(l)
  BY <1>2
<1>8. <<After(m), After(l)>> \in less /\ After(m) \in ranks
  BY <1>7
<1> QED  BY <1>5, <1>6, <1>8

(* No set of sessions, of any size, ever waits for itself. *)
THEOREM NoCycle == Spec => []NoLockCycle
<1>1. TypeOK /\ IndInv => NoLockCycle
  BY NoCycleNow
<1> QED  BY <1>1, Invariance, PTL

-----------------------------------------------------------------------------
(* What a commit does.                                                     *)

LEMMA BuildNow ==
    ASSUME IndInv, NEW p \in Callers, Build(p)
    PROVE  LatestReady(call[p].selection) /\ call[p].entries = EntriesFor(call[p].selection)
<1>1. Checked(p) /\ In(p, "commit") /\ Is(p, {"build"}) /\ SelectionOf(p) = call[p].selection
  BY DEF IndInv, Build, SelectionOf, Is, Switches
<1> QED  BY <1>1 DEF Checked, SawRevisions, In, Is

LEMMA SwitchNow ==
    ASSUME IndInv, NEW p \in Callers, Switch(p)
    PROVE  LET v == call[p].version
           IN /\ LatestReady(versions[v].selection)
              /\ LatestReviewed(v)
              /\ Clean(v)
              /\ Is(p, {"activate"}) => LossAuthorized(v)
<1>1. /\ Checked(p) /\ In(p, "commit") /\ Is(p, Switches)
      /\ SelectionOf(p) = versions[call[p].version].selection
  BY DEF IndInv, Switch, SelectionOf
<1>2. Permitted(p)
  BY <1>1 DEF Checked
<1>3. LatestReady(SelectionOf(p))
  BY <1>1 DEF Checked, SawRevisions, In, Is
<1> QED  BY <1>1, <1>2, <1>3 DEF Permitted

(* A review is the only step that changes a batch, and it changes the batch *)
(* of the latest revision that its reviewer saw.                            *)
LEMMA ReviewNow ==
    ASSUME TypeOK, IndInv, [Next]_vars, NEW c \in Cases, NEW r \in Revs,
           reviews'[<<c, r>>] # reviews[<<c, r>>]
    PROVE  /\ reviews'[<<c, r>>].batch = reviews[<<c, r>>].batch + 1
           /\ r = ready[SourceOf[c]]
<1>1. reviews' # reviews
  OBVIOUS
<1>2. PICK p \in Callers : Review(p)
  BY <1>1 DEF Next, vars, authority, Begin, BeginBuild, BeginSwitch, BeginTakedown, BeginReview,
     BeginImport, Start, Acquire, Check, Replay, FirstRequest, CheckLatest, StaleRevision, ReadFacts,
     CheckTarget, Refuse, CheckReview, StaleReview, Commit, Build, Switch, Takedown, Import, Abort
<1> DEFINE d == call[p].case
           s == SourceOf[d]
           read == call[p].selection[s]
<1>3. /\ Checked(p) /\ WellFormed(p) /\ In(p, "commit") /\ Is(p, {"review"})
      /\ reviews' = [reviews EXCEPT ![<<d, read>>] = call[p].review]
  BY <1>2 DEF IndInv, Review
<1>4. d \in Cases /\ read # None /\ StillCurrent(p)
  BY <1>3 DEF Checked, WellFormed
<1>5. s \in Sources /\ read = ready[s]
  BY <1>4, FactsAssumption DEF StillCurrent, LatestReady
<1>6. reviews[<<d, read>>].batch + 1 = call[p].review.batch
  BY <1>4 DEF StillCurrent, Reviewed
<1>7. reviews \in [Cases \X Revs -> Reviews]
  BY DEF TypeOK
<1> HIDE DEF d, read
<1>8. <<c, r>> = <<d, read>> /\ reviews'[<<c, r>>] = call[p].review
  BY <1>3, <1>7
<1> QED  BY <1>5, <1>6, <1>8 DEF s

(* A build commits what the authority tables say at that moment. *)
THEOREM BuildCurrent == Spec => BuildIsCurrent
<1>1. IndInv /\ [Next]_vars =>
        [\A p \in Callers : Build(p) =>
           /\ LatestReady(call[p].selection)
           /\ call[p].entries = EntriesFor(call[p].selection)]_vars
  BY BuildNow
<1> QED  BY <1>1, Invariance, PTL DEF Spec, BuildIsCurrent

(* The pointer moves only to a version that is current, clean and, for an  *)
(* activation, loses no case without authority.                            *)
THEOREM SwitchAuthorized == Spec => SwitchIsAuthorized
<1>1. IndInv /\ [Next]_vars =>
        [\A p \in Callers : Switch(p) =>
           LET v == call[p].version
           IN /\ LatestReady(versions[v].selection)
              /\ LatestReviewed(v)
              /\ Clean(v)
              /\ Is(p, {"activate"}) => LossAuthorized(v)]_vars
  BY SwitchNow
<1> QED  BY <1>1, Invariance, PTL DEF Spec, SwitchIsAuthorized

(* Review batches form a chain, on the latest revision only. *)
THEOREM ReviewChain == Spec => ReviewsChain
<1>1. TypeOK /\ IndInv /\ [Next]_vars =>
        [\A c \in Cases, r \in Revs :
           reviews'[<<c, r>>] # reviews[<<c, r>>] =>
             /\ reviews'[<<c, r>>].batch = reviews[<<c, r>>].batch + 1
             /\ r = ready[SourceOf[c]]]_vars
  BY ReviewNow
<1> QED  BY <1>1, Invariance, PTL DEF Spec, ReviewsChain
=============================================================================
