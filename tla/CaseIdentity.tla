---------------------------- MODULE CaseIdentity ----------------------------
(***************************************************************************)
(* When two observations are the same case. A source is imported revision  *)
(* by revision; each revision is a set of generation documents, and each    *)
(* document becomes one row for each of its examples. Four parts of the    *)
(* program decide on sameness, each in its own way:                        *)
(*   fingerprints   the diff of two revisions (sync/revision.py)           *)
(*   canonical keys the grouping of rows (content/publication.py), done by *)
(*                  transactions of content/database.py that may run at    *)
(*                  the same time and create the same case                 *)
(*   case facts     the review and its quality ledger                      *)
(*                  (content/review_store.py, content/quality.py)          *)
(*   preview cases  the preview under the same ledger (apps/internal_preview) *)
(* A prompt is its words and its noise: Unicode form, line ends, blanks at *)
(* the ends of lines. A place is a path and an address with the commit.    *)
(***************************************************************************)
EXTENDS Integers, FiniteSets, FiniteSetsExt, SequencesExt, Orders

CONSTANTS
  Documents,      \* Documents[s][n]: the documents of the n-th revision of source s
  Canonicalizers  \* processes: sync calls and the canonicalize command

VARIABLES
  rows,    \* inventory.generation_examples of ready runs, by row id
  cases,   \* content.canonical_cases
  member,  \* content.canonical_memberships: the case of a row
  canon    \* a process: its transaction, then the build it does next

identityVars == <<rows, cases, member, canon>>

Sources == DOMAIN Documents

NoCanon == [pc |-> "idle", selection |-> <<>>, todo |-> {}, newCases |-> {}, newMembers |-> {}, lacking |-> {}]

IdentityInit ==
  /\ rows = <<>>
  /\ cases = {}
  /\ member = [i \in {} |-> 0]
  /\ canon = [w \in Canonicalizers |-> NoCanon]

-----------------------------------------------------------------------------
(* Fingerprints: everything but places, of one document.                   *)

PairsOf(d) == {<<d.assets[i].role, d.assets[i].content>> : i \in DOMAIN d.assets}
\* _semantic_generation_document
SemanticDocument(d) ==
  [prompt   |-> <<d.prompt.words, d.prompt.noise>>,
   assets   |-> [i \in DOMAIN d.assets |-> <<d.assets[i].role, d.assets[i].content>>],
   examples |-> d.examples]
CaseFingerprint(d) ==
  [case     |-> d.case,
   prompt   |-> <<d.prompt.words, d.prompt.noise>>,
   assets   |-> [p \in PairsOf(d) |->
                   Cardinality({i \in DOMAIN d.assets : <<d.assets[i].role, d.assets[i].content>> = p})],
   semantic |-> SemanticDocument(d)]

DocumentOf(s, n, c) == CHOOSE d \in Documents[s][n] : d.case = c
CaseKeys(s, n) == {d.case : d \in Documents[s][n]}

\* fingerprint_map and stable_set_diff of two revisions
SameCase(s, n, m, c) == CaseFingerprint(DocumentOf(s, n, c)) = CaseFingerprint(DocumentOf(s, m, c))
Diff(s, n, m) ==
  LET shared == CaseKeys(s, n) \cap CaseKeys(s, m)
  IN [added     |-> CaseKeys(s, m) \ CaseKeys(s, n),
      removed   |-> CaseKeys(s, n) \ CaseKeys(s, m),
      modified  |-> {c \in shared : ~SameCase(s, n, m, c)},
      unchanged |-> {c \in shared : SameCase(s, n, m, c)}]

-----------------------------------------------------------------------------
(* Canonical keys, of one example.                                         *)

\* normalize_prompt
Normalized(prompt) == prompt.words
ContentsOf(d, ids) == [i \in DOMAIN ids |-> d.assets[ids[i]].content]
CanonicalKey(d, e) ==
  [prompt  |-> Normalized(d.prompt),
   inputs  |-> ContentsOf(d, d.examples[e].inputs),
   outputs |-> ContentsOf(d, d.examples[e].outputs),
   claim   |-> d.examples[e].claim]

RowDocument(i) == DocumentOf(rows[i].source, rows[i].revision, rows[i].case)
KeyOfRow(i) == CanonicalKey(RowDocument(i), rows[i].example)

-----------------------------------------------------------------------------
(* Imports, and selections of ready revisions.                             *)

Ready(s, n) == \E i \in DOMAIN rows : rows[i].source = s /\ rows[i].revision = n
\* the latest is the one with the highest run id
LatestReadyOf(s) == LET of == {i \in DOMAIN rows : rows[i].source = s}
                    IN rows[CHOOSE i \in of : \A j \in of : j <= i].revision

\* the rows of a revision, in the order of cases and examples
RowsIn(s, n) ==
  UNION {{[source |-> s, revision |-> n, case |-> d.case, example |-> e] : e \in DOMAIN d.examples} :
           d \in Documents[s][n]}
RowOrder(found) ==
  {p \in found \X found :
     \/ p[1].case < p[2].case
     \/ p[1].case = p[2].case /\ p[1].example < p[2].example}
RowsOf(s, n) == SortedBy(RowsIn(s, n), RowOrder(RowsIn(s, n)))

\* the contract: examples name assets of the document, and an output is of one example
Contracted(d) ==
  /\ d.case \in Int
  /\ d.assets \in Seq(Range(d.assets)) /\ d.examples \in Seq(Range(d.examples))
  /\ \A e \in Range(d.examples) : {e.inputs, e.outputs} \subseteq Seq(DOMAIN d.assets)
  /\ \A x, y \in DOMAIN d.examples :
       \A i \in DOMAIN d.examples[x].outputs, j \in DOMAIN d.examples[y].outputs :
         d.examples[x].outputs[i] = d.examples[y].outputs[j] => x = y /\ i = j
\* a revision has each case once
ASSUME DocumentsAssumption ==
  \A s \in DOMAIN Documents : \A n \in DOMAIN Documents[s] :
    /\ IsFiniteSet(Documents[s][n])
    /\ \A d, e \in Documents[s][n] : Contracted(d) /\ (d.case = e.case => d = e)
\* a whole revision at once
ImportRevision(s, n) ==
  /\ ~Ready(s, n)
  /\ n > 1 => Ready(s, n - 1)
  /\ rows' = rows \o RowsOf(s, n)
  /\ UNCHANGED <<cases, member, canon>>

\* _selection_predicate
SelectedBy(selection, i) ==
  rows[i].source \in DOMAIN selection /\ selection[rows[i].source] = rows[i].revision
\* _canonicalization_rows
SelectedRows(selection) == {i \in DOMAIN rows : SelectedBy(selection, i)}
\* _resolve_revision_selection
Resolves(selection) == DOMAIN selection # {} /\ \A s \in DOMAIN selection : Ready(s, selection[s])
\* _legacy_ready_revision_selection
LegacySelection == [s \in {t \in Sources : Ready(t, 1)} |-> LatestReadyOf(s)]

-----------------------------------------------------------------------------
(* _canonicalize: one transaction, two inserts for each row. An insert of  *)
(* what another transaction has inserted waits until that one ends; where  *)
(* the membership waits the case was committed before, so both are a step. *)

Doing(w, pc) == canon[w].pc = pc
\* in the order of row ids
CurrentRow(w) == Min(canon[w].todo)
Others(w) == Canonicalizers \ {w}
\* inserted and not committed
Holds(w, i) == KeyOfRow(i) \in canon[w].newCases \/ i \in canon[w].newMembers

\* canonicalize_revisions, of the explicit selection of a sync call
BeginCanonicalize(w, selection) ==
  /\ Doing(w, "idle")
  /\ Resolves(selection)
  /\ canon' = [canon EXCEPT ![w] =
       [NoCanon EXCEPT !.pc = "rows", !.selection = selection, !.todo = SelectedRows(selection)]]
  /\ UNCHANGED <<rows, cases, member>>

\* the command takes every ready row
BeginCanonicalizeAll(w) ==
  /\ Doing(w, "idle")
  /\ rows # <<>>
  /\ canon' = [canon EXCEPT ![w] = [NoCanon EXCEPT !.pc = "rows", !.todo = DOMAIN rows]]
  /\ UNCHANGED <<rows, cases, member>>

\* mutant: the case is looked for first, and one that another transaction has
\* inserted counts as there
TakeRowUnseen(w) ==
  /\ Doing(w, "rows") /\ canon[w].todo # {}
  /\ LET i == CurrentRow(w)  key == KeyOfRow(i)
         seen == cases \cup UNION {canon[x].newCases : x \in Others(w)}
     IN canon' = [canon EXCEPT ![w] =
          [@ EXCEPT !.todo = @ \ {i},
                    !.newCases = @ \cup ({key} \ seen),
                    !.newMembers = IF i \in DOMAIN member THEN @ ELSE @ \cup {i}]]
  /\ UNCHANGED <<rows, cases, member>>

\* INSERT ... ON CONFLICT DO NOTHING of the case, then of the membership: what
\* is there stays, and a membership that names another case is an error. The
\* facet inserted in between is a function of the case.
TakeRow(w) ==
  /\ Doing(w, "rows") /\ canon[w].todo # {}
  /\ \A x \in Others(w) : ~Holds(x, CurrentRow(w))
  /\ LET i == CurrentRow(w)  key == KeyOfRow(i)
         known == i \in DOMAIN member
     IN canon' = [canon EXCEPT ![w] =
          IF known /\ member[i] # key THEN [NoCanon EXCEPT !.pc = "conflict"]
          ELSE [canon[w] EXCEPT
                  !.todo = @ \ {i},
                  !.newCases = @ \cup ({key} \ cases),
                  !.newMembers = IF known THEN @ ELSE @ \cup {i}]]
  /\ UNCHANGED <<rows, cases, member>>

CommitCanonical(w) ==
  /\ Doing(w, "rows") /\ canon[w].todo = {}
  /\ cases' = cases \cup canon[w].newCases
  /\ member' = [i \in DOMAIN member \cup canon[w].newMembers |->
                  IF i \in DOMAIN member THEN member[i] ELSE KeyOfRow(i)]
  /\ canon' = [canon EXCEPT ![w] = [@ EXCEPT !.pc = "canonical", !.newCases = {}, !.newMembers = {}]]
  /\ UNCHANGED rows

Waits(w, x) == x # w /\ Doing(w, "rows") /\ canon[w].todo # {} /\ Holds(x, CurrentRow(w))

\* two sources list shared cases in different orders: PostgreSQL ends one of
\* two transactions that wait for each other
DeadlockVictim(w) ==
  /\ \E x \in Others(w) : Waits(w, x) /\ Waits(x, w)
  /\ canon' = [canon EXCEPT ![w] = NoCanon]
  /\ UNCHANGED <<rows, cases, member>>

\* any other error, or the end of the process, at any step
GiveUp(w) ==
  /\ canon[w].pc # "idle"
  /\ canon' = [canon EXCEPT ![w] = NoCanon]
  /\ UNCHANGED <<rows, cases, member>>

\* the build of the same selection, or of the latest revisions by then, leaves
\* out the rows it finds without a case
BuildSelection(w) ==
  /\ Doing(w, "canonical")
  /\ LET selection == IF DOMAIN canon[w].selection = {} THEN LegacySelection ELSE canon[w].selection
     IN canon' = [canon EXCEPT ![w] =
          [@ EXCEPT !.pc = "built", !.lacking = SelectedRows(selection) \ DOMAIN member]]
  /\ UNCHANGED <<rows, cases, member>>

-----------------------------------------------------------------------------
(* What the quality ledger is compared with: all outputs of a case.        *)

\* mutant: the outputs of the first example
FactsOutputsOfFirst(d) == ContentsOf(d, d.examples[1].outputs)
\* _case_facts: the examples by their ids, the outputs of each in order
FactsOutputs(d) == FoldLeft(LAMBDA found, e : found \o ContentsOf(d, e.outputs), <<>>, d.examples)

\* _case_from_document: the examples as listed, which is by their ids; an asset
\* that was met before is not met again
ListedAssets(d) == FoldLeft(LAMBDA all, e : all \o e.outputs, <<>>, d.examples)
MetOnce(ids) == FoldLeft(LAMBDA found, id : IF id \in Range(found) THEN found ELSE Append(found, id), <<>>, ids)
PreviewOutputs(d) == ContentsOf(d, MetOnce(ListedAssets(d)))

\* content_quality_decision compares sorted hashes
SortedHashes(contents) == SortSeq(contents, <)

-----------------------------------------------------------------------------
\* The images at the same places of two lists are the same.
SameContents(d, p, e, q) ==
  Len(p) = Len(q) /\ \A k \in DOMAIN p : d.assets[p[k]].content = e.assets[q[k]].content
\* Whatever runs at the same time and is given up on the way: a row belongs
\* to at most one case, a case that is there; no case is without a row; two
\* rows share one exactly if nothing but noise and places tells them apart;
\* no grouping is ever refused, and the build of an explicit selection finds
\* each of its rows grouped.
Alike(i, j) ==
  LET d == RowDocument(i)  e == RowDocument(j)
      x == d.examples[rows[i].example]  y == e.examples[rows[j].example]
  IN /\ d.prompt.words = e.prompt.words
     /\ x.claim = y.claim
     /\ SameContents(d, x.inputs, e, y.inputs)
     /\ SameContents(d, x.outputs, e, y.outputs)
CanonicalIsWhole ==
  /\ cases = {member[i] : i \in DOMAIN member}
  /\ \A i, j \in DOMAIN member : member[i] = member[j] <=> Alike(i, j)
  /\ \A w \in Canonicalizers : 
       canon[w].pc # "conflict" /\ (DOMAIN canon[w].selection # {} => canon[w].lacking = {})

\* The parts agree on what a case is. A case the diff of two revisions calls
\* unchanged keeps its canonical cases, so a revision loses a public case
\* only where its diff says modified or removed; and the review and the
\* preview compare the ledger with the same outputs.
ViewsAgree ==
  \A s \in Sources : \A n \in DOMAIN Documents[s] : Ready(s, n) =>
    /\ \A d \in Documents[s][n] : SortedHashes(FactsOutputs(d)) = SortedHashes(PreviewOutputs(d))
    /\ \A m \in DOMAIN Documents[s] : Ready(s, m) =>
         LET diff == Diff(s, n, m)
             grouped(r, of) == {member[i] : i \in {j \in DOMAIN member :
                 rows[j].source = s /\ rows[j].revision = r /\ rows[j].case \in of}}
             whole(r) == \A i \in DOMAIN rows : rows[i].source = s /\ rows[i].revision = r => i \in DOMAIN member
         IN whole(n) /\ whole(m) =>
              /\ \A c \in diff.unchanged : grouped(n, {c}) = grouped(m, {c})
              /\ grouped(n, CaseKeys(s, n)) \ grouped(m, CaseKeys(s, m)) \subseteq
                   grouped(n, diff.modified \cup diff.removed)
=============================================================================
