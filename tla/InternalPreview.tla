--------------------------- MODULE InternalPreview ---------------------------
(***************************************************************************)
(* The preview of unreviewed cases on the own machine                      *)
(* (apps/internal_preview/repository.py). It parses the sources at their   *)
(* registered commits, keeps the result in a file under a key of what it   *)
(* was made from, groups cases that share a prompt and leaves out what the *)
(* quality ledger blocks. The first request builds the repository, and the *)
(* process keeps it. A process runs the code it imported when it started,  *)
(* and keeps the first ledger it read, whatever is deployed under it. The  *)
(* texts a query is compared with are left out.                            *)
(***************************************************************************)
EXTENDS Integers, FiniteSets, SequencesExt, Orders

CONSTANTS
  PreviewCases, \* [id, commit, source, prompt, images]: ids in the order of source and case key
  Releases,     \* Releases[i]: checked out commit of the sources, adapter version and code,
                \* and what the quality ledger blocks or no longer fits
  MaxReleases   \* BOUND: deployments

VARIABLES
  released,  \* the release whose files are there
  releases,  \* deployments so far
  index,     \* index-v2.json
  preview    \* the process: from_environment, then the repository it keeps

previewVars == <<released, releases, index, preview>>

\* registry, audit and ledger files go into the key by content, the code of the
\* process by its version
CacheKey(files, imported) ==
  [commit |-> files.commit, adapter |-> imported.adapter, blocked |-> files.blocked, drifted |-> files.drifted]

\* _build_index: a case remembers the code that made it
BuildIndex(files, imported) ==
  {[id |-> c.id, source |-> c.source, prompt |-> c.prompt, images |-> c.images, code |-> imported.code] :
     c \in {d \in PreviewCases : d.commit = files.commit}}

NoKey == [commit |-> 0, adapter |-> 0, blocked |-> {}, drifted |-> {}]
\* every case has its own id and an image; a release commits to something
ASSUME PreviewAssumption ==
  /\ IsFiniteSet(PreviewCases)
  /\ \A c, d \in PreviewCases : c.id \in Int /\ (c.id = d.id => c = d)
  /\ \A c \in PreviewCases : c.images \in Seq(ToSet(c.images)) /\ c.images # <<>>
  /\ 1 \in DOMAIN Releases /\ 0 \notin DOMAIN Releases
  /\ \A i, j \in DOMAIN Releases : CacheKey(Releases[i], Releases[j]) # NoKey

NoIndex == [key |-> NoKey, cases |-> {}]
\* a process without a repository; ledger: the release whose ledger it has read, or 0
NoPreview(imported, ledger) ==
  [pc |-> "idle", key |-> NoKey, cases |-> {}, blocked |-> {}, imported |-> imported, ledger |-> ledger]

PreviewInit ==
  /\ released = 1
  /\ releases = 0
  /\ index = NoIndex
  /\ preview = NoPreview(1, 0)

-----------------------------------------------------------------------------
(* What a repository shows of its cases.                                   *)

Eligible == {c \in preview.cases : c.id \notin preview.blocked}
Prompts == {c.prompt : c \in Eligible}
MembersOf(prompt) == {c \in Eligible : c.prompt = prompt}

\* mutant: a content that is known keeps its first source
AddImageOnce(outputs, c, content) ==
  IF \E i \in DOMAIN outputs : outputs[i].content = content THEN outputs
  ELSE Append(outputs, [content |-> content, sources |-> {c.source}])
\* one output for each content, with every source that has it
AddImage(outputs, c, content) ==
  IF \E i \in DOMAIN outputs : outputs[i].content = content
  THEN [i \in DOMAIN outputs |->
          IF outputs[i].content = content
          THEN [outputs[i] EXCEPT !.sources = @ \cup {c.source}] ELSE outputs[i]]
  ELSE Append(outputs, [content |-> content, sources |-> {c.source}])

\* _group_cases, of one prompt
AddImages(outputs, c) == FoldLeft(LAMBDA found, content : AddImage(found, c, content), outputs, c.images)
ById(found) == {p \in found \X found : p[1].id < p[2].id}
GroupOutputs(prompt) == FoldLeft(AddImages, <<>>, SortedBy(MembersOf(prompt), ById(MembersOf(prompt))))

\* list_cases with a source as its filter, or all of them
Wanted(c, source) == source \in {"all", c.source}
ListedMembers(prompt, source) == {c \in MembersOf(prompt) : Wanted(c, source)}
\* in the order of their places in the group
ListedOutputs(prompt, source) ==
  LET outputs == GroupOutputs(prompt)
  IN {i \in DOMAIN outputs : source = "all" \/ source \in outputs[i].sources}
ListedPrompts(source) ==
  {p \in Prompts : ListedMembers(p, source) # {} /\ ListedOutputs(p, source) # {}}

-----------------------------------------------------------------------------
\* the files are replaced under a process that may be at work
Deploy(release) ==
  /\ releases < MaxReleases
  /\ release # released
  /\ released' = release
  /\ releases' = releases + 1
  /\ UNCHANGED <<index, preview>>

\* the first request hashes the files
BeginPreview ==
  /\ preview.pc = "idle"
  /\ preview' = [preview EXCEPT !.pc = "keyed", !.key = CacheKey(Releases[released], Releases[preview.imported])]
  /\ UNCHANGED <<released, releases, index>>

\* an index that was made under the key is taken as it is
TakeIndex ==
  /\ preview.pc = "keyed"
  /\ index.key = preview.key
  /\ preview' = [preview EXCEPT !.pc = "grouping", !.cases = index.cases]
  /\ UNCHANGED <<released, releases, index>>

\* the sources are those of the registry that was hashed; the contract reads the
\* registry again, and refuses another commit. The index is replaced as a whole.
RebuildIndex ==
  /\ preview.pc = "keyed"
  /\ index.key # preview.key
  /\ Releases[released].commit = preview.key.commit
  /\ LET cases == BuildIndex(Releases[released], Releases[preview.imported]) IN
     /\ index' = [key |-> preview.key, cases |-> cases]
     /\ preview' = [preview EXCEPT !.pc = "grouping", !.cases = cases]
  /\ UNCHANGED <<released, releases>>

\* the ledger is read with the first case, and only once by a process; a decision
\* that does not fit its case, or numbers that are not the approved ones, leave
\* the next request to begin again
Group ==
  LET ledger == IF preview.ledger = 0 THEN released ELSE preview.ledger IN
  /\ preview.pc = "grouping"
  /\ \/ preview' = NoPreview(preview.imported, ledger)
     \/ /\ Releases[ledger].drifted \cap {c.id : c \in preview.cases} = {}
        /\ preview' = [preview EXCEPT !.pc = "serving", !.blocked = Releases[ledger].blocked, !.ledger = ledger]
  /\ UNCHANGED <<released, releases, index>>

\* building raises before the ledger is read: the next request begins again
AbandonPreview ==
  /\ preview.pc \in {"keyed", "grouping"}
  /\ preview' = NoPreview(preview.imported, preview.ledger)
  /\ UNCHANGED <<released, releases, index>>

\* the process ends, and another imports what is there
RestartPreview ==
  /\ preview' = NoPreview(released, 0)
  /\ UNCHANGED <<released, releases, index>>

-----------------------------------------------------------------------------
\* A repository serves cases of one commit made by one code, and a list shows
\* every eligible case its filter wants, in the one group of its prompt, with
\* each of its contents once and no content that only blocked cases, or only
\* cases of other sources, have.
PreviewIsEligible ==
  preview.pc = "serving" =>
    /\ \E i, j \in DOMAIN Releases : preview.cases = BuildIndex(Releases[i], Releases[j])
    /\ \A source \in {"all"} \cup {c.source : c \in preview.cases} :
         /\ {c \in Eligible : Wanted(c, source)} =
              UNION {ListedMembers(p, source) : p \in ListedPrompts(source)}
         /\ \A p \in ListedPrompts(source) :
              LET contents == {GroupOutputs(p)[i].content : i \in ListedOutputs(p, source)}
              IN /\ Cardinality(contents) = Cardinality(ListedOutputs(p, source))
                 /\ contents = UNION {ToSet(c.images) : c \in ListedMembers(p, source)}
=============================================================================
