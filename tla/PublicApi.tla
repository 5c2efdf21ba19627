------------------------------ MODULE PublicApi ------------------------------
(***************************************************************************)
(* What the public reads (apps/api) of the two publications, each a        *)
(* pointer to one of a growing list of frozen versions:                    *)
(*   v1  content/database.py and content/publication.py: one entry for each *)
(*       generation example that passes the gate, by its own rights review *)
(*   v2  content/publication_store_v2.py and content/publication_v2.py: one *)
(*       entry for each publishable candidate that is not taken down       *)
(* A request reads the pointer, then the entries of that version, in two   *)
(* statements outside a transaction; an image of v2 is located by a third  *)
(* one that follows the pointer again. Builds and switches of v2 are one   *)
(* step here: PublicationV2 has their locks and checks.                    *)
(***************************************************************************)
EXTENDS Reviews, Orders

CONSTANTS
  Readers,      \* requests in flight
  CaseOf,       \* CaseOf[v]: number of the source case, in the order of public keys
  HashOf,       \* HashOf[o]: the content of output o
  Examples,     \* generation examples (v1), numbered by row id
  KeyOf,        \* KeyOf[e]: number of its canonical case, in the order of keys
  Lacks,        \* Lacks[e]: gate reasons that its immutable facts give
  AssetsOf,     \* AssetsOf[e]: the contents of its inputs and outputs
  About,        \* About[api][x]: source, tags and references of example x (v1),
                \* of case version x (v2); tags are of its canonical case
  RightsForms,  \* rights reviews of v1 somebody may record
  Asks,         \* requests a reader may make
  Takedowns,    \* takedown scopes: cases <<"case", c>> and contents <<"asset", h>>
  MaxEvents,    \* BOUND: rights reviews of v1
  MaxPublished  \* BOUND: versions of each publication

\* the parameters of a page are declared with a least value
ASSUME AsksAssumption ==
  \A ask \in Asks :
    /\ ask.what \in {"list", "detail", "asset"}
    /\ ask.what = "list" => ask.page \in Nat \ {0} /\ ask.size \in Nat \ {0}
\* a revision has one version of a case
ASSUME PublicAssumption ==
  /\ IsFiniteSet(Examples) /\ Examples \subseteq Int /\ \A e \in Examples : KeyOf[e] \in Int
  /\ IsFiniteSet(Versions) /\ \A v \in Versions : CaseOf[v] \in Int
  /\ \A v, w \in Versions : RevisionOf[v] = RevisionOf[w] /\ CaseOf[v] = CaseOf[w] => v = w

VARIABLES
  events,     \* content.rights_review_events, by id
  blockedKeys, \* canonical cases with a blocked taxonomy assignment
  building,   \* rows _publication_facts has read for the build in progress
  versions1, current1,
  removed,    \* scopes with an effective takedown
  versions2, current2,
  reader      \* each request: what it has read, and its answer

apiVars == <<events, blockedKeys, building, versions1, current1, removed, versions2, current2, reader>>

NotBuilding == [e \in {} |-> 0]
NoAsk == [what |-> "none"]
NoAnswer == [code |-> "none", version |-> 0, cases |-> <<>>, total |-> 0, of |-> 0,
             facets |-> <<>>, members |-> <<>>]
NoReader == [pc |-> "idle", api |-> 1, ask |-> NoAsk, version |-> 0, span |-> {}, answer |-> NoAnswer]

\* recorded: the rights reviews of the time before
ApiInit(recorded) ==
  /\ events = recorded
  /\ blockedKeys = {}
  /\ building = NotBuilding
  /\ versions1 = <<>> /\ current1 = 0
  /\ removed = {}
  /\ versions2 = <<>> /\ current2 = 0
  /\ reader = [r \in Readers |-> NoReader]

-----------------------------------------------------------------------------
(* Publication v1.                                                         *)

\* record_rights_review: appended with the reviewer's own time
RecordRights(e, form, at) ==
  /\ Len(events) < MaxEvents
  /\ at <= clock
  /\ events' = Append(events, [example |-> e, at |-> at, form |-> form])
  /\ UNCHANGED <<blockedKeys, building, versions1, current1, removed, versions2, current2, reader>>

\* the event that counts: newest by reviewed_at, then by id
Effective(e) ==
  LET of == {i \in DOMAIN events : events[i].example = e}
  IN IF of = {} THEN 0
     ELSE CHOOSE i \in of : \A j \in of :
            events[j].at < events[i].at \/ (events[j].at = events[i].at /\ j <= i)

\* record_taxonomy_assignment; assignments are never taken back
BlockKey(k) ==
  /\ blockedKeys' = blockedKeys \cup {k}
  /\ UNCHANGED <<events, building, versions1, current1, removed, versions2, current2, reader>>

\* evaluate_publication_gate
ReviewReasons(i) ==
  IF i = 0 THEN {"rights_review_missing"}
  ELSE LET f == events[i].form
       IN {reason \in {"rights_not_approved", "display_policy_not_public"} :
             \/ reason = "rights_not_approved" /\ {f.prompt, f.asset} # {"approved"}
             \/ reason = "display_policy_not_public" /\ f.policy \notin PublicPolicies}
Gate(e, i) ==
  Lacks[e] \cup ReviewReasons(i) \cup (IF KeyOf[e] \in blockedKeys THEN {"blocked_taxonomy"} ELSE {})

\* one statement reads every example with its review, later ones the taxonomy
BeginBuild1 ==
  /\ building = NotBuilding
  /\ Len(versions1) < MaxPublished
  /\ building' = [e \in Examples |-> Effective(e)]
  /\ UNCHANGED <<events, blockedKeys, versions1, current1, removed, versions2, current2, reader>>

\* make_publication_snapshot: an entry that only links keeps no object locator
Snapshot1(e, i) ==
  [case |-> KeyOf[e], example |-> e, event |-> i,
   located |-> IF events[i].form.policy = "link_only" THEN {} ELSE AssetsOf[e]]
Build1 ==
  /\ building # NotBuilding
  /\ versions1' = Append(versions1,
       {Snapshot1(e, building[e]) : e \in {f \in Examples : Gate(f, building[f]) = {}}})
  /\ building' = NotBuilding
  /\ UNCHANGED <<events, blockedKeys, current1, removed, versions2, current2, reader>>

CasesOf(entries) == {entry.case : entry \in entries}
Entries1(v) == IF v = 0 THEN {} ELSE versions1[v]
Entries2(v) == IF v = 0 THEN {} ELSE versions2[v]
Entries(api, v) == IF api = 1 THEN Entries1(v) ELSE Entries2(v)
Pointer(api) == IF api = 1 THEN current1 ELSE current2

\* a pointer that moves is seen by the requests in flight
Witness(api, v) ==
  reader' = [r \in Readers |->
    IF reader[r].api = api /\ reader[r].pc # "idle"
    THEN [reader[r] EXCEPT !.span = @ \cup {v}] ELSE reader[r]]

Switch1(v) ==
  /\ v \in DOMAIN versions1 \ {current1}
  /\ CasesOf(Entries1(current1)) \subseteq CasesOf(Entries1(v))
  /\ current1' = v
  /\ Witness(1, v)
  /\ UNCHANGED <<events, blockedKeys, building, versions1, removed, versions2, current2>>

-----------------------------------------------------------------------------
(* Publication v2.                                                         *)

Contents(entry) == {HashOf[o] : o \in entry.shown}
RemovedContent(o) == <<"asset", HashOf[o]>> \in removed
Primary(batch) == CHOOSE o \in DOMAIN batches[batch].form.decisions :
                    batches[batch].form.decisions[o].role = "public_primary"

\* a removed gallery image is redacted, a removed primary takes the case along
BroadScopes(v) == {<<"source", About[2][v].source>>, <<"case", CaseOf[v]>>}
Includes(v) ==
  LET c == Candidate(v)
  IN /\ InQueue(v)
     /\ c.state = "publishable"
     /\ BroadScopes(v) \cap removed = {}
     /\ ~RemovedContent(Primary(c.batch))
Freeze(v) ==
  [case |-> CaseOf[v], version |-> v, batch |-> Candidate(v).batch,
   shown |-> {o \in Candidate(v).shown : ~RemovedContent(o)}]

Build2 ==
  /\ Len(versions2) < MaxPublished
  /\ \A v \in Versions : InQueue(v) => FactsVerdict(v) # "drifted"
  /\ versions2' = Append(versions2, {Freeze(v) : v \in {w \in Versions : Includes(w)}})
  /\ UNCHANGED <<events, blockedKeys, building, versions1, current1, removed, current2, reader>>

Unsafe(entry) ==
  BroadScopes(entry.version) \cap removed # {} \/ \E o \in entry.shown : RemovedContent(o)
LossAllowed(entry) ==
  BroadScopes(entry.version) \cap removed # {} \/ RemovedContent(Primary(entry.batch))

\* activation, or rollback, which is not asked about loss
Switch2(v, rollback) ==
  /\ v \in DOMAIN versions2 \ {current2}
  /\ \A e \in versions2[v] :
       InQueue(e.version) /\ ~Unsafe(e) /\ e.batch = Latest(e.version)
  /\ rollback \/ \A e \in Entries2(current2) :
                   e.case \in CasesOf(versions2[v]) \/ LossAllowed(e)
  /\ current2' = v
  /\ Witness(2, v)
  /\ UNCHANGED <<events, blockedKeys, building, versions1, current1, removed, versions2>>

\* the pointer does not move: it takes another version to make it public
TakeDown(scope) ==
  /\ removed' = removed \cup {scope}
  /\ UNCHANGED <<events, blockedKeys, building, versions1, current1, versions2, current2, reader>>

-----------------------------------------------------------------------------
(* Requests.                                                               *)

Reading(r, pc) == reader[r].pc = pc
Finish(r, answer) == reader' = [reader EXCEPT ![r] = [@ EXCEPT !.pc = "answered", !.answer = answer]]
Untouched == UNCHANGED <<events, blockedKeys, building, versions1, current1, removed, versions2, current2>>
Say(code) == [NoAnswer EXCEPT !.code = code]

\* the statement that joins the pointer and its active version
ReadPointer(r, api, ask) ==
  /\ reader[r].pc \in {"idle", "answered"}
  /\ reader' = [reader EXCEPT ![r] =
       [NoReader EXCEPT !.pc = "pointed", !.api = api, !.ask = ask,
                        !.version = Pointer(api), !.span = {Pointer(api)}]]
  /\ Untouched

\* mutant: the entries are read through the pointer
EntriesReadByPointer(r) == Entries(reader[r].api, Pointer(reader[r].api))
EntriesRead(r) == Entries(reader[r].api, reader[r].version)

\* the policies and contents under which an entry of each publication shows
Decision(entry, o) == batches[entry.batch].form.decisions[o]
PoliciesOf(api, entry) ==
  IF api = 1 THEN {events[entry.event].form.policy}
  ELSE {Decision(entry, o).policy : o \in entry.shown}
MirrorPolicies == {"mirror_allowed", "attribution_required"}

\* mutant: an image of a case that is only linked is delivered
DeliverableOfPublicPolicy(api, entry) ==
  IF api = 1 THEN AssetsOf[entry.example] ELSE Contents(entry)
\* v1 decides by entry, v2 by image
Deliverable(api, entry) ==
  IF api = 1
  THEN IF events[entry.event].form.policy \in MirrorPolicies THEN AssetsOf[entry.example] ELSE {}
  ELSE {HashOf[o] : o \in {p \in entry.shown : Decision(entry, p).policy \in MirrorPolicies}}

\* _validate_entry of v2 freezes the entry again and compares; v1 asks for the
\* fields it projects, which the gate has asked for
Readable(api, entry) ==
  api = 2 =>
    /\ batches[entry.batch].form.prompt = "approved"
    /\ Cardinality({o \in entry.shown : Decision(entry, o).role = "public_primary"}) = 1
    /\ \A o \in entry.shown :
         Decision(entry, o).rights = "approved" /\ Decision(entry, o).policy \in PublicPolicies

\* the values a case shows under; v1 has one policy for each member, v2 one for
\* each image, and a case has references if any of its members has inputs
AboutEntry(api, e) == About[api][IF api = 1 THEN e.example ELSE e.version]
MembersOf1(entries, c) ==
  LET members == {e \in entries : e.case = c}
  IN SortedBy(members, {p \in members \X members : p[1].example < p[2].example})
FacetsOf(api, entries, c) ==
  LET members == {e \in entries : e.case = c}
      referring == \E e \in members : AboutEntry(api, e).references # {}
  IN (UNION {{<<"source", AboutEntry(api, e).source>>}
              \cup {<<"policy", policy>> : policy \in PoliciesOf(api, e)}
              \cup {<<"tag", tag>> : tag \in AboutEntry(api, e).tags} : e \in members})
     \cup {<<"references", IF referring THEN "with" ELSE "without">>}

\* _matches: a filter is a value of each kind the request names
Matching(api, entries, filter) == {c \in CasesOf(entries) : filter \subseteq FacetsOf(api, entries, c)}
\* _facets: how many of the cases show each value
Facets(api, entries, cases) ==
  [value \in UNION {FacetsOf(api, entries, c) : c \in cases} |->
     Cardinality({c \in cases : value \in FacetsOf(api, entries, c)})]

\* mutant: a page begins with the last case of the page before
PageOverlapping(cases, ask) ==
  LET ordered == Ascending(cases)
      first == IF ask.page = 1 THEN 1 ELSE (ask.page - 1) * ask.size
      last == ask.page * ask.size
  IN SubSeq(ordered, first, IF last < Len(ordered) THEN last ELSE Len(ordered))
\* the page is cut out of the order of keys
Page(cases, ask) ==
  LET ordered == Ascending(cases)
      first == (ask.page - 1) * ask.size + 1
      last == IF ask.page * ask.size < Len(ordered) THEN ask.page * ask.size ELSE Len(ordered)
  IN SubSeq(ordered, first, last)

\* list_cases: v1 counts the values of the cases that match
List1(entries, ask) ==
  LET cases == Matching(1, entries, ask.filter)
  IN [Say("ok") EXCEPT !.cases = Page(cases, ask), !.total = Cardinality(cases),
                       !.facets = Facets(1, entries, cases)]
\* and v2 those of all cases of the version
List2(entries, ask) ==
  LET cases == Matching(2, entries, ask.filter)
  IN [Say("ok") EXCEPT !.cases = Page(cases, ask), !.total = Cardinality(cases),
                       !.facets = Facets(2, entries, CasesOf(entries))]

\* _member and _case: what a reader sees of an entry, without its locators
Member1(entry) ==
  [example |-> entry.example, rights |-> events[entry.event].form, images |-> AssetsOf[entry.example]]
Case2(entry) ==
  [version |-> entry.version,
   images |-> [o \in entry.shown |-> [content |-> HashOf[o], policy |-> Decision(entry, o).policy]],
   hidden |-> DOMAIN batches[entry.batch].form.decisions \ entry.shown]
Detail(api, entries, c) ==
  IF api = 1 THEN LET members == MembersOf1(entries, c) IN [i \in DOMAIN members |-> Member1(members[i])]
  ELSE <<Case2(CHOOSE e \in entries : e.case = c)>>

\* _publication_response: of is the number of cases of the version
AnswerFrom(api, v, entries, ask) ==
  LET answer == CASE ask.what = "list" -> IF api = 1 THEN List1(entries, ask) ELSE List2(entries, ask)
                  [] ask.what = "detail" ->
                       IF ask.case \in CasesOf(entries)
                       THEN [Say("ok") EXCEPT !.cases = <<ask.case>>, !.total = 1,
                                              !.members = Detail(api, entries, ask.case)]
                       ELSE Say("not_found")
  IN IF answer.code = "ok" THEN [answer EXCEPT !.version = v, !.of = Cardinality(CasesOf(entries))] ELSE answer

Project(r) ==
  /\ Reading(r, "pointed")
  /\ reader[r].ask.what # "asset"
  /\ LET entries == EntriesRead(r)
     IN Finish(r, IF reader[r].version = 0 /\ reader[r].ask.what = "list" THEN Say("no_current")
                  ELSE IF \E e \in entries : ~Readable(reader[r].api, e) THEN Say("unavailable")
                  ELSE AnswerFrom(reader[r].api, reader[r].version, entries, reader[r].ask))
  /\ Untouched

\* locate_current_asset of v1 decides on what it has read
Locate1(r) ==
  /\ Reading(r, "pointed") /\ reader[r].api = 1
  /\ reader[r].ask.what = "asset"
  /\ LET content == reader[r].ask.content
         offering == {e \in EntriesRead(r) : content \in Deliverable(1, e)}
     IN IF offering = {} THEN Finish(r, Say("not_found"))
        ELSE IF \E e \in offering : content \notin e.located THEN Finish(r, Say("unavailable"))
        ELSE reader' = [reader EXCEPT ![r] = [@ EXCEPT !.pc = "located"]]
  /\ Untouched

\* v2 has only checked what it has read, and asks for the image of the version
\* of this moment
Locate2(r) ==
  /\ Reading(r, "pointed") /\ reader[r].api = 2
  /\ reader[r].ask.what = "asset"
  /\ IF \E e \in EntriesRead(r) : ~Readable(2, e) THEN Finish(r, Say("unavailable"))
     ELSE IF \E e \in Entries2(current2) : reader[r].ask.content \in Deliverable(2, e)
     THEN reader' = [reader EXCEPT ![r] = [@ EXCEPT !.pc = "located", !.version = current2]]
     ELSE Finish(r, Say("not_found"))
  /\ Untouched

\* S3AssetStore.read compares length, type and hash before it answers
Fetch(r) ==
  /\ Reading(r, "located")
  /\ \/ Finish(r, [Say("ok") EXCEPT !.version = reader[r].version, !.total = 1])
     \/ \E code \in {"integrity_failed", "asset_unavailable"} : Finish(r, Say(code))
  /\ Untouched

-----------------------------------------------------------------------------
\* Every answer is of one version, and one that was public at some moment of the
\* request: an image is in that version, a count of the list is the total of the
\* list narrowed to it, and "not found" was true of such a version too. A version
\* that was built is never one the reader refuses.
CountsOf(api, v, ask, a) ==
  LET entries == Entries(api, v)
  IN /\ \A value \in DOMAIN a.facets :
          a.facets[value] =
            Cardinality(Matching(api, entries, {value} \cup (IF api = 1 THEN ask.filter ELSE {})))
     /\ ask.filter = {} => a.total = Cardinality(CasesOf(entries))
AnswersAreCurrent ==
  \A r \in Readers : LET q == reader[r]  a == reader[r].answer IN
    /\ a.code # "unavailable"
    /\ a.code = "ok" => a.version \in q.span
    /\ a.code = "ok" /\ q.ask.what = "asset" =>
         \E e \in Entries(q.api, a.version) :
           q.ask.content \in IF q.api = 1 THEN AssetsOf[e.example] ELSE Contents(e)
    /\ a.code = "ok" /\ q.ask.what = "list" => CountsOf(q.api, a.version, q.ask, a)
    /\ a.code = "not_found" /\ q.ask.what = "detail" =>
         \E v \in q.span : q.ask.case \notin CasesOf(Entries(q.api, v))

\* A page is cut out of the cases of its version where the pages before it end, and
\* a detail has every member of its case.
PagesAreWhole ==
  \A r \in Readers : LET q == reader[r]  a == reader[r].answer IN
    a.code = "ok" =>
      LET entries == Entries(q.api, a.version)
          listed == {a.cases[i] : i \in DOMAIN a.cases}
          before == {c \in CasesOf(entries) : \E d \in listed : c < d}
      IN /\ q.ask.what = "detail" =>
              LET members == {e \in entries : e.case = q.ask.case}
              IN Len(a.members) = Cardinality(members) /\ members # {}
         /\ q.ask.what = "list" =>
              /\ listed \subseteq CasesOf(entries)
              /\ q.ask.filter = {} /\ listed # {} =>
                   Cardinality(before \ listed) = (q.ask.page - 1) * q.ask.size

\* What the public gets was approved by the review it was built from: the
\* prompt, each image it shows and its one primary; and bytes are delivered
\* only of an image whose own decision allows a copy.
ApprovedEntry1(e) ==
  LET f == events[e.event].form
  IN f.prompt = "approved" /\ f.asset = "approved" /\ f.policy \in PublicPolicies
ApprovedEntry2(e) ==
  LET form == batches[e.batch].form
  IN /\ form.prompt = "approved"
     /\ Cardinality(e.shown \cap Chosen(form, "public_primary")) = 1
     /\ \A o \in e.shown : form.decisions[o].rights = "approved"
CopyAllowed(api, e, content) ==
  IF api = 1 THEN content \in AssetsOf[e.example] /\ events[e.event].form.policy # "link_only"
  ELSE \E o \in e.shown : HashOf[o] = content /\ Decision(e, o).policy # "link_only"
ServedIsApproved ==
  \A r \in Readers : reader[r].answer.code = "ok" =>
    LET q == reader[r]  served == Entries(q.api, q.answer.version)
    IN /\ \A e \in served : IF q.api = 1 THEN ApprovedEntry1(e) ELSE ApprovedEntry2(e)
       /\ q.ask.what = "asset" => \E e \in served : CopyAllowed(q.api, e, q.ask.content)
=============================================================================
