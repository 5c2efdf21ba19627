---------------------------- MODULE Extraction ----------------------------
(***************************************************************************)
(* What an extraction makes of a checked out tree. The adapter of the      *)
(* source reads its manifest and its files (ingestion/adapters), every     *)
(* image is read (ingestion/assets.py), the documents are built and held   *)
(* against the content contract (ingestion/contracts.py and the semantic   *)
(* checks it loads from scripts/validate_content_contracts.py), and the    *)
(* package is turned into an import plan (inventory/package.py). Each      *)
(* stage either hands its result on or ends the call; a source is taken as *)
(* a whole or not at all.                                                  *)
(*                                                                         *)
(* Case keys are numbers in the order of their texts. A path is            *)
(* <<directory, number, name>>. A file is an image with its bytes, a text  *)
(* with the fields an adapter compares, or a symbolic link. Texts are      *)
(* Unicode texts: half a surrogate pair, which JSON can escape and UTF-8   *)
(* cannot encode, is left out.                                             *)
(***************************************************************************)
EXTENDS Integers, SequencesExt, Orders

CONSTANTS
  Trees,       \* the trees that are looked at, each with the strategy of its source
  Audits(_),   \* the audit records a tree may be held against
  Orphans,     \* gallery files the adapters know to belong to no case
  Registered   \* the revision the registry names

\* the fields of its document that a reader asks for
Asked ==
  [g0dam |-> {"rows", "count"}, joesai |-> {"rows"}, freestylefly |-> {"rows", "count"}, erickkkyt |-> {"rows"},
   conardli |-> {"cases", "categories", "templates", "summary", "mapping", "mapped"}, vigozhao |-> {},
   chaosrealms |-> {"rows", "admission"}]
IsList(s) == s \in Seq(Range(s))
\* the JSON documents have the fields, the lists and the numbers their readers ask for
Shaped(t) ==
  LET rows == IF t.strategy = "conardli" THEN t.doc.cases ELSE t.doc.rows IN
  /\ DOMAIN t = {"strategy", "doc", "files"} /\ t.strategy \in DOMAIN Asked
  /\ Asked[t.strategy] \subseteq DOMAIN t.doc
  /\ IF t.strategy = "vigozhao"
     THEN IsFiniteSet(DOMAIN t.files) /\ \A p \in DOMAIN t.files : p[2] \in Nat
     ELSE IsList(rows) /\ \A r \in Range(rows) : r.id \in Nat
  /\ t.strategy = "erickkkyt" =>
       \A r \in Range(rows) :
         /\ {"id", "index", "prompt", "images", "pairs", "dims", "languages"} \subseteq DOMAIN r
         /\ IsList(r.images) /\ IsList(r.pairs) /\ IsList(r.languages)
  /\ t.strategy = "chaosrealms" => IsList(t.doc.admission.admitted)
ASSUME TreesAssumption == \A t \in Trees : Shaped(t)

Unsafe == <<"..", 0, "">>
Data(t) == <<"data", 0, t.strategy>>

VARIABLES
  tree,       \* the snapshot
  audit,      \* the audit record of the source
  stage,      \* the next step of the call
  parsed,     \* ParsedCase of every case
  output,     \* the adapter output: records with resolved references
  examples,   \* one Generation Example document of each record
  plan,       \* asset sources, source files and metrics
  answer      \* planned, refused or escaped, once the call has ended

vars == <<tree, audit, stage, parsed, output, examples, plan, answer>>

-----------------------------------------------------------------------------
(* Texts and files.                                                        *)

\* characters of a prompt that are not white space
Size == [blank |-> 0, word |-> 4, short |-> 20, long |-> 80, longCRLF |-> 80, other |-> 90]

\* the identity of a prompt ignores how its lines end
normalize_prompt(p) == IF p = "longCRLF" THEN "long" ELSE p

\* texts are read with every line end as LF
read_snapshot_text(t, p) == normalize_prompt(t.files[p].text)

snapshot_file(t, p) == p \in DOMAIN t.files /\ t.files[p].kind # "link"
Under(t, d) == {p \in DOMAIN t.files : p[1] = d}
Known(d) == {p \in Orphans : p[1] = d}
regular_relative_files(t, d) == \A p \in Under(t, d) : snapshot_file(t, p)

\* an image that is no HTML page and larger than 512 bytes
read_asset(t, p) == snapshot_file(t, p) /\ t.files[p].kind = "image"

Column(rows, f) == [i \in DOMAIN rows |-> rows[i][f]]

\* adapters and the adapter output sort by case key
ByKeyUnsorted(cases) == cases
ByKey(cases) == SortedByRank(cases, Column(cases, "key"))

\* what a case copies of its row and the adapter did not look at: most ask of
\* each tag that it is no white space, and copy no parameters and no position
Copied(tags, parameters, position) == [tags |-> tags, parameters |-> parameters, position |-> position]
NothingCopied == Copied({}, "none", 0)

\* one output image, referred to as output-primary
OneOutput(key, prompt, path, evidence) ==
  [key |-> key, prompt |-> prompt, refs |-> <<[id |-> 1, path |-> path]>>, evidence |-> evidence \cup {path},
   copied |-> NothingCopied]

-----------------------------------------------------------------------------
(* The adapters: what each accepts, and the cases it makes of it.          *)

\* rows before the one at i use other ids, and the prompt is long enough
G0damRow(rows, i) ==
  /\ \A j \in 1..(i - 1) : rows[j].id # rows[i].id
  /\ Size[rows[i].prompt] >= 80

\* the path check raises RegistryError, which is no AdapterError: the first bad
\* path escapes every handler of the extraction
G0damEscapes(t) ==
  LET rows == t.doc.rows IN
  /\ t.doc.count = Len(rows)
  /\ \E i \in DOMAIN rows :
       /\ rows[i].image = Unsafe
       /\ G0damRow(rows, i)
       /\ \A j \in 1..(i - 1) : G0damRow(rows, j) /\ rows[j].image # Unsafe

G0damAccepts(t) ==
  LET rows == t.doc.rows IN
  /\ t.doc.count = Len(rows)
  /\ \A i \in DOMAIN rows : G0damRow(rows, i) /\ rows[i].image # Unsafe

G0damCases(t) ==
  [i \in DOMAIN t.doc.rows |->
     LET r == t.doc.rows[i] IN OneOutput(r.id, r.prompt, r.image, {Data(t)})]

Page(r) == <<"prompts", r.id, "page">>
README == <<"prompts", 0, "README">>

\* mutant: a slug may occur twice
JoeSaiManifestOnce(rows) == rows # <<>> /\ IsInjective(Column(rows, "image"))

JoeSaiManifest(rows) ==
  rows # <<>> /\ IsInjective(Column(rows, "id")) /\ IsInjective(Column(rows, "image"))

JoeSaiFiles(t, rows) ==
  /\ \A d \in {"prompts", "examples"} : regular_relative_files(t, d)
  /\ Under(t, "prompts") = {Page(r) : r \in Range(rows)} \cup {README}
  /\ Under(t, "examples") = {r.image : r \in Range(rows)}

\* a title, Best For, one fenced prompt in each language, and at most one more section
JoeSaiPage(t, r) ==
  LET page == t.files[Page(r)] IN
  /\ page.title = r.title
  /\ page.sections \in {<<"best", "en", "zh">>, <<"best", "en", "zh", "why">>}
  /\ Size[page.text] >= 80

JoeSaiAccepts(t) ==
  /\ JoeSaiManifest(t.doc.rows)
  /\ JoeSaiFiles(t, t.doc.rows)
  /\ \A r \in Range(t.doc.rows) : JoeSaiPage(t, r)

JoeSaiCases(t) ==
  [i \in DOMAIN t.doc.rows |->
     LET r == t.doc.rows[i]
     IN  OneOutput(r.id, read_snapshot_text(t, Page(r)), r.image, {Data(t), Page(r)})]

\* a case is template/idx, a template is in one category
Native(c) == 10 * c.template + c.idx
CasePath(id, name) == <<"case", id, name>>
CountOf(cases, k) == Cardinality({i \in DOMAIN cases : cases[i].template = k})

ConardLiTemplates(templates, category) == {k \in DOMAIN templates : templates[k].category = category}
ConardLiTotal(templates, category) ==
  FoldSet(LAMBDA k, n : n + templates[k].count, 0, ConardLiTemplates(templates, category))

ConardLiCategories(d) ==
  \A c \in DOMAIN d.categories :
    LET category == d.categories[c] IN
    /\ IsInjective(category.templates)
    /\ Range(category.templates) = ConardLiTemplates(d.templates, c)
    /\ category.total = ConardLiTotal(d.templates, c)
    /\ category.ready = category.total

\* prompts are compared as the files have them
ConardLiRows(t, d) ==
  /\ d.cases # <<>>
  /\ IsInjective(Column(d.cases, "id"))
  /\ \A c \in Range(d.cases) :
       /\ c.template \in DOMAIN d.templates
       /\ d.templates[c.template].category = c.category
       /\ c.id = Native(c)
       /\ Size[c.prompt] > 0
       /\ \A name \in {"txt", "png", "thumb"} : snapshot_file(t, CasePath(c.id, name))
       /\ read_snapshot_text(t, CasePath(c.id, "txt")) = c.prompt
  /\ \A k \in DOMAIN d.templates : CountOf(d.cases, k) = d.templates[k].count
  /\ d.summary = <<Cardinality(DOMAIN d.templates), Len(d.cases)>>

\* the second index of the gallery names the same templates and cases, each once
ConardLiMapping(d) ==
  LET mapped == UNION {{Native([template |-> m.template, idx |-> x]) : x \in Range(m.cases)} : m \in Range(d.mapping)}
  IN  /\ d.mapped = d.summary
      /\ IsInjective(Column(d.mapping, "template"))
      /\ Range(Column(d.mapping, "template")) = DOMAIN d.templates
      /\ \A m \in Range(d.mapping) : IsInjective(m.cases) /\ Len(m.cases) = d.templates[m.template].count
      /\ mapped = Range(Column(d.cases, "id"))

ConardLiFiles(t, d) ==
  /\ regular_relative_files(t, "case")
  /\ Under(t, "case") = {CasePath(0, "mapping"), CasePath(0, "INDEX")} \cup
       {CasePath(c.id, name) : c \in Range(d.cases), name \in {"txt", "png", "thumb"}}

ConardLiAccepts(t) ==
  ConardLiCategories(t.doc) /\ ConardLiRows(t, t.doc) /\ ConardLiMapping(t.doc) /\ ConardLiFiles(t, t.doc)

ConardLiCases(t) ==
  [i \in DOMAIN t.doc.cases |->
     LET c == t.doc.cases[i]
     IN  OneOutput(c.id, c.prompt, CasePath(c.id, "png"), {Data(t), CasePath(0, "mapping"), CasePath(c.id, "txt")})]

\* images are named after the case, and all but the known orphans are taken
FreestyleflyAccepts(t) ==
  LET rows == t.doc.rows
      images == {p \in Under(t, "images") : p[2] # 0}
      expected == {r.image : r \in Range(rows)}
  IN  /\ rows # <<>> /\ t.doc.count = Len(rows)
      /\ IsInjective(Column(rows, "id"))
      /\ \A r \in Range(rows) :
           /\ Size[r.prompt] >= 8
           /\ r.image[1] = "images" /\ r.image[2] = r.id
           /\ snapshot_file(t, r.image)
      /\ regular_relative_files(t, "images")
      /\ images \ expected = Known("images")

FreestyleflyCases(t) ==
  [i \in DOMAIN t.doc.rows |->
     LET r == t.doc.rows[i] IN OneOutput(r.id, r.prompt, r.image, {Data(t)})]

\* every row lists its images, their pair ids and their dimensions in parallel;
\* a language is only asked not to be empty
ErickkkytRow(t, r, position) ==
  /\ r.index = position
  /\ Size[r.prompt] >= 8
  /\ r.images # <<>>
  /\ Len(r.pairs) = Len(r.images) /\ r.dims = r.images
  /\ r.languages # <<>> /\ "" \notin Range(r.languages)
  /\ \A p \in Range(r.images) : snapshot_file(t, p)

\* mutant: images are only unique within their record
UniqueInRow(rows) ==
  \A r \in Range(rows) : IsInjective(r.images) /\ IsInjective(r.pairs)

\* images and pair ids are unique over all records
Unrepeated(rows, f) ==
  \A i, j \in DOMAIN rows : \A m \in DOMAIN rows[i][f], n \in DOMAIN rows[j][f] :
    rows[i][f][m] = rows[j][f][n] => i = j /\ m = n
UniqueInSource(rows) == Unrepeated(rows, "images") /\ Unrepeated(rows, "pairs")

ErickkkytAccepts(t) ==
  LET rows == t.doc.rows
      seen == UNION {Range(r.images) : r \in Range(rows)}
  IN  /\ rows # <<>>
      /\ IsInjective(Column(rows, "id"))
      /\ \A i \in DOMAIN rows : ErickkkytRow(t, rows[i], i)
      /\ UniqueInSource(rows)
      /\ regular_relative_files(t, "assets")
      /\ Under(t, "assets") \ seen = Known("assets")
      /\ seen \subseteq Under(t, "assets")

\* the references keep the order of the images; the languages become tags, and
\* the extensions keep the fields of the row, its position among them
ErickkkytCases(t) ==
  [i \in DOMAIN t.doc.rows |->
     LET r == t.doc.rows[i] IN
     [key |-> r.id, prompt |-> r.prompt,
      refs |-> [n \in DOMAIN r.images |-> [id |-> r.pairs[n], path |-> r.images[n]]],
      evidence |-> {Data(t)} \cup Range(r.images),
      copied |-> Copied(Range(r.languages), "none", r.index)]]

StylePath(s, name) == <<"styles", s, name>>
Previews == <<"preview-16x9", "preview-9x16">>

\* a style is a directory with exactly these three files
VigoZhaoAccepts(t) ==
  LET styles == {p[2] : p \in Under(t, "styles")} \ {0} IN
  /\ regular_relative_files(t, "styles")
  /\ Under(t, "styles") # {}
  /\ Under(t, "styles") = {StylePath(s, n) : s \in styles, n \in {"style"} \cup Range(Previews)}
  /\ \A s \in styles : t.files[StylePath(s, "style")].slug = s /\ Size[t.files[StylePath(s, "style")].text] >= 80

VigoZhaoCases(t) ==
  LET Style(s) == [key |-> s, prompt |-> t.files[StylePath(s, "style")].text,
                   refs |-> [n \in DOMAIN Previews |-> [id |-> n, path |-> StylePath(s, Previews[n])]],
                   evidence |-> {StylePath(s, n) : n \in {"style"} \cup Range(Previews)},
                   copied |-> NothingCopied]
      styles == Ascending({p[2] : p \in Under(t, "styles")})
  IN  [i \in DOMAIN styles |-> Style(styles[i])]

\* a case id is topic/.../image
Topic(id) == id \div 10
ImageOf(id) == id % 10
Variants == <<"1024", "512", "full">>
WorkPath(d, name) == <<"works", d, name>>

Increasing(s) == \A i, j \in DOMAIN s : i < j => s[i] < s[j]

\* the reviewed list of admitted and excluded cases closes
ChaosAdmission(a) ==
  LET excluded == {e[1] : e \in Range(a.exclusions)} IN
  /\ a.admitted # <<>> /\ Increasing(a.admitted)
  /\ \A i, j \in DOMAIN a.exclusions : i < j =>
       \/ a.exclusions[i][1] < a.exclusions[j][1]
       \/ a.exclusions[i][1] = a.exclusions[j][1] /\ a.exclusions[i][2] < a.exclusions[j][2]
  /\ Range(a.admitted) \cap excluded = {}
  /\ a.counts = <<Len(a.admitted), Cardinality(excluded), Len(a.admitted) + Cardinality(excluded)>>

\* the metadata file an index row names decides the directory
ChaosCase(t, r) ==
  LET meta == t.files[r.meta]
      d == r.meta[2]
  IN  /\ snapshot_file(t, r.meta) /\ meta.kind = "text"
      /\ meta.slug = ImageOf(r.id) /\ r.topic = Topic(r.id)
      /\ Size[meta.text] >= 80
      /\ \A p \in Under(t, "works") : p[2] = d => snapshot_file(t, p)
      /\ {p \in Under(t, "works") : p[2] = d} = {r.meta} \cup {WorkPath(d, n) : n \in Range(Variants)}

ChaosAccepts(t) ==
  LET a == t.doc.admission
      rows == t.doc.rows
  IN  /\ ChaosAdmission(a)
      /\ IsInjective(Column(rows, "id"))
      /\ Range(Column(rows, "id")) = Range(a.admitted) \cup {e[1] : e \in Range(a.exclusions)}
      /\ \A r \in Range(rows) : r.id \in Range(a.admitted) => ChaosCase(t, r)

\* the admitted rows only, in the order of the admission; the aspect ratio is
\* whatever JSON the metadata holds
ChaosCases(t) ==
  [i \in DOMAIN t.doc.admission.admitted |->
     LET r == CHOOSE x \in Range(t.doc.rows) : x.id = t.doc.admission.admitted[i]
         d == r.meta[2]
     IN  [key |-> r.id, prompt |-> t.files[r.meta].text,
          refs |-> [n \in DOMAIN Variants |-> [id |-> n, path |-> WorkPath(d, Variants[n])]],
          evidence |-> {r.meta} \cup {WorkPath(d, n) : n \in Range(Variants)},
          copied |-> Copied({}, t.files[r.meta].ratio, 0)]]

Accepts(t) ==
  \/ t.strategy = "g0dam" /\ G0damAccepts(t)
  \/ t.strategy = "joesai" /\ JoeSaiAccepts(t)
  \/ t.strategy = "conardli" /\ ConardLiAccepts(t)
  \/ t.strategy = "freestylefly" /\ FreestyleflyAccepts(t)
  \/ t.strategy = "erickkkyt" /\ ErickkkytAccepts(t)
  \/ t.strategy = "vigozhao" /\ VigoZhaoAccepts(t)
  \/ t.strategy = "chaosrealms" /\ ChaosAccepts(t)

Listed(t) ==
  CASE t.strategy = "g0dam" -> G0damCases(t)
    [] t.strategy = "joesai" -> JoeSaiCases(t)
    [] t.strategy = "conardli" -> ConardLiCases(t)
    [] t.strategy = "freestylefly" -> FreestyleflyCases(t)
    [] t.strategy = "erickkkyt" -> ErickkkytCases(t)
    [] t.strategy = "vigozhao" -> VigoZhaoCases(t)
    [] t.strategy = "chaosrealms" -> ChaosCases(t)
Cases(t) == ByKey(Listed(t))

Escapes(t) == t.strategy = "g0dam" /\ G0damEscapes(t)

-----------------------------------------------------------------------------
(* The documents and their contract.                                       *)

Resolved(t, c) ==
  [key |-> c.key, prompt |-> c.prompt, evidence |-> c.evidence, copied |-> c.copied,
   refs |-> [n \in DOMAIN c.refs |->
               [id |-> c.refs[n].id, path |-> c.refs[n].path, hash |-> t.files[c.refs[n].path].bytes]]]

resolved_adapter_output(t, cases) == ByKey([i \in DOMAIN cases |-> Resolved(t, cases[i])])

\* no case shows one image twice
DistinctOutputs(r) == IsInjective(Column(r.refs, "hash"))

\* BOUND: ids below 100. The rank of a number among texts: 1, 10, 11, 2
AsText(n) == IF n < 10 THEN 100 * n ELSE 10 * n + 1

\* references are in the order of their ids, which are texts
InTextOrder(refs) ==
  \A i, j \in DOMAIN refs : i < j => AsText(refs[i].id) < AsText(refs[j].id)

\* the audit record is active and names the revision the registry names
source_binding(a) == a.active /\ a.revision = Registered

\* no key of the claim is one of the fields that decide something downstream
extension_and_boundary(parameters) == parameters # "decision"

validate_adapter_semantics(a, records) ==
  /\ source_binding(a)
  /\ \A r \in Range(records) : extension_and_boundary(r.copied.parameters)
  /\ \A i, j \in DOMAIN records : i < j => records[i].key < records[j].key
  /\ \A r \in Range(records) : normalize_prompt(r.prompt) # "blank" /\ r.refs # <<>> /\ InTextOrder(r.refs)

\* of what the JSON schema asks, the adapters leave one thing open: a tag holds
\* more than white space
adapter_schema(records) == \A r \in Range(records) : "blank" \notin r.copied.tags

validate_adapter_output(a, records) == adapter_schema(records) /\ validate_adapter_semantics(a, records)

\* every reference becomes an asset, known by its content, and a generation; the
\* extensions of the source are handed on
generation_example_for(r) ==
  [key |-> r.key, prompt |-> normalize_prompt(r.prompt),
   assets |-> {[hash |-> x.hash, path |-> x.path] : x \in Range(r.refs)},
   generations |-> {[id |-> x.id, output |-> x.hash] : x \in Range(r.refs)},
   parameters |-> r.copied.parameters, position |-> r.copied.position]

\* one asset of each content, used by one generation
validate_generation_semantics(a, e) ==
  /\ source_binding(a) /\ extension_and_boundary(e.parameters)
  /\ \A x, y \in e.assets : x.hash = y.hash => x = y
  /\ \A g, h \in e.generations : g.id = h.id => g = h
  /\ \A x \in e.assets : Cardinality({g \in e.generations : g.output = x.hash}) = 1

\* what makes two cases the same one
Signature(r) == <<normalize_prompt(r.prompt), Column(r.refs, "hash")>>

Fingerprint(records) == {<<r.key, Signature(r)>> : r \in Range(records)}

Generations(documents) == FoldSeq(LAMBDA e, n : n + Cardinality(e.generations), 0, documents)

extraction_metrics(records, documents) ==
  LET unique == Cardinality({Signature(r) : r \in Range(records)}) IN
  [cases |-> Len(records), unique |-> unique, duplicates |-> Len(records) - unique,
   generations |-> Generations(documents),
   fingerprint |-> Fingerprint(records)]

\* mutant: one source of each content in the package
AssetSourcesByContent(records, documents) ==
  LET Source(hash) == CHOOSE s \in {[case |-> r.key, ref |-> x.id, path |-> x.path, hash |-> x.hash] :
                                      r \in Range(records), x \in UNION {Range(q.refs) : q \in Range(records)}} :
                        s.hash = hash
  IN  {Source(a.hash) : a \in UNION {e.assets : e \in Range(documents)}}

\* each output of a document is looked up by content among its record's references
AssetSources(records, documents) ==
  LET Of(e) == CHOOSE r \in Range(records) : r.key = e.key
      Ref(e, g) == CHOOSE x \in Range(Of(e).refs) : x.hash = g.output
  IN  UNION {{[case |-> e.key, ref |-> Ref(e, g).id, path |-> Ref(e, g).path, hash |-> g.output] :
                g \in e.generations} : e \in Range(documents)}

SourceFiles(records, sources) ==
  (UNION {r.evidence : r \in Range(records)}) \cup {s.path : s \in sources}

-----------------------------------------------------------------------------
(* One call.                                                               *)

Nothing == [sources |-> {}, files |-> {}, metrics |-> [cases |-> 0, unique |-> 0, duplicates |-> 0, generations |-> 0,
                         fingerprint |-> {}]]

Init ==
  /\ tree \in Trees
  /\ audit \in Audits(tree)
  /\ stage = "parse"
  /\ parsed = <<>> /\ output = <<>> /\ examples = <<>> /\ plan = Nothing
  /\ answer = "none"

\* what each stage asks before it hands on
ImagesSound == \A c \in Range(parsed) : \A x \in Range(c.refs) : read_asset(tree, x.path)
OutputsDistinct == \A c \in Range(parsed) : DistinctOutputs(Resolved(tree, c))
AuditAgrees == \A key \in {"cases", "unique", "fingerprint"} : plan.metrics[key] = audit.metrics[key]

Parse ==
  /\ stage = "parse"
  /\ Accepts(tree)
  /\ parsed' = Cases(tree)
  /\ stage' = "assets"
  /\ UNCHANGED <<tree, audit, output, examples, plan, answer>>

ReadAssets ==
  /\ stage = "assets"
  /\ ImagesSound
  /\ OutputsDistinct
  /\ output' = resolved_adapter_output(tree, parsed)
  /\ stage' = "output"
  /\ UNCHANGED <<tree, audit, parsed, examples, plan, answer>>

Project ==
  /\ stage = "output"
  /\ validate_adapter_output(audit, output)
  /\ examples' = [i \in DOMAIN output |-> generation_example_for(output[i])]
  /\ stage' = "examples"
  /\ UNCHANGED <<tree, audit, parsed, output, plan, answer>>

\* run_source of the extraction publishes the package; build_import_plan reads it
Publish ==
  /\ stage = "examples"
  /\ \A e \in Range(examples) : validate_generation_semantics(audit, e)
  /\ LET sources == AssetSources(output, examples) IN
     plan' = [sources |-> sources, files |-> SourceFiles(output, sources),
              metrics |-> extraction_metrics(output, examples)]
  /\ stage' = "package"
  /\ UNCHANGED <<tree, audit, parsed, output, examples, answer>>

\* a package needs a document, a data file and an image, and the audited numbers
Plan ==
  /\ stage = "package"
  /\ output # <<>>
  /\ AuditAgrees
  /\ Cardinality(plan.files) >= 2
  /\ stage' = "done"
  /\ answer' = "planned"
  /\ UNCHANGED <<tree, audit, parsed, output, examples, plan>>

\* any stage that does not accept ends the call with an error code
Refuse ==
  /\ stage # "done"
  /\ \/ stage = "parse" /\ ~Accepts(tree)
     \/ stage = "assets" /\ ~(ImagesSound /\ OutputsDistinct)
     \/ stage = "output" /\ ~validate_adapter_output(audit, output)
     \/ stage = "package" /\ ~(output # <<>> /\ AuditAgrees)
  /\ stage' = "done"
  /\ answer' = IF stage = "parse" /\ Escapes(tree) THEN "escaped" ELSE "refused"
  /\ UNCHANGED <<tree, audit, parsed, output, examples, plan>>

Next == Parse \/ ReadAssets \/ Project \/ Publish \/ Plan \/ Refuse

Spec == Init /\ [][Next]_vars

-----------------------------------------------------------------------------
(* Properties.                                                             *)

\* galleries whose files are compared with the manifest as a whole
Gallery(t) ==
  CASE t.strategy = "joesai" -> Under(t, "examples")
    [] t.strategy = "conardli" -> {p \in Under(t, "case") : p[3] = "png"}
    [] t.strategy = "freestylefly" -> {p \in Under(t, "images") : p[2] # 0}
    [] t.strategy = "erickkkyt" -> Under(t, "assets")
    [] t.strategy = "vigozhao" -> {p \in Under(t, "styles") : p[3] # "style"}
    [] OTHER -> {}

\* In the five galleries that are compared as a whole, an accepted tree has no
\* image that is missed or shown for two cases: each is the output of exactly
\* one case, or one of the files known to belong to none.
EveryImageHasOneCase ==
  stage \notin {"parse"} /\ parsed # <<>> =>
    \A p \in Gallery(tree) \ Orphans :
      Cardinality(UNION {{<<i, n>> : n \in {m \in DOMAIN parsed[i].refs : parsed[i].refs[m].path = p}} :
                           i \in DOMAIN parsed}) = 1

\* A plan holds every case of the manifest and every image of every case, each
\* with the bytes of its own file, though images are looked up by content and
\* cases may share them; its numbers add up.
PlanIsTheTree ==
  answer = "planned" =>
    /\ plan.sources = UNION {{[case |-> c.key, ref |-> x.id, path |-> x.path, hash |-> tree.files[x.path].bytes] :
                                x \in Range(c.refs)} : c \in Range(parsed)}
    /\ UNION {c.evidence : c \in Range(parsed)} \subseteq plan.files
    /\ plan.metrics.generations = Cardinality(plan.sources)
    /\ plan.metrics.cases = Cardinality({c.key : c \in Range(parsed)})

\* an erickkkyt row names a language of white space only
BlankLanguage(t) == t.strategy = "erickkkyt" /\ \E r \in Range(t.doc.rows) : "blank" \in Range(r.languages)

\* the aspect ratio of an admitted chaosrealms case has a key of a decision
DecidingRatio(t) ==
  /\ t.strategy = "chaosrealms"
  /\ \E r \in Range(t.doc.rows) : r.id \in Range(t.doc.admission.admitted) /\ t.files[r.meta].ratio = "decision"

\* What an adapter accepts is not refused later but for its images, for the
\* audit record, or where the adapter asks less than the contract: pair ids of
\* erickkkyt that are out of order as texts, an erickkkyt language of white
\* space, a chaosrealms aspect ratio that carries a decision, and a g0dam
\* manifest without cases. The call ends in an error code, or escapes for a
\* g0dam path only.
RefusalIsExplained ==
  /\ stage = "done" /\ answer = "refused" /\ Accepts(tree) =>
       \/ \E c \in Range(parsed) : \E x \in Range(c.refs) : ~read_asset(tree, x.path)
       \/ \E c \in Range(parsed) : \E x, y \in Range(c.refs) :
            x # y /\ tree.files[x.path].bytes = tree.files[y.path].bytes
       \/ ~source_binding(audit)
       \/ plan # Nothing /\ ~AuditAgrees
       \/ tree.strategy = "erickkkyt" /\ \E c \in Range(parsed) : ~InTextOrder(c.refs)
       \/ BlankLanguage(tree) \/ DecidingRatio(tree)
       \/ tree.strategy = "g0dam" /\ parsed = <<>>
  /\ answer = "escaped" => tree.strategy = "g0dam"

\* the same manifest with its rows the other way round, numbered anew
Turned(t) ==
  CASE t.strategy = "erickkkyt" ->
         [t EXCEPT !.doc.rows = [i \in DOMAIN @ |-> [Reverse(@)[i] EXCEPT !.index = i]]]
    [] t.strategy = "conardli" -> [t EXCEPT !.doc.cases = Reverse(@)]
    [] t.strategy = "vigozhao" -> t
    [] OTHER -> [t EXCEPT !.doc.rows = Reverse(@)]

\* all of a record but the position of its row
Unnumbered(r) == <<r.key, r.prompt, r.refs, r.evidence, r.copied.tags, r.copied.parameters>>

\* The adapter output, and with it the documents and the digest an import is
\* identified by, does not depend on the order of the rows of the manifest; but
\* erickkkyt numbers its rows and copies the number, so that there the other
\* order is accepted too and gives every case as before, with its other number.
RowOrderIsIrrelevant ==
  LET turned == resolved_adapter_output(tree, Cases(Turned(tree))) IN
  answer = "planned" =>
    /\ Accepts(Turned(tree))
    /\ IF tree.strategy = "erickkkyt"
         THEN /\ DOMAIN turned = DOMAIN output
              /\ \A i \in DOMAIN output :
                   /\ Unnumbered(turned[i]) = Unnumbered(output[i])
                   /\ turned[i].copied.position = Len(output) + 1 - output[i].copied.position
         ELSE turned = output
=============================================================================
