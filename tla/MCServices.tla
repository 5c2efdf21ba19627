----------------------------- MODULE MCServices -----------------------------
(* Services for TLC. Revision 1 has a case of two images and a case of one  *)
(* that shares a content with it; revision 2 edits the first case, and the  *)
(* source of the new image may not be public.                              *)
EXTENDS Services

TwoBrowsers == {"page", "tab"}
OneFile == {"file"}
\* the only user becomes an administrator with another password
TwoSettings ==
  [i \in 0 .. 1 |-> [u \in {"rita"} |->
     [role |-> IF i = 0 THEN "reviewer" ELSE "admin", password |-> i]]]
PageIsRita == [b \in {"page"} |-> "rita"]

ThreeVersions == 1 .. 3
Revisions == <<1, 1, 2>>
Cases == <<1, 2, 1>>
Images == [o \in {11, 12, 21, 31} |-> CASE o = 11 -> 1 [] o \in {12, 21} -> 2 [] o = 31 -> 3]

CleanTexts ==
  [identity |-> "namespaced", model |-> "plain", promptPath |-> "path", promptUrl |-> "https",
   outputPath |-> "path", outputUrl |-> "https", location |-> "plain"]
SomeFacts ==
  <<[outputs |-> {11, 12}, texts |-> CleanTexts],
    [outputs |-> {21}, texts |-> CleanTexts],
    [outputs |-> {31}, texts |-> [CleanTexts EXCEPT !.outputUrl = "network"]]>>

Shows(policy, role) == [rights |-> "approved", policy |-> policy, role |-> role]
Hides == [rights |-> "internal_only", policy |-> "internal_only", role |-> "hidden"]
Approve(author, decisions) == [prompt |-> "approved", author |-> author, decisions |-> decisions]
TwoImages(first, second) == [o \in {11, 12} |-> IF o = 11 THEN first ELSE second]
OneImage(o, d) == [p \in {o} |-> d]
Primary1 == Shows("mirror_allowed", "public_primary")
SomeForms ==
  <<{Approve("plain", TwoImages(Primary1, Shows("link_only", "public_gallery"))),
     Approve("plain", TwoImages(Hides, Shows("mirror_allowed", "public_gallery")))},
    {Approve("network", OneImage(21, Primary1))},
    {Approve("plain", OneImage(31, Primary1))}>>

BlockAndDrift ==
  [i \in 0 .. 1 |-> IF i = 0 THEN {}
                    ELSE {[version |-> 1, matches |-> TRUE], [version |-> 2, matches |-> FALSE]}]
KeyEach == [r \in {"page", "tab", "file"} |-> IF r = "file" THEN {2} ELSE {1}]

Review(v, key, form) ==
  [target |-> v, key |-> key, expected |-> 0, at |-> 0, by |-> "file", form |-> form]
SomeReviews ==
  <<Review(1, 8, Approve("plain", TwoImages(Primary1, Shows("link_only", "public_gallery")))),
    Review(2, 9, Approve("plain", OneImage(21, Primary1)))>>

FourExamples == 1 .. 4
TwoKeys == <<1, 1, 2, 2>>
SomeLacks == <<{}, {}, {}, {"pairing_not_strong"}>>
ExampleImages == <<{1}, {2}, {2}, {3}>>
Right(policy) == [prompt |-> "approved", asset |-> "approved", policy |-> policy]
SomeRights == {Right("mirror_allowed"), Right("link_only"), [Right("mirror_allowed") EXCEPT !.asset = "blocked"]}

SomeAsks ==
  {[what |-> "list", filter |-> {}, page |-> 2, size |-> 1],
   [what |-> "list", filter |-> {<<"policy", "link_only">>, <<"references", "without">>}, page |-> 1, size |-> 2],
   [what |-> "detail", case |-> 2], [what |-> "asset", content |-> 2]}
Of(source, tags, references) == [source |-> source, tags |-> tags, references |-> references]
SomeAbout ==
  <<<<Of("east", {"t"}, {1}), Of("west", {"t"}, {}), Of("west", {}, {}), Of("west", {}, {})>>,
    <<Of("east", {"t"}, {}), Of("west", {}, {2}), Of("east", {}, {})>>>>
SomeTakedowns == {<<"source", "east">>, <<"asset", 2>>}
SomeRightsReviews == [e \in 1 .. 4 |-> [example |-> e, at |-> 0, form |-> Right("mirror_allowed")]]
OneReader == {"reader"}

\* three cases share a prompt and an image over two sources; code changes once
\* with and once without its version
Seen(id, commit, source, prompt, images) ==
  [id |-> id, commit |-> commit, source |-> source, prompt |-> prompt, images |-> images]
SomePreviewCases ==
  {Seen(1, 1, "east", "p", <<1, 2>>), Seen(2, 1, "west", "p", <<2, 3>>),
   Seen(3, 1, "west", "q", <<2>>), Seen(4, 2, "east", "p", <<1>>)}
Release(commit, adapter, code, blocked, drifted) ==
  [commit |-> commit, adapter |-> adapter, code |-> code, blocked |-> blocked, drifted |-> drifted]
SomeReleases ==
  <<Release(1, 1, 1, {}, {}), Release(1, 1, 2, {1}, {}), Release(1, 1, 2, {}, {}),
    Release(2, 2, 3, {1, 3}, {4}), Release(2, 2, 3, {3}, {})>>

\* two sources share two cases and list them in opposite order; the second
\* revision of east changes only noise and places of one case, and the order
\* of the inputs of the other
Text(words, noise) == [words |-> words, noise |-> noise]
Asset(role, content, place) == [role |-> role, content |-> content, place |-> place]
Example(inputs, outputs) == [inputs |-> inputs, outputs |-> outputs, claim |-> "unknown"]
Observed(case, prompt, assets, examples) ==
  [case |-> case, prompt |-> prompt, assets |-> assets, examples |-> examples]
East(prompt, inputs, place) ==
  {Observed(1, prompt, <<Asset("output", 1, place)>>, <<Example(<<>>, <<1>>)>>),
   Observed(2, Text("q", 0),
     <<Asset("input", 2, place), Asset("input", 3, place), Asset("output", 4, place), Asset("output", 5, place)>>,
     <<Example(inputs, <<3>>), Example(<<>>, <<4>>)>>)}
West ==
  {Observed(1, Text("q", 1), <<Asset("input", 2, 9), Asset("input", 3, 9), Asset("output", 4, 9)>>,
     <<Example(<<1, 2>>, <<3>>)>>),
   Observed(2, Text("p", 0), <<Asset("output", 1, 9)>>, <<Example(<<>>, <<1>>)>>)}
SomeDocuments ==
  [s \in {"east", "west"} |->
     IF s = "west" THEN <<West>> ELSE <<East(Text("p", 0), <<1, 2>>, 1), East(Text("p", 1), <<2, 1>>, 2)>>]
SyncAndCommand == {"sync", "command"}
SomeSelections ==
  {[s \in {"east"} |-> 1], [s \in {"west"} |-> 1],
   [s \in {"east", "west"} |-> IF s = "east" THEN 2 ELSE 1]}

\* a bucket of the importers, a missing one, and what an operator may do
Bucket(exists, policy, status, grants) ==
  [endpoint |-> "https", exists |-> exists, policy |-> policy, status |-> status, grants |-> grants]
SomeBuckets ==
  {[Bucket(TRUE, <<"absent">>, "private", <<"owner">>) EXCEPT !.endpoint = "http_named"],
   Bucket(TRUE, <<"deny_anyone", "allow_account">>, "unknown", <<"owner", "email">>),
   Bucket(FALSE, <<"absent">>, "private", <<"owner">>),
   Bucket(TRUE, <<"allow_account", "allow_anyone">>, "private", <<"owner">>),
   Bucket(TRUE, <<"allow_service">>, "private", <<"owner">>),
   Bucket(TRUE, <<"absent">>, "public", <<"owner">>),
   Bucket(TRUE, <<"absent">>, "unknown", <<"owner", "anyone">>)}
\* bytes of something else under the right metadata, another media type, another ACL
SomeStrays ==
  {<<>>, <<[Original(1) EXCEPT !.bytes = 0]>>, <<[Original(1) EXCEPT !.media = "page"]>>,
   <<[Original(1) EXCEPT !.grants = <<"anyone">>]>>, <<Original(1)>>}
TwoImporters == {"importer", "other"}
OnePicture == {1}

\* the branch grows to 2, and is rewritten to 3, which declares a filter
CONSTANTS worker, manual
TwoGits == {worker, manual}
EitherGit == Permutations(TwoGits)
ThreeCommits == 1 .. 3
Parents == <<0, 1, 1>>

Scenes == [login |-> 2, review |-> 2, public1 |-> 1, public2 |-> 0, preview |-> 0, identity |-> 0, store |-> 0, mirror |-> 0]
ReviewsOfScene == [s \in DOMAIN Scenes |-> IF s = "review" THEN 2 ELSE 3]
=============================================================================
