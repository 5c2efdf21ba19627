--------------------------- MODULE ExtractionProofs ---------------------------
(***************************************************************************)
(* Proofs about Extraction, for every set of trees whose documents have    *)
(* the lists and numbers their readers ask for (TreesAssumption). First    *)
(* what each adapter makes of a tree it accepts, then the stages.          *)
(***************************************************************************)
EXTENDS Extraction, OrderProofs

-----------------------------------------------------------------------------
(* What an adapter hands on.                                               *)

\* a case the contract takes, but for the order of its pair ids in erickkkyt and
\* for what it copies unseen
SoundCase(t, c) ==
  /\ c.key \in Nat
  /\ \E k \in Nat \ {0} : DOMAIN c.refs = 1..k
  /\ normalize_prompt(c.prompt) # "blank"
  /\ \A i, j \in DOMAIN c.refs : c.refs[i].path = c.refs[j].path => i = j
  /\ \A i, j \in DOMAIN c.refs : c.refs[i].id = c.refs[j].id => i = j
  /\ t.strategy = "erickkkyt" \/ InTextOrder(c.refs)
  /\ "blank" \in c.copied.tags => BlankLanguage(t)
  /\ ~extension_and_boundary(c.copied.parameters) => DecidingRatio(t)

SoundList(t, cs) ==
  /\ \E n \in Nat : DOMAIN cs = 1..n
  /\ \A i, j \in DOMAIN cs : cs[i].key = cs[j].key => i = j
  /\ \A i \in DOMAIN cs : SoundCase(t, cs[i])
  /\ t.strategy = "g0dam" \/ 1 \in DOMAIN cs

\* The positions and entries of a list.
LEMMA ListFact ==
  ASSUME NEW s, IsList(s)
  PROVE  /\ Len(s) \in Nat /\ DOMAIN s = 1..Len(s)
         /\ \A i \in DOMAIN s : s[i] \in Range(s)
         /\ \A x \in Range(s) : \E i \in DOMAIN s : s[i] = x
         /\ s = <<>> <=> Len(s) = 0
  BY DEF IsList, Range

\* What is counted from one is a list of that length.
LEMMA ListOf ==
  ASSUME NEW n \in Nat, NEW s, s = [i \in 1..n |-> s[i]]
  PROVE  IsList(s) /\ Len(s) = n
<1>1. s \in [1..n -> Range(s)]
  BY DEF Range
<1>2. s \in Seq(Range(s))
  BY <1>1
<1>3. DOMAIN s = 1..n /\ DOMAIN s = 1..Len(s) /\ Len(s) \in Nat
  BY <1>1, <1>2
<1>4. Len(s) = n
  BY <1>3
<1> QED BY <1>2, <1>4 DEF IsList

\* A prompt of some size is not blank.
LEMMA LongIsNotBlank ==
  ASSUME NEW p, Size[p] >= 80 \/ Size[p] >= 8 \/ Size[p] > 0
  PROVE  normalize_prompt(p) # "blank"
<1>1. ~ (0 >= 80) /\ ~ (0 >= 8) /\ ~ (0 > 0)
  OBVIOUS
<1>2. p # "blank"
  BY <1>1 DEF Size
<1> QED BY <1>2 DEF normalize_prompt

\* The parts of what is copied.
LEMMA WhatIsCopied ==
  ASSUME NEW tags, NEW parameters, NEW position
  PROVE  /\ Copied(tags, parameters, position).tags = tags
         /\ Copied(tags, parameters, position).parameters = parameters
         /\ Copied(tags, parameters, position).position = position
  BY DEF Copied

\* A case of one image is sound when its prompt is not blank.
LEMMA OneOutputIsSound ==
  ASSUME NEW t, NEW key \in Nat, NEW prompt, normalize_prompt(prompt) # "blank", NEW path, NEW evidence
  PROVE  SoundCase(t, OneOutput(key, prompt, path, evidence))
<1> DEFINE c == OneOutput(key, prompt, path, evidence)
<1>1. DOMAIN c.refs = 1..1 /\ c.key = key /\ c.prompt = prompt
  BY DEF OneOutput
<1>8. "blank" \notin c.copied.tags /\ extension_and_boundary(c.copied.parameters)
  BY DEF OneOutput, NothingCopied, Copied, extension_and_boundary
<1>2. \A i, j \in DOMAIN c.refs : i = j
  BY <1>1
<1>3. InTextOrder(c.refs)
  <2>1. \A i, j \in 1..1 : ~ (i < j)
    OBVIOUS
  <2> HIDE DEF c
  <2> QED BY <1>1, <2>1 DEF InTextOrder
<1>4. \E k \in Nat \ {0} : DOMAIN c.refs = 1..k
  BY <1>1
<1> HIDE DEF c
<1>5. \A i, j \in DOMAIN c.refs : c.refs[i].path = c.refs[j].path => i = j
  BY <1>2
<1>6. \A i, j \in DOMAIN c.refs : c.refs[i].id = c.refs[j].id => i = j
  BY <1>2
<1>7. SoundCase(t, c)
  BY <1>1, <1>3, <1>4, <1>5, <1>6, <1>8 DEF SoundCase
<1> QED BY <1>7 DEF c

\* Rows that differ in a column are told apart by it.
LEMMA ColumnFact ==
  ASSUME NEW rows, NEW f, IsInjective(Column(rows, f))
  PROVE  \A i, j \in DOMAIN rows : rows[i][f] = rows[j][f] => i = j
  BY DEF Column, IsInjective

\* an adapter that makes one case of each row
LEMMA CaseOfEachRow ==
  ASSUME NEW t, NEW rows, IsList(rows), \A i, j \in DOMAIN rows : rows[i].id = rows[j].id => i = j,
         t.strategy = "g0dam" \/ rows # <<>>,
         NEW cs, DOMAIN cs = DOMAIN rows,
         \A i \in DOMAIN rows : cs[i].key = rows[i].id /\ SoundCase(t, cs[i])
  PROVE  SoundList(t, cs)
<1>1. /\ Len(rows) \in Nat /\ DOMAIN rows = 1..Len(rows)
      /\ rows = <<>> <=> Len(rows) = 0
  BY ListFact
<1>2. t.strategy = "g0dam" \/ 1 \in DOMAIN cs
  BY <1>1
<1>3. \E n \in Nat : DOMAIN cs = 1..n
  BY <1>1
<1>4. \A i, j \in DOMAIN cs : cs[i].key = cs[j].key => i = j
  OBVIOUS
<1> QED BY <1>2, <1>3, <1>4 DEF SoundList

\* every row with its own id becomes a case with one output
OneOutputs(t, rows, cs, prompt, path, evidence) ==
  /\ IsList(rows) /\ \A r \in Range(rows) : r.id \in Nat
  /\ \A i, j \in DOMAIN rows : rows[i].id = rows[j].id => i = j
  /\ t.strategy = "g0dam" \/ rows # <<>>
  /\ \A i \in DOMAIN rows : normalize_prompt(prompt[i]) # "blank"
  /\ DOMAIN cs = DOMAIN rows
  /\ \A i \in DOMAIN rows : cs[i] = OneOutput(rows[i].id, prompt[i], path[i], evidence[i])

\* A list of such cases, with a key each, is sound.
LEMMA OneOutputsAreSound ==
  ASSUME NEW t, NEW rows, NEW cs, NEW prompt, NEW path, NEW evidence,
         OneOutputs(t, rows, cs, prompt, path, evidence)
  PROVE  SoundList(t, cs)
<1>1. \A i \in DOMAIN rows : cs[i].key = rows[i].id /\ SoundCase(t, cs[i])
  <2> TAKE i \in DOMAIN rows
  <2>1. rows[i].id \in Nat
    BY ListFact DEF OneOutputs
  <2>2. SoundCase(t, cs[i])
    BY <2>1, OneOutputIsSound DEF OneOutputs
  <2> QED BY <2>2 DEF OneOutput, OneOutputs
<1> QED BY <1>1, CaseOfEachRow DEF OneOutputs

\* What each adapter lists of a tree it accepts is sound: keys, images and prompts
\* of its cases are what the strategies share.
LEMMA G0damSound ==
  ASSUME NEW t, Shaped(t), t.strategy = "g0dam", G0damAccepts(t)
  PROVE  SoundList(t, G0damCases(t))
<1> DEFINE rows == t.doc.rows
           cs == G0damCases(t)
           prompt == [i \in DOMAIN rows |-> rows[i].prompt]
           path == [i \in DOMAIN rows |-> rows[i].image]
           evidence == [i \in DOMAIN rows |-> {Data(t)}]
<1>1. IsList(rows) /\ \A r \in Range(rows) : r.id \in Nat
  BY DEF Shaped
<1>2. Len(rows) \in Nat /\ DOMAIN rows = 1..Len(rows)
  BY <1>1, ListFact
<1>3. \A i \in DOMAIN rows : G0damRow(rows, i)
  BY DEF G0damAccepts
<1>4. /\ DOMAIN cs = DOMAIN rows
      /\ \A i \in DOMAIN rows : cs[i] = OneOutput(rows[i].id, prompt[i], path[i], evidence[i])
  BY DEF G0damCases
<1>5. \A i \in DOMAIN rows : normalize_prompt(prompt[i]) # "blank"
  BY <1>3, LongIsNotBlank DEF G0damRow
<1> HIDE DEF rows, cs, prompt, path, evidence
<1>6. \A i, j \in DOMAIN rows : rows[i].id = rows[j].id => i = j
  BY <1>2, <1>3 DEF G0damRow
<1>7. OneOutputs(t, rows, cs, prompt, path, evidence)
  BY <1>1, <1>4, <1>5, <1>6 DEF OneOutputs
<1>8. SoundList(t, cs)
  BY <1>7, OneOutputsAreSound
<1> QED BY <1>8 DEF cs

LEMMA JoeSaiSound ==
  ASSUME NEW t, Shaped(t), t.strategy = "joesai", JoeSaiAccepts(t)
  PROVE  SoundList(t, JoeSaiCases(t))
<1> DEFINE rows == t.doc.rows
           cs == JoeSaiCases(t)
           prompt == [i \in DOMAIN rows |-> read_snapshot_text(t, Page(rows[i]))]
           path == [i \in DOMAIN rows |-> rows[i].image]
           evidence == [i \in DOMAIN rows |-> {Data(t), Page(rows[i])}]
<1>1. IsList(rows) /\ \A r \in Range(rows) : r.id \in Nat
  BY DEF Shaped
<1>2. /\ rows # <<>> /\ IsInjective(Column(rows, "id"))
      /\ \A r \in Range(rows) : JoeSaiPage(t, r)
  BY DEF JoeSaiAccepts, JoeSaiManifest
<1>3. /\ DOMAIN cs = DOMAIN rows
      /\ \A i \in DOMAIN rows : cs[i] = OneOutput(rows[i].id, prompt[i], path[i], evidence[i])
  BY DEF JoeSaiCases
<1>4. \A i \in DOMAIN rows : normalize_prompt(prompt[i]) # "blank"
  <2> TAKE i \in DOMAIN rows
  <2>1. rows[i] \in Range(rows)
    BY <1>1, ListFact
  <2>2. Size[t.files[Page(rows[i])].text] >= 80
    BY <1>2, <2>1 DEF JoeSaiPage
  <2>3. normalize_prompt(t.files[Page(rows[i])].text) # "blank"
    BY <2>2, LongIsNotBlank
  <2>4. prompt[i] = normalize_prompt(t.files[Page(rows[i])].text)
    BY DEF read_snapshot_text
  <2> QED BY <2>3, <2>4 DEF normalize_prompt
<1> HIDE DEF rows, cs, prompt, path, evidence
<1>5. \A i, j \in DOMAIN rows : rows[i].id = rows[j].id => i = j
  BY <1>2, ColumnFact
<1>6. OneOutputs(t, rows, cs, prompt, path, evidence)
  BY <1>1, <1>2, <1>3, <1>4, <1>5 DEF OneOutputs
<1>7. SoundList(t, cs)
  BY <1>6, OneOutputsAreSound
<1> QED BY <1>7 DEF cs

LEMMA ConardLiSound ==
  ASSUME NEW t, Shaped(t), t.strategy = "conardli", ConardLiAccepts(t)
  PROVE  SoundList(t, ConardLiCases(t))
<1> DEFINE rows == t.doc.cases
           cs == ConardLiCases(t)
           prompt == [i \in DOMAIN rows |-> rows[i].prompt]
           path == [i \in DOMAIN rows |-> CasePath(rows[i].id, "png")]
           evidence == [i \in DOMAIN rows |-> {Data(t), CasePath(0, "mapping"), CasePath(rows[i].id, "txt")}]
<1>1. IsList(rows) /\ \A r \in Range(rows) : r.id \in Nat
  BY DEF Shaped
<1>2. /\ rows # <<>> /\ IsInjective(Column(rows, "id"))
      /\ \A r \in Range(rows) : Size[r.prompt] > 0
  BY DEF ConardLiAccepts, ConardLiRows
<1>3. /\ DOMAIN cs = DOMAIN rows
      /\ \A i \in DOMAIN rows : cs[i] = OneOutput(rows[i].id, prompt[i], path[i], evidence[i])
  BY DEF ConardLiCases
<1>4. \A i \in DOMAIN rows : normalize_prompt(prompt[i]) # "blank"
  BY <1>1, <1>2, ListFact, LongIsNotBlank
<1> HIDE DEF rows, cs, prompt, path, evidence
<1>5. \A i, j \in DOMAIN rows : rows[i].id = rows[j].id => i = j
  BY <1>2, ColumnFact
<1>6. OneOutputs(t, rows, cs, prompt, path, evidence)
  BY <1>1, <1>2, <1>3, <1>4, <1>5 DEF OneOutputs
<1>7. SoundList(t, cs)
  BY <1>6, OneOutputsAreSound
<1> QED BY <1>7 DEF cs

LEMMA FreestyleflySound ==
  ASSUME NEW t, Shaped(t), t.strategy = "freestylefly", FreestyleflyAccepts(t)
  PROVE  SoundList(t, FreestyleflyCases(t))
<1> DEFINE rows == t.doc.rows
           cs == FreestyleflyCases(t)
           prompt == [i \in DOMAIN rows |-> rows[i].prompt]
           path == [i \in DOMAIN rows |-> rows[i].image]
           evidence == [i \in DOMAIN rows |-> {Data(t)}]
<1>1. IsList(rows) /\ \A r \in Range(rows) : r.id \in Nat
  BY DEF Shaped
<1>2. /\ rows # <<>> /\ IsInjective(Column(rows, "id"))
      /\ \A r \in Range(rows) : Size[r.prompt] >= 8
  BY DEF FreestyleflyAccepts
<1>3. /\ DOMAIN cs = DOMAIN rows
      /\ \A i \in DOMAIN rows : cs[i] = OneOutput(rows[i].id, prompt[i], path[i], evidence[i])
  BY DEF FreestyleflyCases
<1>4. \A i \in DOMAIN rows : normalize_prompt(prompt[i]) # "blank"
  BY <1>1, <1>2, ListFact, LongIsNotBlank
<1> HIDE DEF rows, cs, prompt, path, evidence
<1>5. \A i, j \in DOMAIN rows : rows[i].id = rows[j].id => i = j
  BY <1>2, ColumnFact
<1>6. OneOutputs(t, rows, cs, prompt, path, evidence)
  BY <1>1, <1>2, <1>3, <1>4, <1>5 DEF OneOutputs
<1>7. SoundList(t, cs)
  BY <1>6, OneOutputsAreSound
<1> QED BY <1>7 DEF cs

LEMMA ErickkkytSound ==
  ASSUME NEW t, Shaped(t), t.strategy = "erickkkyt", ErickkkytAccepts(t)
  PROVE  SoundList(t, ErickkkytCases(t))
<1> DEFINE rows == t.doc.rows
           cs == ErickkkytCases(t)
<1>1. /\ IsList(rows) /\ \A r \in Range(rows) : r.id \in Nat
      /\ \A r \in Range(rows) : IsList(r.images) /\ IsList(r.pairs)
  BY DEF Shaped
<1>2. /\ rows # <<>> /\ IsInjective(Column(rows, "id"))
      /\ \A i \in DOMAIN rows : ErickkkytRow(t, rows[i], i)
      /\ Unrepeated(rows, "images") /\ Unrepeated(rows, "pairs")
  BY DEF ErickkkytAccepts, UniqueInSource
<1>3. /\ DOMAIN cs = DOMAIN rows
      /\ \A i \in DOMAIN rows :
           /\ cs[i].key = rows[i].id /\ cs[i].prompt = rows[i].prompt
           /\ cs[i].refs = [n \in DOMAIN rows[i].images |-> [id |-> rows[i].pairs[n], path |-> rows[i].images[n]]]
           /\ cs[i].copied = Copied(Range(rows[i].languages), "none", rows[i].index)
  BY DEF ErickkkytCases
<1>8. \A i \in DOMAIN rows : "blank" \in Range(rows[i].languages) => BlankLanguage(t)
  BY <1>1, ListFact DEF BlankLanguage
<1> HIDE DEF rows, cs
<1>4. \A i, j \in DOMAIN rows : rows[i].id = rows[j].id => i = j
  BY <1>2, ColumnFact
<1>5. ASSUME NEW i \in DOMAIN rows PROVE SoundCase(t, cs[i])
  <2> DEFINE refs == cs[i].refs
             images == rows[i].images
             pairs == rows[i].pairs
  <2>1. rows[i].id \in Nat /\ IsList(images) /\ IsList(pairs)
    BY <1>1, ListFact
  <2>2. Len(images) \in Nat \ {0} /\ DOMAIN images = 1..Len(images) /\ DOMAIN pairs = DOMAIN images
    <3>1. images # <<>> /\ Len(pairs) = Len(images)
      BY <1>2 DEF ErickkkytRow
    <3> HIDE DEF images, pairs
    <3> QED BY <2>1, <3>1, ListFact
  <2>3. /\ DOMAIN refs = DOMAIN images
        /\ \A n \in DOMAIN images : refs[n].id = pairs[n] /\ refs[n].path = images[n]
    <3>1. refs = [n \in DOMAIN images |-> [id |-> pairs[n], path |-> images[n]]]
      BY <1>3
    <3> HIDE DEF refs, images, pairs
    <3> QED BY <3>1
  <2>4. normalize_prompt(cs[i].prompt) # "blank"
    BY <1>2, <1>3, LongIsNotBlank DEF ErickkkytRow
  <2>5. \A m, n \in DOMAIN images : images[m] = images[n] => m = n
    BY <1>2 DEF Unrepeated
  <2>6. \A m, n \in DOMAIN pairs : pairs[m] = pairs[n] => m = n
    BY <1>2 DEF Unrepeated
  <2>7. cs[i].key \in Nat
    BY <1>3, <2>1
  <2> HIDE DEF images, pairs
  <2>8. \A m, n \in DOMAIN refs : refs[m].path = refs[n].path => m = n
    BY <2>3, <2>5
  <2>9. \A m, n \in DOMAIN refs : refs[m].id = refs[n].id => m = n
    BY <2>2, <2>3, <2>6
  <2>10. \E k \in Nat \ {0} : DOMAIN refs = 1..k
    BY <2>2, <2>3
  <2>11. /\ cs[i].copied.tags = Range(rows[i].languages)
         /\ extension_and_boundary(cs[i].copied.parameters)
    <3>1. cs[i].copied = Copied(Range(rows[i].languages), "none", rows[i].index)
      BY <1>3
    <3> QED BY <3>1, WhatIsCopied DEF extension_and_boundary
  <2> QED BY <1>8, <2>4, <2>7, <2>8, <2>9, <2>10, <2>11 DEF SoundCase
<1>6. \A i \in DOMAIN rows : cs[i].key = rows[i].id /\ SoundCase(t, cs[i])
  BY <1>3, <1>5
<1>7. SoundList(t, cs)
  BY <1>1, <1>2, <1>3, <1>4, <1>6, CaseOfEachRow
<1> QED BY <1>7 DEF cs

\* references numbered from 1, which is the order of their texts up to 9
LEMMA FewAreInTextOrder ==
  ASSUME NEW refs, NEW k \in 1..9, DOMAIN refs = 1..k, \A n \in 1..k : refs[n].id = n
  PROVE  InTextOrder(refs)
  BY DEF InTextOrder, AsText

\* Numbers in ascending order.
LEMMA AscendingFact ==
  ASSUME NEW S \in SUBSET Int, IsFiniteSet(S)
  PROVE  Lists(Ascending(S), S, Less(S))
<1>1. StrictlyOrders(Less(S), S)
  BY DEF StrictlyOrders, Less
<1> QED BY <1>1, SortedByFact DEF Ascending

\* the styles of an accepted tree
Styles(t) == {p[2] : p \in Under(t, "styles")}

\* The styles of an accepted VigoZhao tree are numbers, and their files are all there is.
LEMMA StylesFact ==
  ASSUME NEW t, Shaped(t), t.strategy = "vigozhao", VigoZhaoAccepts(t)
  PROVE  /\ Styles(t) \in SUBSET Nat /\ IsFiniteSet(Styles(t)) /\ Styles(t) # {} /\ 0 \notin Styles(t)
         /\ Under(t, "styles") = {StylePath(s, n) : s \in Styles(t), n \in {"style"} \cup Range(Previews)}
         /\ \A s \in Styles(t) : Size[t.files[StylePath(s, "style")].text] >= 80
<1>1. IsFiniteSet(Under(t, "styles"))
  <2>1. IsFiniteSet(DOMAIN t.files) /\ Under(t, "styles") \subseteq DOMAIN t.files
    BY DEF Shaped, Under
  <2> QED BY <2>1, FS_Subset
<1>2. IsFiniteSet(Styles(t))
  <2> DEFINE f == [p \in Under(t, "styles") |-> p[2]]
  <2>1. f \in Surjection(Under(t, "styles"), Styles(t))
    BY DEF Surjection, Styles
  <2> QED BY <1>1, <2>1, FS_Surjection
<1>3. Styles(t) \in SUBSET Nat
  BY DEF Shaped, Styles, Under
<1>4. 0 \notin Styles(t)
  BY DEF VigoZhaoAccepts, Styles, StylePath
<1>5. Styles(t) \ {0} = Styles(t)
  BY <1>4
<1>6. Styles(t) # {}
  BY DEF VigoZhaoAccepts, Styles
<1> QED BY <1>2, <1>3, <1>4, <1>5, <1>6 DEF VigoZhaoAccepts, Styles

VigoZhaoLists(t, cs, styles, n) ==
  /\ n \in Nat \ {0} /\ styles \in [1..n -> Styles(t)] /\ DOMAIN cs = 1..n
  /\ \A i, j \in 1..n : styles[i] = styles[j] => i = j
  /\ \A s \in Styles(t) : \E i \in 1..n : styles[i] = s
  /\ \A i \in 1..n :
       /\ cs[i].key = styles[i] /\ cs[i].prompt = t.files[StylePath(styles[i], "style")].text
       /\ cs[i].refs = [m \in DOMAIN Previews |-> [id |-> m, path |-> StylePath(styles[i], Previews[m])]]
       /\ cs[i].copied = NothingCopied

\* Its cases are the styles in ascending order.
LEMMA VigoZhaoListed ==
  ASSUME NEW t, Shaped(t), t.strategy = "vigozhao", VigoZhaoAccepts(t)
  PROVE  \E styles, n : VigoZhaoLists(t, VigoZhaoCases(t), styles, n)
<1> DEFINE S == Styles(t)
           n == Cardinality(S)
           styles == Ascending(S)
           cs == VigoZhaoCases(t)
           style == [s \in S |-> [key |-> s, prompt |-> t.files[StylePath(s, "style")].text,
                                  refs |-> [m \in DOMAIN Previews |-> [id |-> m, path |-> StylePath(s, Previews[m])]],
                                  evidence |-> {StylePath(s, m) : m \in {"style"} \cup Range(Previews)},
                                  copied |-> NothingCopied]]
<1>1. /\ S \in SUBSET Nat /\ IsFiniteSet(S) /\ S # {}
  BY StylesFact
<1>2. n \in Nat \ {0}
  BY <1>1, FS_CardinalityType, FS_EmptySet
<1>3. Lists(styles, S, Less(S))
  <2>1. S \in SUBSET Int
    BY <1>1
  <2> HIDE DEF S
  <2> QED BY <1>1, <2>1, AscendingFact
<1>4. /\ styles \in [1..n -> S]
      /\ \A i, j \in 1..n : styles[i] = styles[j] => i = j
      /\ \A s \in S : \E i \in 1..n : styles[i] = s
  BY <1>3 DEF Lists
<1>5. /\ DOMAIN cs = DOMAIN styles
      /\ \A i \in DOMAIN styles :
           /\ cs[i].key = styles[i] /\ cs[i].prompt = t.files[StylePath(styles[i], "style")].text
           /\ cs[i].refs = [m \in DOMAIN Previews |-> [id |-> m, path |-> StylePath(styles[i], Previews[m])]]
           /\ cs[i].copied = NothingCopied
  <2>1. cs = [i \in DOMAIN styles |-> style[styles[i]]]
    BY <1>4 DEF VigoZhaoCases, Styles
  <2>2. \A i \in DOMAIN styles : styles[i] \in S
    BY <1>4
  <2> HIDE DEF S, styles, cs
  <2> QED BY <2>1, <2>2
<1> HIDE DEF n, styles, cs
<1>6. VigoZhaoLists(t, cs, styles, n)
  BY <1>2, <1>4, <1>5 DEF VigoZhaoLists
<1> QED BY <1>6 DEF cs

LEMMA VigoZhaoSound ==
  ASSUME NEW t, Shaped(t), t.strategy = "vigozhao", VigoZhaoAccepts(t)
  PROVE  SoundList(t, VigoZhaoCases(t))
<1> DEFINE S == Styles(t)
           cs == VigoZhaoCases(t)
<1>1. S \in SUBSET Nat /\ \A s \in S : Size[t.files[StylePath(s, "style")].text] >= 80
  BY StylesFact
<1>2. PICK styles, n : VigoZhaoLists(t, cs, styles, n)
  BY VigoZhaoListed
<1> HIDE DEF cs
<1>4. /\ n \in Nat \ {0} /\ styles \in [1..n -> S]
      /\ \A i, j \in 1..n : styles[i] = styles[j] => i = j
  BY <1>2 DEF VigoZhaoLists
<1>5. /\ DOMAIN cs = 1..n
      /\ \A i \in 1..n :
           /\ cs[i].key = styles[i] /\ cs[i].prompt = t.files[StylePath(styles[i], "style")].text
           /\ cs[i].refs = [m \in DOMAIN Previews |-> [id |-> m, path |-> StylePath(styles[i], Previews[m])]]
           /\ cs[i].copied = NothingCopied
  BY <1>2 DEF VigoZhaoLists
<1> HIDE DEF S
<1>6. ASSUME NEW i \in 1..n PROVE SoundCase(t, cs[i])
  <2> DEFINE refs == cs[i].refs
  <2>1. styles[i] \in S /\ styles[i] \in Nat
    BY <1>1, <1>4
  <2>2. normalize_prompt(cs[i].prompt) # "blank"
    BY <1>1, <1>4, <1>5, <2>1, LongIsNotBlank
  <2>3. DOMAIN Previews = 1..2 /\ Previews[1] # Previews[2]
    BY DEF Previews
  <2>4. /\ DOMAIN refs = 1..2
        /\ \A m \in 1..2 : refs[m].id = m /\ refs[m].path = StylePath(styles[i], Previews[m])
    <3>1. refs = [m \in 1..2 |-> [id |-> m, path |-> StylePath(styles[i], Previews[m])]]
      BY <1>4, <1>5, <2>3
    <3> HIDE DEF refs
    <3> QED BY <3>1
  <2> HIDE DEF refs
  <2>5. \A l, m \in DOMAIN refs : refs[l].path = refs[m].path => l = m
    <3>1. \A l, m \in 1..2 : Previews[l] = Previews[m] => l = m
      BY <2>3
    <3> QED BY <2>4, <3>1 DEF StylePath
  <2>6. \A l, m \in DOMAIN refs : refs[l].id = refs[m].id => l = m
    BY <2>4
  <2>7. InTextOrder(refs)
    <3>1. 2 \in 1..9
      OBVIOUS
    <3> QED BY <2>4, <3>1, FewAreInTextOrder
  <2>8. \E k \in Nat \ {0} : DOMAIN refs = 1..k
    <3>1. 2 \in Nat \ {0}
      OBVIOUS
    <3> QED BY <2>4, <3>1
  <2>9. cs[i].key \in Nat
    BY <1>4, <1>5, <2>1
  <2>10. "blank" \notin cs[i].copied.tags /\ extension_and_boundary(cs[i].copied.parameters)
    <3>1. cs[i].copied = Copied({}, "none", 0)
      BY <1>4, <1>5 DEF NothingCopied
    <3> QED BY <3>1, WhatIsCopied DEF extension_and_boundary
  <2> QED BY <2>2, <2>5, <2>6, <2>7, <2>8, <2>9, <2>10 DEF SoundCase, refs
<1>7. DOMAIN cs = 1..n
  BY <1>4, <1>5
<1>8. \A i, j \in DOMAIN cs : cs[i].key = cs[j].key => i = j
  <2>1. \A i \in 1..n : cs[i].key = styles[i]
    BY <1>4, <1>5
  <2> QED BY <1>4, <1>7, <2>1
<1>9. 1 \in DOMAIN cs /\ \E k \in Nat : DOMAIN cs = 1..k
  BY <1>4, <1>7
<1>10. SoundList(t, cs)
  BY <1>6, <1>7, <1>8, <1>9 DEF SoundList
<1> QED BY <1>10 DEF cs

\* the index row of an admitted case
AdmittedRow(t, i) == CHOOSE x \in Range(t.doc.rows) : x.id = t.doc.admission.admitted[i]

\* The admitted rows of an accepted ChaosRealms tree are rows of it, each admitted once.
LEMMA ChaosRowsFact ==
  ASSUME NEW t, Shaped(t), t.strategy = "chaosrealms", ChaosAccepts(t)
  PROVE  LET admitted == t.doc.admission.admitted IN
         /\ Len(admitted) \in Nat \ {0} /\ DOMAIN admitted = 1..Len(admitted)
         /\ \A i \in DOMAIN admitted :
              /\ AdmittedRow(t, i) \in Range(t.doc.rows)
              /\ AdmittedRow(t, i).id = admitted[i] /\ admitted[i] \in Nat
              /\ ChaosCase(t, AdmittedRow(t, i))
         /\ \A i, j \in DOMAIN admitted : admitted[i] = admitted[j] => i = j
<1> DEFINE rows == t.doc.rows
           admitted == t.doc.admission.admitted
<1>1. IsList(rows) /\ IsList(admitted) /\ \A r \in Range(rows) : r.id \in Nat
  BY DEF Shaped
<1>2. /\ admitted # <<>> /\ Increasing(admitted)
      /\ Range(admitted) \subseteq Range(Column(rows, "id"))
      /\ \A r \in Range(rows) : r.id \in Range(admitted) => ChaosCase(t, r)
  BY DEF ChaosAccepts, ChaosAdmission
<1>3. Len(admitted) \in Nat \ {0} /\ DOMAIN admitted = 1..Len(admitted)
  BY <1>1, <1>2, ListFact
<1>4. \A x \in Range(Column(rows, "id")) : \E r \in Range(rows) : r.id = x
  BY DEF Range, Column
<1>5. ASSUME NEW i \in DOMAIN admitted
      PROVE  /\ AdmittedRow(t, i) \in Range(rows)
             /\ AdmittedRow(t, i).id = admitted[i] /\ admitted[i] \in Nat
             /\ ChaosCase(t, AdmittedRow(t, i))
  <2>1. admitted[i] \in Range(admitted)
    BY <1>1, ListFact
  <2>2. \E r \in Range(rows) : r.id = admitted[i]
    BY <1>2, <1>4, <2>1
  <2>3. AdmittedRow(t, i) \in Range(rows) /\ AdmittedRow(t, i).id = admitted[i]
    BY <2>2 DEF AdmittedRow
  <2> QED BY <1>1, <1>2, <2>1, <2>3
<1>6. \A i, j \in DOMAIN admitted : admitted[i] = admitted[j] => i = j
  <2> HIDE DEF rows, admitted
  <2>1. \A i \in DOMAIN admitted : admitted[i] \in Nat
    BY <1>5
  <2> QED BY <1>2, <1>3, <2>1 DEF Increasing
<1> QED BY <1>3, <1>5, <1>6

LEMMA ChaosSound ==
  ASSUME NEW t, Shaped(t), t.strategy = "chaosrealms", ChaosAccepts(t)
  PROVE  SoundList(t, ChaosCases(t))
<1> DEFINE admitted == t.doc.admission.admitted
           row == [i \in DOMAIN admitted |-> AdmittedRow(t, i)]
           n == Len(admitted)
           cs == ChaosCases(t)
           made == [r \in Range(row) |->
                      [key |-> r.id, prompt |-> t.files[r.meta].text,
                       refs |-> [m \in DOMAIN Variants |-> [id |-> m, path |-> WorkPath(r.meta[2], Variants[m])]],
                       evidence |-> {r.meta} \cup {WorkPath(r.meta[2], m) : m \in Range(Variants)},
                       copied |-> Copied({}, t.files[r.meta].ratio, 0)]]
<1>1. /\ n \in Nat \ {0} /\ DOMAIN admitted = 1..n
      /\ \A i \in 1..n : row[i].id = admitted[i] /\ admitted[i] \in Nat /\ ChaosCase(t, row[i])
      /\ \A i, j \in 1..n : admitted[i] = admitted[j] => i = j
  BY ChaosRowsFact
<1>8. \A i \in 1..n : t.files[row[i].meta].ratio = "decision" => DecidingRatio(t)
  <2>1. \A i \in 1..n : row[i] \in Range(t.doc.rows) /\ row[i].id = admitted[i]
    BY <1>1, ChaosRowsFact
  <2>2. \A i \in 1..n : admitted[i] \in Range(admitted)
    BY <1>1 DEF Range
  <2> HIDE DEF row, n
  <2> QED BY <2>1, <2>2 DEF DecidingRatio
<1>2. /\ DOMAIN cs = DOMAIN admitted
      /\ \A i \in DOMAIN admitted :
           /\ cs[i].key = row[i].id /\ cs[i].prompt = t.files[row[i].meta].text
           /\ cs[i].refs = [m \in DOMAIN Variants |-> [id |-> m, path |-> WorkPath(row[i].meta[2], Variants[m])]]
           /\ cs[i].copied = Copied({}, t.files[row[i].meta].ratio, 0)
  <2>1. \A i \in DOMAIN admitted : row[i] \in Range(row)
    BY DEF Range
  <2>2. cs = [i \in DOMAIN admitted |-> made[row[i]]]
    BY <2>1 DEF ChaosCases, AdmittedRow
  <2> HIDE DEF admitted, row, cs
  <2> QED BY <2>1, <2>2
<1> HIDE DEF admitted, row, n, cs
<1>3. ASSUME NEW i \in 1..n PROVE SoundCase(t, cs[i])
  <2> DEFINE refs == cs[i].refs
  <2>1. normalize_prompt(cs[i].prompt) # "blank"
    <3>1. Size[t.files[row[i].meta].text] >= 80
      BY <1>1 DEF ChaosCase
    <3>2. normalize_prompt(t.files[row[i].meta].text) # "blank"
      BY <3>1, LongIsNotBlank
    <3> QED BY <1>1, <1>2, <3>2
  <2>2. DOMAIN Variants = 1..3 /\ \A l, m \in 1..3 : Variants[l] = Variants[m] => l = m
    BY DEF Variants
  <2>3. /\ DOMAIN refs = 1..3
        /\ \A m \in 1..3 : refs[m].id = m /\ refs[m].path = WorkPath(row[i].meta[2], Variants[m])
    <3>1. refs = [m \in 1..3 |-> [id |-> m, path |-> WorkPath(row[i].meta[2], Variants[m])]]
      BY <1>1, <1>2, <2>2
    <3> HIDE DEF refs
    <3> QED BY <3>1
  <2> HIDE DEF refs
  <2>4. \A l, m \in DOMAIN refs : refs[l].path = refs[m].path => l = m
    BY <2>2, <2>3 DEF WorkPath
  <2>5. \A l, m \in DOMAIN refs : refs[l].id = refs[m].id => l = m
    BY <2>3
  <2>6. InTextOrder(refs)
    <3>1. 3 \in 1..9
      OBVIOUS
    <3> QED BY <2>3, <3>1, FewAreInTextOrder
  <2>7. \E k \in Nat \ {0} : DOMAIN refs = 1..k
    <3>1. 3 \in Nat \ {0}
      OBVIOUS
    <3> QED BY <2>3, <3>1
  <2>8. cs[i].key \in Nat
    BY <1>1, <1>2
  <2>9. "blank" \notin cs[i].copied.tags /\ cs[i].copied.parameters = t.files[row[i].meta].ratio
    <3>1. cs[i].copied = Copied({}, t.files[row[i].meta].ratio, 0)
      BY <1>1, <1>2
    <3> QED BY <3>1, WhatIsCopied
  <2>10. ~extension_and_boundary(cs[i].copied.parameters) => DecidingRatio(t)
    BY <1>8, <2>9 DEF extension_and_boundary
  <2> QED BY <2>1, <2>4, <2>5, <2>6, <2>7, <2>8, <2>9, <2>10 DEF SoundCase, refs
<1>4. DOMAIN cs = 1..n
  BY <1>1, <1>2
<1>5. \A i, j \in DOMAIN cs : cs[i].key = cs[j].key => i = j
  <2>1. \A i \in 1..n : cs[i].key = admitted[i]
    BY <1>1, <1>2
  <2> QED BY <1>1, <1>4, <2>1
<1>6. 1 \in DOMAIN cs /\ \E k \in Nat : DOMAIN cs = 1..k
  BY <1>1, <1>4
<1>7. SoundList(t, cs)
  BY <1>3, <1>4, <1>5, <1>6 DEF SoundList
<1> QED BY <1>7 DEF cs

\* So for each adapter.
LEMMA ListedIsSound ==
  ASSUME NEW t, Shaped(t), Accepts(t)
  PROVE  SoundList(t, Listed(t))
<1>1. t.strategy \in DOMAIN Asked
  BY DEF Shaped
<1>2. CASE t.strategy = "g0dam"
  BY <1>2, G0damSound DEF Accepts, Listed
<1>3. CASE t.strategy = "joesai"
  BY <1>3, JoeSaiSound DEF Accepts, Listed
<1>4. CASE t.strategy = "conardli"
  BY <1>4, ConardLiSound DEF Accepts, Listed
<1>5. CASE t.strategy = "freestylefly"
  BY <1>5, FreestyleflySound DEF Accepts, Listed
<1>6. CASE t.strategy = "erickkkyt"
  BY <1>6, ErickkkytSound DEF Accepts, Listed
<1>7. CASE t.strategy = "vigozhao"
  BY <1>7, VigoZhaoSound DEF Accepts, Listed
<1>8. CASE t.strategy = "chaosrealms"
  BY <1>8, ChaosSound DEF Accepts, Listed
<1> QED BY <1>1, <1>2, <1>3, <1>4, <1>5, <1>6, <1>7, <1>8 DEF Asked

-----------------------------------------------------------------------------
(* Sorting by case key.                                                    *)

KeysApart(cs, n) ==
  /\ n \in Nat /\ DOMAIN cs = 1..n
  /\ \A i \in 1..n : cs[i].key \in Nat
  /\ \A i, j \in 1..n : cs[i].key = cs[j].key => i = j

\* order puts cs in the order of the keys
OrdersKeys(order, cs, n) ==
  /\ order \in [1..n -> 1..n]
  /\ \A i, j \in 1..n : order[i] = order[j] => i = j
  /\ \A k \in 1..n : \E i \in 1..n : order[i] = k
  /\ ByKey(cs) = [i \in 1..n |-> cs[order[i]]]
  /\ \A i, j \in 1..n : i < j => cs[order[i]].key < cs[order[j]].key

\* Cases with different keys have one order by key,
LEMMA ByKeyFact ==
  ASSUME NEW cs, NEW n, KeysApart(cs, n)
  PROVE  \E order : OrdersKeys(order, cs, n)
<1> DEFINE rank == Column(cs, "key")
<1>1. n \in Nat /\ DOMAIN cs = 1..n
  BY DEF KeysApart
<1>2. \A i \in 1..n : rank[i] = cs[i].key
  BY <1>1 DEF Column
<1>3. rank \in [1..n -> Int]
  BY <1>1 DEF KeysApart, Column
<1>4. ByKey(cs) = SortedByRank(cs, rank)
  BY DEF ByKey
<1> HIDE DEF rank
<1>5. PICK order : SortsByRank(order, n, cs, rank)
  BY <1>1, <1>3, SortedByRankFact
<1>6. /\ order \in [1..n -> 1..n]
      /\ \A i, j \in 1..n : order[i] = order[j] => i = j
      /\ \A k \in 1..n : \E i \in 1..n : order[i] = k
      /\ ByKey(cs) = [i \in 1..n |-> cs[order[i]]]
  BY <1>4, <1>5 DEF SortsByRank
<1>7. ASSUME NEW i \in 1..n, NEW j \in 1..n, i < j PROVE cs[order[i]].key < cs[order[j]].key
  <2>1. order[i] \in 1..n /\ order[j] \in 1..n /\ order[i] # order[j]
    <3>1. i # j
      BY <1>1, <1>7
    <3> QED BY <1>6, <3>1
  <2>2. rank[order[i]] <= rank[order[j]]
    BY <1>3, <1>5, <1>7, <2>1 DEF SortsByRank
  <2>3. rank[order[i]] = cs[order[i]].key /\ rank[order[j]] = cs[order[j]].key
    BY <1>2, <2>1
  <2>4. cs[order[i]].key # cs[order[j]].key /\ cs[order[i]].key \in Nat /\ cs[order[j]].key \in Nat
    BY <2>1 DEF KeysApart
  <2> QED BY <2>2, <2>3, <2>4
<1> QED BY <1>6, <1>7 DEF OrdersKeys

\* what the list has in the order of its keys
Sorted(cs, n, s) ==
  /\ n \in Nat /\ DOMAIN s = 1..n /\ IsList(s)
  /\ \A i \in 1..n : s[i] \in Range(cs)
  /\ Range(s) = Range(cs)
  /\ \A i \in 1..n : s[i].key \in Nat
  /\ \A i, j \in 1..n : i < j => s[i].key < s[j].key
  /\ \A i, j \in 1..n : s[i].key = s[j].key => i = j

\* and ByKey lists them in it.
LEMMA ByKeySorts ==
  ASSUME NEW cs, NEW n, KeysApart(cs, n)
  PROVE  Sorted(cs, n, ByKey(cs))
<1> DEFINE s == ByKey(cs)
<1>1. PICK order : OrdersKeys(order, cs, n)
  BY ByKeyFact
<1>2. /\ order \in [1..n -> 1..n]
      /\ \A i, j \in 1..n : order[i] = order[j] => i = j
      /\ \A k \in 1..n : \E i \in 1..n : order[i] = k
      /\ s = [i \in 1..n |-> cs[order[i]]]
      /\ \A i, j \in 1..n : i < j => cs[order[i]].key < cs[order[j]].key
  BY <1>1 DEF OrdersKeys
<1>3. /\ n \in Nat /\ DOMAIN cs = 1..n
      /\ \A i \in 1..n : cs[i].key \in Nat
      /\ \A i, j \in 1..n : cs[i].key = cs[j].key => i = j
  BY DEF KeysApart
<1> HIDE DEF s
<1>4. DOMAIN s = 1..n /\ \A i \in 1..n : s[i] = cs[order[i]] /\ order[i] \in 1..n
  BY <1>2
<1>5. \A i \in 1..n : s[i] \in Range(cs)
  BY <1>3, <1>4 DEF Range
<1>6. Range(s) = Range(cs)
  <2>1. ASSUME NEW x \in Range(cs) PROVE x \in Range(s)
    <3>1. PICK k \in 1..n : x = cs[k]
      BY <1>3 DEF Range
    <3>2. PICK i \in 1..n : order[i] = k
      BY <1>2
    <3> QED BY <1>4, <3>1, <3>2 DEF Range
  <2> QED BY <1>4, <1>5, <2>1 DEF Range
<1>7. \A i \in 1..n : s[i].key \in Nat
  BY <1>3, <1>4
<1>8. \A i, j \in 1..n : i < j => s[i].key < s[j].key
  BY <1>2, <1>4
<1>9. ASSUME NEW i \in 1..n, NEW j \in 1..n, s[i].key = s[j].key PROVE i = j
  <2>1. cs[order[i]].key = cs[order[j]].key /\ order[i] \in 1..n /\ order[j] \in 1..n
    BY <1>4, <1>9
  <2>2. order[i] = order[j]
    BY <1>3, <2>1
  <2> QED BY <1>2, <2>2
<1>10. IsList(s)
  BY <1>2, <1>3, ListOf
<1> QED BY <1>3, <1>4, <1>5, <1>6, <1>7, <1>8, <1>9, <1>10 DEF Sorted, s

\* What an adapter lists has different keys.
LEMMA ListedKeysApart ==
  ASSUME NEW t, Shaped(t), Accepts(t)
  PROVE  \E n : KeysApart(Listed(t), n)
<1>1. SoundList(t, Listed(t))
  BY ListedIsSound
<1>2. PICK n \in Nat : DOMAIN Listed(t) = 1..n
  BY <1>1 DEF SoundList
<1>3. KeysApart(Listed(t), n)
  BY <1>1, <1>2 DEF SoundList, SoundCase, KeysApart
<1> QED BY <1>3

\* the cases of an accepted tree, ascending by key, each what its adapter made
LEMMA CasesAreSound ==
  ASSUME NEW t, Shaped(t), Accepts(t)
  PROVE  /\ \E n : Sorted(Listed(t), n, Cases(t))
         /\ SoundList(t, Cases(t))
<1>1. SoundList(t, Listed(t))
  BY ListedIsSound
<1>2. PICK n : KeysApart(Listed(t), n)
  BY ListedKeysApart
<1>3. Sorted(Listed(t), n, Cases(t))
  BY <1>2, ByKeySorts DEF Cases
<1>4. n \in Nat /\ DOMAIN Listed(t) = 1..n /\ DOMAIN Cases(t) = 1..n
  BY <1>2, <1>3 DEF KeysApart, Sorted
<1>5. \A i \in DOMAIN Cases(t) : SoundCase(t, Cases(t)[i])
  <2> TAKE i \in DOMAIN Cases(t)
  <2>1. Cases(t)[i] \in Range(Listed(t))
    BY <1>3, <1>4 DEF Sorted
  <2> QED BY <1>1, <2>1 DEF Range, SoundList
<1>6. \A i, j \in DOMAIN Cases(t) : Cases(t)[i].key = Cases(t)[j].key => i = j
  BY <1>3, <1>4 DEF Sorted
<1>7. t.strategy = "g0dam" \/ 1 \in DOMAIN Cases(t)
  BY <1>1, <1>4 DEF SoundList
<1>8. SoundList(t, Cases(t))
  BY <1>4, <1>5, <1>6, <1>7 DEF SoundList
<1> QED BY <1>3, <1>8

-----------------------------------------------------------------------------
(* The stages of a call.                                                   *)

Parsed == Accepts(tree) /\ parsed = Cases(tree)
AssetsRead == Parsed /\ ImagesSound /\ OutputsDistinct /\ output = resolved_adapter_output(tree, parsed)
Projected ==
  /\ AssetsRead /\ validate_adapter_output(audit, output)
  /\ examples = [i \in DOMAIN output |-> generation_example_for(output[i])]
Packaged ==
  /\ Projected
  /\ plan.sources = AssetSources(output, examples)
  /\ plan.files = SourceFiles(output, plan.sources)
  /\ plan.metrics = extraction_metrics(output, examples)

\* the call ended at a stage that does not accept
Refused ==
  \/ ~Accepts(tree) /\ parsed = <<>> /\ (answer = "escaped" => Escapes(tree))
  \/ answer = "refused" /\ Parsed /\ ~(ImagesSound /\ OutputsDistinct)
  \/ answer = "refused" /\ AssetsRead /\ ~validate_adapter_output(audit, output)
  \/ answer = "refused" /\ Packaged /\ ~(output # <<>> /\ AuditAgrees)

StageInv ==
  /\ tree \in Trees /\ audit \in Audits(tree)
  /\ stage \in {"parse", "assets", "output", "examples", "package", "done"}
  /\ stage # "done" => answer = "none"
  /\ stage = "parse" => parsed = <<>>
  /\ stage = "assets" => Parsed
  /\ stage = "output" => AssetsRead
  /\ stage = "examples" => Projected
  /\ stage = "package" => Packaged
  /\ stage = "done" =>
       \/ answer = "planned" /\ Packaged /\ output # <<>> /\ AuditAgrees
       \/ answer \in {"refused", "escaped"} /\ Refused

\* Every step of a call is taken on what the stages before it have made of the
\* same tree, and a call that is refused ends at the stage that refuses.
THEOREM StageInvariant == Spec => []StageInv
<1>1. Init => StageInv
  BY DEF Init, StageInv
<1>2. StageInv /\ [Next]_vars => StageInv'
  <2> SUFFICES ASSUME StageInv, [Next]_vars PROVE StageInv'
    OBVIOUS
  <2>1. CASE Parse
    BY <2>1 DEF StageInv, Parse, Parsed
  <2>2. CASE ReadAssets
    BY <2>2 DEF StageInv, ReadAssets, Parsed, AssetsRead, ImagesSound, OutputsDistinct
  <2>3. CASE Project
    BY <2>3 DEF StageInv, Project, Parsed, AssetsRead, Projected, ImagesSound, OutputsDistinct
  <2>4. CASE Publish
    BY <2>4 DEF StageInv, Publish, Parsed, AssetsRead, Projected, Packaged, ImagesSound, OutputsDistinct
  <2>5. CASE Plan
    BY <2>5 DEF StageInv, Plan, Parsed, AssetsRead, Projected, Packaged, ImagesSound, OutputsDistinct, AuditAgrees
  <2>6. CASE Refuse
    BY <2>6 DEF StageInv, Refuse, Refused, Parsed, AssetsRead, Projected, Packaged, ImagesSound, OutputsDistinct,
               AuditAgrees
  <2>7. CASE UNCHANGED vars
    BY <2>7 DEF StageInv, vars, Refused, Parsed, AssetsRead, Projected, Packaged, ImagesSound, OutputsDistinct,
               AuditAgrees
  <2> QED BY <2>1, <2>2, <2>3, <2>4, <2>5, <2>6, <2>7 DEF Next
<1> QED BY <1>1, <1>2, PTL DEF Spec

-----------------------------------------------------------------------------
(* The adapter output.                                                     *)

\* Resolving a case adds the bytes of its images.
LEMMA ResolvedFact ==
  ASSUME NEW t, NEW c, NEW k \in Nat, DOMAIN c.refs = 1..k
  PROVE  /\ Resolved(t, c).key = c.key /\ Resolved(t, c).prompt = c.prompt
         /\ Resolved(t, c).evidence = c.evidence /\ Resolved(t, c).copied = c.copied
         /\ DOMAIN Resolved(t, c).refs = 1..k
         /\ \A i \in 1..k : Resolved(t, c).refs[i] =
              [id |-> c.refs[i].id, path |-> c.refs[i].path, hash |-> t.files[c.refs[i].path].bytes]
         /\ \A i \in 1..k :
              /\ Resolved(t, c).refs[i].id = c.refs[i].id
              /\ Resolved(t, c).refs[i].path = c.refs[i].path
              /\ Resolved(t, c).refs[i].hash = t.files[c.refs[i].path].bytes
<1> DEFINE r == Resolved(t, c)
<1>1. /\ r.key = c.key /\ r.prompt = c.prompt /\ r.evidence = c.evidence /\ r.copied = c.copied
      /\ r.refs = [i \in 1..k |-> [id |-> c.refs[i].id, path |-> c.refs[i].path,
                                   hash |-> t.files[c.refs[i].path].bytes]]
  BY DEF Resolved
<1> HIDE DEF r
<1>2. DOMAIN r.refs = 1..k
  BY <1>1
<1>3. \A i \in 1..k : r.refs[i] =
        [id |-> c.refs[i].id, path |-> c.refs[i].path, hash |-> t.files[c.refs[i].path].bytes]
  BY <1>1
<1>4. \A i \in 1..k :
        /\ r.refs[i].id = c.refs[i].id
        /\ r.refs[i].path = c.refs[i].path
        /\ r.refs[i].hash = t.files[c.refs[i].path].bytes
  <2> TAKE i \in 1..k
  <2> DEFINE ref == c.refs[i]
             bytes == t.files[c.refs[i].path].bytes
  <2>1. r.refs[i] = [id |-> ref.id, path |-> ref.path, hash |-> bytes]
    BY <1>3
  <2> HIDE DEF ref, bytes
  <2>2. r.refs[i].id = ref.id /\ r.refs[i].path = ref.path /\ r.refs[i].hash = bytes
    BY <2>1
  <2> QED BY <2>2 DEF ref, bytes
<1> QED BY <1>1, <1>2, <1>3, <1>4 DEF r

\* records is the resolved list of cs in the order of the keys
Output(t, cs, n, records) ==
  /\ n \in Nat /\ DOMAIN cs = 1..n /\ DOMAIN records = 1..n /\ IsList(records)
  /\ \A i, j \in 1..n : i < j => records[i].key < records[j].key
  /\ \A i, j \in 1..n : records[i].key = records[j].key => i = j
  /\ \A i \in 1..n : \E c \in Range(cs) : records[i] = Resolved(t, c) /\ SoundCase(t, c)
  /\ \A c \in Range(cs) : \E i \in 1..n : records[i] = Resolved(t, c)
  /\ \A c \in Range(cs) : SoundCase(t, c)

\* The output has one record for each listed case.
LEMMA OutputFact ==
  ASSUME NEW t, NEW cs, SoundList(t, cs)
  PROVE  \E n : Output(t, cs, n, resolved_adapter_output(t, cs))
<1> DEFINE listed == [i \in DOMAIN cs |-> Resolved(t, cs[i])]
           records == resolved_adapter_output(t, cs)
<1>1. PICK n \in Nat : DOMAIN cs = 1..n
  BY DEF SoundList
<1>2. \A c \in Range(cs) : SoundCase(t, c)
  BY DEF SoundList, Range
<1>3. \A i \in 1..n : cs[i] \in Range(cs)
  BY <1>1 DEF Range
<1>4. \A i \in 1..n : Resolved(t, cs[i]).key = cs[i].key
  BY DEF Resolved
<1>5. KeysApart(listed, n)
  <2>1. DOMAIN listed = 1..n /\ \A i \in 1..n : listed[i].key = cs[i].key
    BY <1>1, <1>4
  <2>2. \A i \in 1..n : cs[i].key \in Nat
    BY <1>2, <1>3 DEF SoundCase
  <2>3. \A i, j \in 1..n : cs[i].key = cs[j].key => i = j
    BY <1>1 DEF SoundList
  <2> HIDE DEF listed
  <2> QED BY <2>1, <2>2, <2>3 DEF KeysApart
<1>6. Sorted(listed, n, records)
  <2>1. Sorted(listed, n, ByKey(listed))
    <3> HIDE DEF listed
    <3> QED BY <1>5, ByKeySorts
  <2> QED BY <2>1 DEF resolved_adapter_output
<1>7. Range(listed) = {Resolved(t, c) : c \in Range(cs)}
  BY DEF Range
<1> HIDE DEF listed, records
<1>8. \A i \in 1..n : \E c \in Range(cs) : records[i] = Resolved(t, c) /\ SoundCase(t, c)
  BY <1>2, <1>6, <1>7 DEF Sorted
<1>9. ASSUME NEW c \in Range(cs) PROVE \E i \in 1..n : records[i] = Resolved(t, c)
  <2>1. Resolved(t, c) \in Range(records) /\ DOMAIN records = 1..n
    BY <1>6, <1>7 DEF Sorted
  <2> QED BY <2>1 DEF Range
<1>10. Output(t, cs, n, records)
  BY <1>1, <1>2, <1>6, <1>8, <1>9 DEF Output, Sorted
<1> QED BY <1>10 DEF records

\* the contract takes the output of sound cases if it takes the audit record and
\* nothing bad was copied
LEMMA OutputIsTaken ==
  ASSUME NEW t, NEW cs, NEW n, NEW records, Output(t, cs, n, records), NEW a, source_binding(a),
         \A c \in Range(cs) : InTextOrder(c.refs),
         ~BlankLanguage(t), ~DecidingRatio(t)
  PROVE  validate_adapter_output(a, records)
<1>1. \A i, j \in DOMAIN records : i < j => records[i].key < records[j].key
  BY DEF Output
<1>2. ASSUME NEW r \in Range(records)
      PROVE  /\ normalize_prompt(r.prompt) # "blank" /\ r.refs # <<>> /\ InTextOrder(r.refs)
             /\ "blank" \notin r.copied.tags /\ extension_and_boundary(r.copied.parameters)
  <2>1. PICK c \in Range(cs) : r = Resolved(t, c) /\ SoundCase(t, c)
    BY <1>2 DEF Output, Range
  <2>2. PICK k \in Nat \ {0} : DOMAIN c.refs = 1..k
    BY <2>1 DEF SoundCase
  <2>3. /\ r.prompt = c.prompt /\ r.copied = c.copied /\ DOMAIN r.refs = 1..k
        /\ \A i \in 1..k : r.refs[i].id = c.refs[i].id
    BY <2>1, <2>2, ResolvedFact
  <2>4. r.refs # <<>>
    BY <2>2, <2>3
  <2>5. InTextOrder(r.refs)
    BY <2>2, <2>3 DEF InTextOrder
  <2> QED BY <2>1, <2>3, <2>4, <2>5 DEF SoundCase
<1> QED BY <1>1, <1>2 DEF validate_adapter_output, adapter_schema, validate_adapter_semantics

\* A case without distinct outputs has an image twice.
LEMMA EqualBytes ==
  ASSUME NEW t, NEW c, SoundCase(t, c), ~DistinctOutputs(Resolved(t, c))
  PROVE  \E x, y \in Range(c.refs) : x # y /\ t.files[x.path].bytes = t.files[y.path].bytes
<1>1. PICK k \in Nat \ {0} : DOMAIN c.refs = 1..k
  BY DEF SoundCase
<1> DEFINE refs == Resolved(t, c).refs
<1>2. /\ DOMAIN refs = 1..k
      /\ \A i \in 1..k : refs[i].hash = t.files[c.refs[i].path].bytes
  BY <1>1, ResolvedFact
<1>3. ~IsInjective(Column(refs, "hash"))
  BY DEF DistinctOutputs
<1> HIDE DEF refs
<1>4. PICK i \in 1..k, j \in 1..k : refs[i].hash = refs[j].hash /\ i # j
  BY <1>2, <1>3 DEF IsInjective, Column
<1>5. c.refs[i] \in Range(c.refs) /\ c.refs[j] \in Range(c.refs)
  BY <1>1 DEF Range
<1>6. c.refs[i] # c.refs[j]
  BY <1>1, <1>4 DEF SoundCase
<1> QED BY <1>2, <1>4, <1>5, <1>6

-----------------------------------------------------------------------------
(* Refusals.                                                               *)

\* A plan of some cases is a plan.
LEMMA PlanOfCasesIsSomething ==
  ASSUME Packaged, DOMAIN output # {}, IsList(output)
  PROVE  plan # Nothing
<1>1. plan.metrics.cases = Len(output)
  BY DEF Packaged, extraction_metrics
<1>2. Nothing.metrics.cases = 0
  BY DEF Nothing
<1>3. Len(output) # 0
  BY ListFact
<1> QED BY <1>1, <1>2, <1>3

\* What an adapter accepts is refused later only for its images, for the audit
\* record, for erickkkyt pair ids out of order as texts or a language of white
\* space, for a chaosrealms ratio that carries a decision, or for an empty g0dam
\* manifest, and only a g0dam path escapes as another error.
THEOREM RefusalsAreExplained == Spec => []RefusalIsExplained
<1>1. StageInv => RefusalIsExplained
  <2> SUFFICES ASSUME StageInv PROVE RefusalIsExplained
    OBVIOUS
  <2>1. Shaped(tree)
    BY TreesAssumption DEF StageInv
  <2>2. answer = "escaped" => tree.strategy = "g0dam"
    BY DEF StageInv, Refused, Escapes
  <2>3. ASSUME stage = "done", answer = "refused", Accepts(tree)
        PROVE  \/ \E c \in Range(parsed) : \E x \in Range(c.refs) : ~read_asset(tree, x.path)
               \/ \E c \in Range(parsed) : \E x, y \in Range(c.refs) :
                    x # y /\ tree.files[x.path].bytes = tree.files[y.path].bytes
               \/ ~source_binding(audit)
               \/ plan # Nothing /\ ~AuditAgrees
               \/ tree.strategy = "erickkkyt" /\ \E c \in Range(parsed) : ~InTextOrder(c.refs)
               \/ BlankLanguage(tree) \/ DecidingRatio(tree)
               \/ tree.strategy = "g0dam" /\ parsed = <<>>
    <3>1. Refused /\ Parsed
      BY <2>3 DEF StageInv, Refused, AssetsRead, Packaged, Projected
    <3>2. SoundList(tree, parsed)
      BY <2>1, <3>1, CasesAreSound DEF Parsed
    <3>3. \A c \in Range(parsed) : SoundCase(tree, c)
      BY <3>2 DEF SoundList, Range
    <3>4. CASE ~ImagesSound
      BY <3>4 DEF ImagesSound
    <3>5. CASE ~OutputsDistinct
      BY <3>3, <3>5, EqualBytes DEF OutputsDistinct
    <3>6. CASE AssetsRead /\ ~validate_adapter_output(audit, output)
      <4>1. PICK n : Output(tree, parsed, n, output)
        BY <3>2, <3>6, OutputFact DEF AssetsRead
      <4>2. \/ ~source_binding(audit) \/ \E c \in Range(parsed) : ~InTextOrder(c.refs)
            \/ BlankLanguage(tree) \/ DecidingRatio(tree)
        BY <3>6, <4>1, OutputIsTaken
      <4> QED BY <3>3, <4>2 DEF SoundCase
    <3>7. CASE Packaged /\ ~(output # <<>> /\ AuditAgrees)
      <4>1. AssetsRead
        BY <3>7 DEF Packaged, Projected
      <4>2. PICK n : Output(tree, parsed, n, output)
        BY <3>2, <4>1, OutputFact DEF AssetsRead
      <4>3. IsList(output) /\ n \in Nat /\ DOMAIN output = 1..n /\ DOMAIN parsed = 1..n
        BY <4>2 DEF Output
      <4>4. IsList(parsed)
        BY <2>1, <3>1, CasesAreSound DEF Parsed, Sorted
      <4>5. CASE DOMAIN output = {}
        <5>1. parsed = <<>>
          BY <4>3, <4>4, <4>5, ListFact
        <5>2. tree.strategy = "g0dam"
          BY <3>2, <4>3, <4>5 DEF SoundList
        <5> QED BY <5>1, <5>2
      <4>6. CASE DOMAIN output # {}
        <5>1. plan # Nothing
          BY <3>7, <4>3, <4>6, PlanOfCasesIsSomething
        <5>2. output # <<>>
          BY <4>6
        <5> QED BY <3>7, <5>1, <5>2
      <4> QED BY <4>5, <4>6
    <3> QED BY <2>3, <3>1, <3>4, <3>5, <3>6, <3>7 DEF Refused
  <2> QED BY <2>2, <2>3 DEF RefusalIsExplained
<1> QED BY <1>1, StageInvariant, PTL

-----------------------------------------------------------------------------
(* The plan.                                                               *)

\* the record an output document is of, and its reference of a content
Holder(records, e) == CHOOSE r \in Range(records) : r.key = e.key
Reference(records, e, hash) == CHOOSE x \in Range(Holder(records, e).refs) : x.hash = hash
DocumentSources(records, e) ==
  {[case |-> e.key, ref |-> Reference(records, e, g.output).id, path |-> Reference(records, e, g.output).path,
    hash |-> g.output] : g \in e.generations}

\* the sources of a case of the tree
CaseSources(t, c) ==
  {[case |-> c.key, ref |-> x.id, path |-> x.path, hash |-> t.files[x.path].bytes] : x \in Range(c.refs)}

\* The assets of a document are the images of its case.
LEMMA SourcesOfDocument ==
  ASSUME NEW t, NEW cs, NEW n, NEW records, Output(t, cs, n, records),
         NEW c \in Range(cs), NEW i \in 1..n, records[i] = Resolved(t, c), DistinctOutputs(records[i])
  PROVE  DocumentSources(records, generation_example_for(records[i])) = CaseSources(t, c)
<1> DEFINE r == records[i]
           e == generation_example_for(r)
<1>1. e.key = r.key /\ e.generations = {[id |-> x.id, output |-> x.hash] : x \in Range(r.refs)}
  BY DEF generation_example_for
<1>2. PICK k \in Nat \ {0} : DOMAIN c.refs = 1..k
  BY DEF Output, SoundCase
<1>3. /\ r.key = c.key /\ DOMAIN r.refs = 1..k
      /\ \A m \in 1..k :
           /\ r.refs[m] = [id |-> c.refs[m].id, path |-> c.refs[m].path, hash |-> t.files[c.refs[m].path].bytes]
           /\ r.refs[m].id = c.refs[m].id
           /\ r.refs[m].path = c.refs[m].path
           /\ r.refs[m].hash = t.files[c.refs[m].path].bytes
  <2>1. r = Resolved(t, c) /\ k \in Nat
    BY <1>2
  <2> HIDE DEF r, e
  <2>2. /\ r.key = c.key /\ r.refs = [m \in 1..k |-> [id |-> c.refs[m].id, path |-> c.refs[m].path,
                                                     hash |-> t.files[c.refs[m].path].bytes]]
    BY <1>2, <2>1 DEF Resolved
  <2>3. DOMAIN r.refs = 1..k
    BY <2>2
  <2>4. ASSUME NEW m \in 1..k
        PROVE  r.refs[m] = [id |-> c.refs[m].id, path |-> c.refs[m].path, hash |-> t.files[c.refs[m].path].bytes]
    BY <2>2
  <2>5. \A m \in 1..k : r.refs[m].id = c.refs[m].id /\ r.refs[m].path = c.refs[m].path
                        /\ r.refs[m].hash = t.files[c.refs[m].path].bytes
    <3> TAKE m \in 1..k
    <3> DEFINE a == r.refs[m]
               id == c.refs[m].id
               path == c.refs[m].path
               hash == t.files[c.refs[m].path].bytes
    <3>1. a = [id |-> id, path |-> path, hash |-> hash]
      BY <2>4
    <3> HIDE DEF a, id, path, hash
    <3>2. a.id = id /\ a.path = path /\ a.hash = hash
      BY <3>1
    <3> QED BY <3>2 DEF a, id, path, hash
  <2> QED BY <2>2, <2>3, <2>4, <2>5
<1>4. IsInjective(Column(r.refs, "hash"))
  BY DEF DistinctOutputs
<1>5. r \in Range(records)
  BY DEF Output, Range
<1>6. \A q \in Range(records) : q.key = r.key => q = r
  BY DEF Output, Range
<1> HIDE DEF r, e
<1>7. Holder(records, e) = r
  BY <1>1, <1>5, <1>6 DEF Holder
<1>8. \A x \in Range(r.refs) : Reference(records, e, x.hash) = x
  <2>1. \A l, m \in 1..k : r.refs[l].hash = r.refs[m].hash => l = m
    BY <1>3, <1>4, ColumnFact
  <2>2. \A x, y \in Range(r.refs) : x.hash = y.hash => x = y
    BY <1>3, <2>1 DEF Range
  <2> QED BY <1>7, <2>2 DEF Reference
<1>9. DocumentSources(records, e) =
        {[case |-> e.key, ref |-> Reference(records, e, x.hash).id, path |-> Reference(records, e, x.hash).path,
          hash |-> x.hash] : x \in Range(r.refs)}
  <2>1. \A x : [id |-> x.id, output |-> x.hash].output = x.hash
    OBVIOUS
  <2> DEFINE S(h) == [case |-> e.key, ref |-> Reference(records, e, h).id, path |-> Reference(records, e, h).path,
                      hash |-> h]
  <2>2. DocumentSources(records, e) = {S(g.output) : g \in e.generations}
    BY DEF DocumentSources
  <2>3. {S(g.output) : g \in e.generations} = {S(x.hash) : x \in Range(r.refs)}
    <3> HIDE DEF S
    <3> QED BY <1>1, <2>1
  <2> QED BY <2>2, <2>3
<1>10. DocumentSources(records, e) =
         {[case |-> c.key, ref |-> x.id, path |-> x.path, hash |-> x.hash] : x \in Range(r.refs)}
  BY <1>1, <1>3, <1>8, <1>9
<1>11. {[case |-> c.key, ref |-> x.id, path |-> x.path, hash |-> x.hash] : x \in Range(r.refs)} =
         {[case |-> c.key, ref |-> r.refs[m].id, path |-> r.refs[m].path, hash |-> r.refs[m].hash] : m \in 1..k}
  BY <1>3 DEF Range
<1>12. CaseSources(t, c) =
         {[case |-> c.key, ref |-> c.refs[m].id, path |-> c.refs[m].path, hash |-> t.files[c.refs[m].path].bytes] :
            m \in 1..k}
  BY <1>2 DEF Range, CaseSources
<1> DEFINE a(m) == [case |-> c.key, ref |-> r.refs[m].id, path |-> r.refs[m].path, hash |-> r.refs[m].hash]
           b(m) == [case |-> c.key, ref |-> c.refs[m].id, path |-> c.refs[m].path,
                    hash |-> t.files[c.refs[m].path].bytes]
<1>13. \A m \in 1..k : a(m) = b(m)
  BY <1>3
<1>14. DocumentSources(records, e) = {a(m) : m \in 1..k} /\ CaseSources(t, c) = {b(m) : m \in 1..k}
  BY <1>10, <1>11, <1>12
<1>15. DocumentSources(records, e) = CaseSources(t, c)
  <2> HIDE DEF a, b
  <2> QED BY <1>13, <1>14
<1> QED BY <1>15 DEF r, e

\* The assets of all documents are those of each.
LEMMA AssetSourcesFact ==
  ASSUME NEW records, NEW documents
  PROVE  AssetSources(records, documents) = UNION {DocumentSources(records, e) : e \in Range(documents)}
  BY DEF AssetSources, DocumentSources, Reference, Holder

-----------------------------------------------------------------------------
(* The number of generations.                                              *)

\* Generations counts disjoint sets as large as the generations of each document.
AsManyIn(D, documents, n) ==
  /\ n \in Nat /\ DOMAIN documents = 1..n
  /\ \A i \in 1..n : IsFiniteSet(D[i]) /\ Cardinality(documents[i].generations) = Cardinality(D[i])
  /\ \A i, j \in 1..n : i # j => D[i] \cap D[j] = {}

\* Generations are counted document by document.
LEMMA GenerationsCount ==
  ASSUME NEW n, NEW documents, NEW D, AsManyIn(D, documents, n)
  PROVE  Generations(documents) = Cardinality(UNION {D[i] : i \in 1..n})
<1> USE DEF AsManyIn
<1> DEFINE I == DOMAIN documents
           Equation(f) == f = [X \in SUBSET I |->
             IF X = {} THEN 0
             ELSE f[X \ {CHOOSE x \in X : TRUE}] + Cardinality(documents[CHOOSE x \in X : TRUE].generations)]
           sum == CHOOSE f : Equation(f)
           pick == [X \in SUBSET I |-> CHOOSE x \in X : TRUE]
           U(X) == UNION {D[i] : i \in X}
           g == [X \in SUBSET I |-> Cardinality(U(X))]
<1>1. Generations(documents) = sum[I]
  BY DEF Generations, FoldSeq, FoldFunction, FoldFunctionOnSet, MapThenFoldSet
<1>2. I = 1..n /\ IsFiniteSet(I)
  BY FS_Interval
<1>3. \A X \in SUBSET I : X # {} => pick[X] \in X
  OBVIOUS
<1>4. \A X \in SUBSET I : IsFiniteSet(U(X))
  <2> SUFFICES ASSUME NEW X \in SUBSET I PROVE IsFiniteSet(U(X))
    OBVIOUS
  <2> DEFINE S == {D[i] : i \in X}
             f == [i \in X |-> D[i]]
  <2>1. IsFiniteSet(X)
    BY <1>2, FS_Subset
  <2>2. f \in Surjection(X, S)
    BY DEF Surjection
  <2>3. IsFiniteSet(S)
    BY <2>1, <2>2, FS_Surjection
  <2>4. \A T \in S : IsFiniteSet(T)
    BY <1>2
  <2> HIDE DEF S
  <2>5. IsFiniteSet(UNION S)
    BY <2>3, <2>4, FS_UNION
  <2> QED BY <2>5 DEF S
<1>5. \A X \in SUBSET I : X # {} =>
        /\ pick[X] \in I /\ X \ {pick[X]} \in SUBSET I
        /\ g[X] = g[X \ {pick[X]}] + Cardinality(documents[pick[X]].generations)
  <2> SUFFICES ASSUME NEW X \in SUBSET I, X # {}
               PROVE  /\ pick[X] \in I /\ X \ {pick[X]} \in SUBSET I
                      /\ g[X] = g[X \ {pick[X]}] + Cardinality(documents[pick[X]].generations)
    OBVIOUS
  <2> DEFINE x == pick[X]
             Y == X \ {x}
  <2>1. x \in X /\ x \in I /\ Y \in SUBSET I
    BY <1>3
  <2> HIDE DEF x
  <2>2. U(X) = U(Y) \cup D[x]
    BY <2>1
  <2>3. U(Y) \cap D[x] = {}
    BY <1>2, <2>1
  <2>4. IsFiniteSet(U(Y)) /\ IsFiniteSet(D[x])
    BY <1>2, <1>4, <2>1
  <2> HIDE DEF U
  <2>5. Cardinality(U(Y) \cap D[x]) = 0
    BY <2>3, FS_EmptySet
  <2>6. /\ Cardinality(U(Y) \cup D[x]) = Cardinality(U(Y)) + Cardinality(D[x]) - Cardinality(U(Y) \cap D[x])
        /\ Cardinality(U(Y)) \in Nat /\ Cardinality(D[x]) \in Nat
    BY <2>4, FS_Union, FS_CardinalityType
  <2>7. Cardinality(U(X)) = Cardinality(U(Y)) + Cardinality(D[x])
    BY <2>2, <2>5, <2>6
  <2>8. Cardinality(D[x]) = Cardinality(documents[x].generations)
    BY <1>2, <2>1
  <2>9. g[X] = Cardinality(U(X)) /\ g[Y] = Cardinality(U(Y))
    BY <2>1
  <2> QED BY <2>1, <2>7, <2>8, <2>9 DEF x
<1>6. g[{}] = 0
  <2>1. U({}) = {}
    OBVIOUS
  <2> HIDE DEF U
  <2> QED BY <2>1, FS_EmptySet
<1>7. DOMAIN g = SUBSET I
  OBVIOUS
<1>8. g = [X \in SUBSET I |-> g[X]]
  OBVIOUS
<1> HIDE DEF g
<1>9. Equation(g)
  <2>1. \A X \in SUBSET I : g[X] =
          IF X = {} THEN 0
          ELSE g[X \ {CHOOSE x \in X : TRUE}] + Cardinality(documents[CHOOSE x \in X : TRUE].generations)
    BY <1>5, <1>6
  <2>2. [X \in SUBSET I |-> g[X]] = [X \in SUBSET I |->
             IF X = {} THEN 0
             ELSE g[X \ {CHOOSE x \in X : TRUE}] + Cardinality(documents[CHOOSE x \in X : TRUE].generations)]
    BY <2>1
  <2> QED BY <1>8, <2>2
<1>10. Equation(sum)
  <2> HIDE DEF Equation
  <2> QED BY <1>9
<1>11. \A X \in SUBSET I : sum[X] = g[X]
  <2>1. sum[{}] = g[{}]
    BY <1>6, <1>10
  <2>2. \A X \in SUBSET I : X # {} /\ sum[X \ {pick[X]}] = g[X \ {pick[X]}] => sum[X] = g[X]
    <3>1. \A X \in SUBSET I : X # {} =>
            sum[X] = sum[X \ {pick[X]}] + Cardinality(documents[pick[X]].generations)
      <4> HIDE DEF sum
      <4> QED BY <1>10
    <3> HIDE DEF sum, pick, U, Equation
    <3> QED BY <1>5, <3>1
  <2> HIDE DEF sum, I, pick, Equation
  <2>3. SameSteps(sum, g, I, pick)
    BY <1>3, <2>1, <2>2 DEF SameSteps
  <2>4. IsFiniteSet(I)
    BY <1>2
  <2> QED BY <2>3, <2>4, FoldIsUnique
<1>12. g[I] = Cardinality(U(I))
  BY DEF g
<1> QED BY <1>1, <1>2, <1>11, <1>12

\* The plan of an output has the images of all its cases, one generation each.
LEMMA PlanOfOutput ==
  ASSUME NEW t, NEW cs, NEW n, NEW records, Output(t, cs, n, records),
         \A c \in Range(cs) : DistinctOutputs(Resolved(t, c)),
         NEW documents, documents = [i \in DOMAIN records |-> generation_example_for(records[i])]
  PROVE  /\ AssetSources(records, documents) = UNION {CaseSources(t, c) : c \in Range(cs)}
         /\ Generations(documents) = Cardinality(AssetSources(records, documents))
<1> DEFINE D == [i \in 1..n |-> DocumentSources(records, documents[i])]
           sources == UNION {D[i] : i \in 1..n}
<1>1. /\ n \in Nat /\ DOMAIN records = 1..n /\ DOMAIN documents = 1..n
      /\ \A i \in 1..n : documents[i] = generation_example_for(records[i])
  BY DEF Output
<1>2. ASSUME NEW c \in Range(cs), NEW i \in 1..n, records[i] = Resolved(t, c)
      PROVE  D[i] = CaseSources(t, c)
  BY <1>1, <1>2, SourcesOfDocument
<1>3. AssetSources(records, documents) = sources
  <2>1. Range(documents) = {documents[i] : i \in 1..n}
    BY <1>1 DEF Range
  <2> QED BY <2>1, AssetSourcesFact
<1>4. sources = UNION {CaseSources(t, c) : c \in Range(cs)}
  <2>1. \A i \in 1..n : \E c \in Range(cs) : D[i] = CaseSources(t, c)
    BY <1>2 DEF Output
  <2>2. \A c \in Range(cs) : \E i \in 1..n : D[i] = CaseSources(t, c)
    BY <1>2 DEF Output
  <2> HIDE DEF D
  <2> QED BY <2>1, <2>2
<1>5. ASSUME NEW i \in 1..n
      PROVE  /\ IsFiniteSet(D[i]) /\ Cardinality(documents[i].generations) = Cardinality(D[i])
             /\ \A s \in D[i] : s.case = records[i].key
  <2>1. PICK c \in Range(cs) : records[i] = Resolved(t, c) /\ SoundCase(t, c)
    BY DEF Output
  <2>2. PICK k \in Nat \ {0} : DOMAIN c.refs = 1..k
    BY <2>1 DEF SoundCase
  <2> DEFINE refs == records[i].refs
             a == [m \in 1..k |-> [id |-> refs[m].id, output |-> refs[m].hash]]
             b == [m \in 1..k |-> [case |-> c.key, ref |-> c.refs[m].id, path |-> c.refs[m].path,
                                   hash |-> t.files[c.refs[m].path].bytes]]
  <2>3. DOMAIN refs = 1..k /\ \A m \in 1..k : refs[m].id = c.refs[m].id
    <3>1. DOMAIN Resolved(t, c).refs = 1..k /\ \A m \in 1..k : Resolved(t, c).refs[m].id = c.refs[m].id
      BY <2>2, ResolvedFact
    <3> QED BY <2>1, <3>1
  <2>4. \A l, m \in 1..k : c.refs[l].id = c.refs[m].id => l = m
    BY <2>1, <2>2 DEF SoundCase
  <2>5. documents[i].generations = {[id |-> x.id, output |-> x.hash] : x \in Range(refs)}
    BY <1>1 DEF generation_example_for
  <2> HIDE DEF refs
  <2>6. documents[i].generations = {a[m] : m \in 1..k}
    BY <2>3, <2>5 DEF Range
  <2>7. D[i] = {b[m] : m \in 1..k}
    <3>1. D[i] = CaseSources(t, c)
      BY <1>2, <2>1
    <3>2. CaseSources(t, c) = {b[m] : m \in 1..k}
      BY <2>2 DEF CaseSources, Range
    <3> QED BY <3>1, <3>2
  <2>8. ASSUME NEW m \in 1..k PROVE a[m].id = refs[m].id /\ b[m].ref = c.refs[m].id /\ b[m].case = c.key
    <3> DEFINE bytes == t.files[c.refs[m].path].bytes
               hash == refs[m].hash
    <3>1. a[m] = [id |-> refs[m].id, output |-> hash]
      OBVIOUS
    <3>2. b[m] = [case |-> c.key, ref |-> c.refs[m].id, path |-> c.refs[m].path, hash |-> bytes]
      OBVIOUS
    <3> HIDE DEF a, b, bytes, hash
    <3> QED BY <3>1, <3>2
  <2>10. records[i].key = c.key
    BY <2>1, <2>2, ResolvedFact
  <2> HIDE DEF a, b, D
  <2>11. \A l, m \in 1..k : a[l] = a[m] => l = m
    BY <2>3, <2>4, <2>8
  <2>12. \A l, m \in 1..k : b[l] = b[m] => l = m
    BY <2>4, <2>8
  <2>16. IsFiniteSet(D[i]) /\ Cardinality(D[i]) = k
    <3>1. IsFiniteSet({b[m] : m \in 1..k}) /\ Cardinality({b[m] : m \in 1..k}) = k
      <4>1. OneToOne(b, k)
        BY <2>12 DEF OneToOne
      <4> QED BY <4>1, ImageCount
    <3> QED BY <2>7, <3>1
  <2>17. Cardinality(documents[i].generations) = k
    <3>1. Cardinality({a[m] : m \in 1..k}) = k
      <4>1. OneToOne(a, k)
        BY <2>11 DEF OneToOne
      <4> QED BY <4>1, ImageCount
    <3> QED BY <2>6, <3>1
  <2>18. \A s \in D[i] : s.case = records[i].key
    BY <2>7, <2>8, <2>10
  <2> QED BY <2>16, <2>17, <2>18
<1>6. \A i, j \in 1..n : i # j => D[i] \cap D[j] = {}
  <2>1. \A i, j \in 1..n : records[i].key = records[j].key => i = j
    BY DEF Output
  <2> HIDE DEF D
  <2> QED BY <1>5, <2>1
<1>7. AsManyIn(D, documents, n)
  <2> HIDE DEF D
  <2> QED BY <1>1, <1>5, <1>6 DEF AsManyIn
<1>8. Generations(documents) = Cardinality(sources)
  <2> HIDE DEF D
  <2> QED BY <1>7, GenerationsCount
<1> HIDE DEF D
<1> QED BY <1>3, <1>4, <1>8

\* A plan has every case and every image of the tree, each with the bytes of its
\* own file, and its numbers add up.
THEOREM PlansAreTheTree == Spec => []PlanIsTheTree
<1>1. StageInv => PlanIsTheTree
  <2> SUFFICES ASSUME StageInv, answer = "planned" PROVE PlanIsTheTree
    BY DEF PlanIsTheTree
  <2>1. Shaped(tree)
    BY TreesAssumption DEF StageInv
  <2>2. Packaged
    BY DEF StageInv
  <2>3. /\ Parsed /\ AssetsRead /\ OutputsDistinct
        /\ examples = [i \in DOMAIN output |-> generation_example_for(output[i])]
        /\ output = resolved_adapter_output(tree, parsed)
    BY <2>2 DEF Packaged, Projected, AssetsRead
  <2>4. SoundList(tree, parsed)
    BY <2>1, <2>3, CasesAreSound DEF Parsed
  <2>5. PICK n : Output(tree, parsed, n, output)
    BY <2>3, <2>4, OutputFact
  <2>6. \A c \in Range(parsed) : DistinctOutputs(Resolved(tree, c))
    BY <2>3 DEF OutputsDistinct
  <2>7. /\ plan.sources = UNION {CaseSources(tree, c) : c \in Range(parsed)}
        /\ Generations(examples) = Cardinality(plan.sources)
    BY <2>2, <2>3, <2>5, <2>6, PlanOfOutput DEF Packaged
  <2>8. plan.metrics.generations = Cardinality(plan.sources)
    BY <2>2, <2>7 DEF Packaged, extraction_metrics
  <2>9. UNION {c.evidence : c \in Range(parsed)} \subseteq plan.files
    <3>1. ASSUME NEW c \in Range(parsed) PROVE c.evidence \subseteq plan.files
      <4>1. PICK i \in 1..n : output[i] = Resolved(tree, c)
        BY <2>5 DEF Output
      <4>2. output[i] \in Range(output) /\ output[i].evidence = c.evidence
        <5>1. output[i] \in Range(output)
          BY <2>5, <4>1 DEF Output, Range
        <5>2. Resolved(tree, c).evidence = c.evidence
          BY DEF Resolved
        <5> QED BY <4>1, <5>1, <5>2
      <4> QED BY <2>2, <4>2 DEF Packaged, SourceFiles
    <3> QED BY <3>1
  <2>10. plan.metrics.cases = Cardinality({c.key : c \in Range(parsed)})
    <3> DEFINE keys == [i \in 1..n |-> parsed[i].key]
    <3>1. n \in Nat /\ DOMAIN parsed = 1..n /\ Len(output) = n
      <4>1. IsList(output) /\ DOMAIN output = 1..n /\ n \in Nat /\ DOMAIN parsed = 1..n
        BY <2>5 DEF Output
      <4>2. Len(output) \in Nat /\ DOMAIN output = 1..Len(output)
        BY <4>1, ListFact
      <4> QED BY <4>1, <4>2
    <3>2. {c.key : c \in Range(parsed)} = {keys[i] : i \in 1..n}
      BY <3>1 DEF Range
    <3>3. OneToOne(keys, n)
      BY <2>4, <3>1 DEF SoundList, OneToOne
    <3> HIDE DEF keys
    <3>4. Cardinality({keys[i] : i \in 1..n}) = n
      BY <3>1, <3>3, ImageCount
    <3>5. plan.metrics.cases = Len(output)
      BY <2>2 DEF Packaged, extraction_metrics
    <3> QED BY <3>1, <3>2, <3>4, <3>5
  <2> QED BY <2>7, <2>8, <2>9, <2>10 DEF PlanIsTheTree, CaseSources
<1> QED BY <1>1, StageInvariant, PTL

-----------------------------------------------------------------------------
(* The galleries that are compared as a whole.                             *)

Shows(c, p) == \E n \in DOMAIN c.refs : c.refs[n].path = p
ShownOnce(cs, p) ==
  /\ \E i \in DOMAIN cs : Shows(cs[i], p)
  /\ \A i, j \in DOMAIN cs : Shows(cs[i], p) /\ Shows(cs[j], p) => i = j

\* What each adapter lists of a tree it accepts shows every image of the gallery in
\* exactly one case.
LEMMA OneOutputShows ==
  ASSUME NEW key, NEW prompt, NEW path, NEW evidence, NEW p
  PROVE  Shows(OneOutput(key, prompt, path, evidence), p) <=> path = p
<1> DEFINE c == OneOutput(key, prompt, path, evidence)
<1>1. c.refs = <<[id |-> 1, path |-> path]>>
  BY DEF OneOutput
<1>2. DOMAIN c.refs = {1} /\ c.refs[1].path = path
  BY <1>1
<1> HIDE DEF c
<1>3. Shows(c, p) <=> path = p
  BY <1>2 DEF Shows
<1> QED BY <1>3 DEF c

LEMMA JoeSaiShows ==
  ASSUME NEW t, JoeSaiAccepts(t), NEW p \in Under(t, "examples")
  PROVE  ShownOnce(JoeSaiCases(t), p)
<1> DEFINE rows == t.doc.rows
           cs == JoeSaiCases(t)
<1>1. /\ IsInjective(Column(rows, "image")) /\ \E i \in DOMAIN rows : rows[i].image = p
  BY DEF JoeSaiAccepts, JoeSaiManifest, JoeSaiFiles, Range
<1>2. DOMAIN cs = DOMAIN rows
  BY DEF JoeSaiCases
<1>3. \A i \in DOMAIN rows : Shows(cs[i], p) <=> rows[i].image = p
  BY OneOutputShows DEF JoeSaiCases
<1>4. \A i, j \in DOMAIN rows : rows[i].image = rows[j].image => i = j
  <2> HIDE DEF rows
  <2> QED BY <1>1, ColumnFact
<1> HIDE DEF rows, cs
<1>5. ShownOnce(cs, p)
  BY <1>1, <1>2, <1>3, <1>4 DEF ShownOnce
<1> QED BY <1>5 DEF cs

LEMMA ConardLiShows ==
  ASSUME NEW t, ConardLiAccepts(t), NEW p \in Under(t, "case"), p[3] = "png"
  PROVE  ShownOnce(ConardLiCases(t), p)
<1> DEFINE rows == t.doc.cases
           cs == ConardLiCases(t)
<1>1. IsInjective(Column(rows, "id"))
  BY DEF ConardLiAccepts, ConardLiRows
<1>2. \E i \in DOMAIN rows : CasePath(rows[i].id, "png") = p
  <2>1. \/ p \in {CasePath(0, "mapping"), CasePath(0, "INDEX")}
        \/ p \in {CasePath(c.id, name) : c \in Range(rows), name \in {"txt", "png", "thumb"}}
    BY DEF ConardLiAccepts, ConardLiFiles
  <2> HIDE DEF rows
  <2>2. PICK c \in Range(rows), name \in {"txt", "png", "thumb"} : p = CasePath(c.id, name)
    BY <2>1 DEF CasePath
  <2>3. name = "png"
    BY <2>2 DEF CasePath
  <2> QED BY <2>2, <2>3 DEF Range
<1>3. DOMAIN cs = DOMAIN rows
  BY DEF ConardLiCases
<1>4. \A i \in DOMAIN rows : Shows(cs[i], p) <=> CasePath(rows[i].id, "png") = p
  BY OneOutputShows DEF ConardLiCases
<1> HIDE DEF rows, cs
<1>5. \A i, j \in DOMAIN rows : CasePath(rows[i].id, "png") = CasePath(rows[j].id, "png") => i = j
  BY <1>1, ColumnFact DEF CasePath
<1>6. ShownOnce(cs, p)
  BY <1>2, <1>3, <1>4, <1>5 DEF ShownOnce
<1> QED BY <1>6 DEF cs

LEMMA FreestyleflyShows ==
  ASSUME NEW t, FreestyleflyAccepts(t), NEW p \in Under(t, "images"), p[2] # 0, p \notin Orphans
  PROVE  ShownOnce(FreestyleflyCases(t), p)
<1> DEFINE rows == t.doc.rows
           cs == FreestyleflyCases(t)
<1>1. IsInjective(Column(rows, "id")) /\ \A i \in DOMAIN rows : rows[i].image[2] = rows[i].id
  BY DEF FreestyleflyAccepts, Range
<1>2. \E i \in DOMAIN rows : rows[i].image = p
  <2>1. p \in {r.image : r \in Range(rows)}
    BY DEF FreestyleflyAccepts, Known
  <2> QED BY <2>1 DEF Range
<1>3. DOMAIN cs = DOMAIN rows
  BY DEF FreestyleflyCases
<1>4. \A i \in DOMAIN rows : Shows(cs[i], p) <=> rows[i].image = p
  BY OneOutputShows DEF FreestyleflyCases
<1> HIDE DEF rows, cs
<1>5. \A i, j \in DOMAIN rows : rows[i].image = rows[j].image => i = j
  BY <1>1, ColumnFact
<1>6. ShownOnce(cs, p)
  BY <1>2, <1>3, <1>4, <1>5 DEF ShownOnce
<1> QED BY <1>6 DEF cs

LEMMA ErickkkytShows ==
  ASSUME NEW t, ErickkkytAccepts(t), NEW p \in Under(t, "assets"), p \notin Orphans
  PROVE  ShownOnce(ErickkkytCases(t), p)
<1> DEFINE rows == t.doc.rows
           cs == ErickkkytCases(t)
<1>1. Unrepeated(rows, "images")
  BY DEF ErickkkytAccepts, UniqueInSource
<1>2. \E i \in DOMAIN rows : p \in Range(rows[i].images)
  <2>1. p \in UNION {Range(r.images) : r \in Range(rows)}
    BY DEF ErickkkytAccepts, Known
  <2> QED BY <2>1 DEF Range
<1>3. /\ DOMAIN cs = DOMAIN rows
      /\ \A i \in DOMAIN rows : cs[i].refs =
           [n \in DOMAIN rows[i].images |-> [id |-> rows[i].pairs[n], path |-> rows[i].images[n]]]
  BY DEF ErickkkytCases
<1> HIDE DEF rows, cs
<1>4. ASSUME NEW i \in DOMAIN rows PROVE Shows(cs[i], p) <=> \E n \in DOMAIN rows[i].images : rows[i].images[n] = p
  <2> DEFINE images == rows[i].images
             pairs == rows[i].pairs
             refs == cs[i].refs
  <2>1. refs = [n \in DOMAIN images |-> [id |-> pairs[n], path |-> images[n]]]
    BY <1>3
  <2> HIDE DEF images, pairs, refs
  <2>2. DOMAIN refs = DOMAIN images /\ \A n \in DOMAIN images : refs[n].path = images[n]
    BY <2>1
  <2>3. (\E n \in DOMAIN refs : refs[n].path = p) <=> \E n \in DOMAIN images : images[n] = p
    BY <2>2
  <2> QED BY <2>3 DEF Shows, images, refs
<1>5. \A i, j \in DOMAIN rows : Shows(cs[i], p) /\ Shows(cs[j], p) => i = j
  BY <1>1, <1>4 DEF Unrepeated
<1>6. \E i \in DOMAIN rows : Shows(cs[i], p)
  BY <1>2, <1>4 DEF Range
<1>7. ShownOnce(cs, p)
  BY <1>3, <1>5, <1>6 DEF ShownOnce
<1> QED BY <1>7 DEF cs

LEMMA VigoZhaoShows ==
  ASSUME NEW t, Shaped(t), t.strategy = "vigozhao", VigoZhaoAccepts(t),
         NEW p \in Under(t, "styles"), p[3] # "style"
  PROVE  ShownOnce(VigoZhaoCases(t), p)
<1> DEFINE cs == VigoZhaoCases(t)
<1>1. PICK styles, n : VigoZhaoLists(t, cs, styles, n)
  BY VigoZhaoListed
<1> HIDE DEF cs
<1>2. PICK s \in Styles(t), name \in Range(Previews) : p = StylePath(s, name)
  <2>1. PICK s \in Styles(t), name \in {"style"} \cup Range(Previews) : p = StylePath(s, name)
    BY StylesFact
  <2>2. name # "style"
    BY <2>1 DEF StylePath
  <2> QED BY <2>1, <2>2
<1>3. ASSUME NEW i \in 1..n PROVE Shows(cs[i], p) <=> styles[i] = s
  <2> DEFINE refs == cs[i].refs
  <2>1. refs = [m \in DOMAIN Previews |-> [id |-> m, path |-> StylePath(styles[i], Previews[m])]]
    BY <1>1 DEF VigoZhaoLists
  <2> HIDE DEF refs
  <2>2. DOMAIN refs = DOMAIN Previews /\ \A m \in DOMAIN Previews : refs[m].path = StylePath(styles[i], Previews[m])
    BY <2>1
  <2>3. (\E m \in DOMAIN refs : refs[m].path = p) <=> styles[i] = s
    <3>1. \E m \in DOMAIN Previews : Previews[m] = name
      BY <1>2 DEF Range
    <3> QED BY <1>2, <2>2, <3>1 DEF StylePath
  <2> QED BY <2>3 DEF Shows, refs
<1>4. ShownOnce(cs, p)
  BY <1>1, <1>3 DEF ShownOnce, VigoZhaoLists
<1> QED BY <1>4 DEF cs

\* So for each adapter.
LEMMA GalleryShows ==
  ASSUME NEW t, Shaped(t), Accepts(t), NEW p \in Gallery(t) \ Orphans
  PROVE  ShownOnce(Listed(t), p)
<1>1. t.strategy \in DOMAIN Asked
  BY DEF Shaped
<1>2. CASE t.strategy = "joesai"
  BY <1>2, JoeSaiShows DEF Accepts, Listed, Gallery
<1>3. CASE t.strategy = "conardli"
  BY <1>3, ConardLiShows DEF Accepts, Listed, Gallery
<1>4. CASE t.strategy = "freestylefly"
  BY <1>4, FreestyleflyShows DEF Accepts, Listed, Gallery
<1>5. CASE t.strategy = "erickkkyt"
  BY <1>5, ErickkkytShows DEF Accepts, Listed, Gallery
<1>6. CASE t.strategy = "vigozhao"
  BY <1>6, VigoZhaoShows DEF Accepts, Listed, Gallery
<1>7. CASE t.strategy \in {"g0dam", "chaosrealms"}
  BY <1>7 DEF Gallery
<1> QED BY <1>1, <1>2, <1>3, <1>4, <1>5, <1>6, <1>7 DEF Asked

\* An accepted tree shows every image of a gallery that is compared as a whole
\* for one case, once, but for those known to belong to none.
THEOREM EveryImageIsShownOnce == Spec => []EveryImageHasOneCase
<1>1. StageInv => EveryImageHasOneCase
  <2> SUFFICES ASSUME StageInv, stage # "parse", parsed # <<>>, NEW p \in Gallery(tree) \ Orphans
               PROVE  Cardinality(UNION {{<<i, n>> : n \in {m \in DOMAIN parsed[i].refs : parsed[i].refs[m].path = p}} :
                                           i \in DOMAIN parsed}) = 1
    BY DEF EveryImageHasOneCase
  <2>1. Shaped(tree)
    BY TreesAssumption DEF StageInv
  <2>2. Accepts(tree) /\ parsed = Cases(tree)
    BY DEF StageInv, Refused, Packaged, Projected, AssetsRead, Parsed
  <2>3. ShownOnce(Listed(tree), p)
    BY <2>1, <2>2, GalleryShows
  <2>4. PICK n : Sorted(Listed(tree), n, parsed)
    BY <2>1, <2>2, CasesAreSound
  <2>5. SoundList(tree, parsed)
    BY <2>1, <2>2, CasesAreSound
  <2>6. ShownOnce(parsed, p)
    <3> DEFINE listed == Listed(tree)
    <3>1. PICK l \in DOMAIN listed : Shows(listed[l], p)
      BY <2>3 DEF ShownOnce
    <3>2. \A m \in DOMAIN listed : Shows(listed[m], p) => listed[m] = listed[l]
      BY <2>3, <3>1 DEF ShownOnce
    <3> HIDE DEF listed
    <3>3. Range(parsed) = Range(listed)
      BY <2>4 DEF Sorted, listed
    <3>4. \E i \in DOMAIN parsed : Shows(parsed[i], p)
      BY <3>1, <3>3 DEF Range
    <3>5. \A i \in DOMAIN parsed : Shows(parsed[i], p) => parsed[i] = listed[l]
      BY <3>2, <3>3 DEF Range
    <3>6. \A i, j \in DOMAIN parsed : Shows(parsed[i], p) /\ Shows(parsed[j], p) => i = j
      BY <2>5, <3>5 DEF SoundList
    <3> QED BY <3>4, <3>6 DEF ShownOnce
  <2>a. PICK i \in DOMAIN parsed : Shows(parsed[i], p)
    BY <2>6 DEF ShownOnce
  <2>7. PICK n1 \in DOMAIN parsed[i].refs : parsed[i].refs[n1].path = p
    BY <2>a DEF Shows
  <2>8. \A j \in DOMAIN parsed : \A m \in DOMAIN parsed[j].refs : parsed[j].refs[m].path = p => j = i /\ m = n1
    <3>1. \A j \in DOMAIN parsed : \A m \in DOMAIN parsed[j].refs : parsed[j].refs[m].path = p => j = i
      BY <2>6, <2>7 DEF ShownOnce, Shows
    <3>2. SoundCase(tree, parsed[i])
      BY <2>5, <2>7 DEF SoundList
    <3> QED BY <2>7, <3>1, <3>2 DEF SoundCase
  <2>9. UNION {{<<j, n2>> : n2 \in {m \in DOMAIN parsed[j].refs : parsed[j].refs[m].path = p}} :
                 j \in DOMAIN parsed} = {<<i, n1>>}
    BY <2>7, <2>8
  <2> QED BY <2>9, FS_Singleton
<1> QED BY <1>1, StageInvariant, PTL

-----------------------------------------------------------------------------
(* The rows the other way round.                                           *)

\* turned has the n rows the other way round
Backwards(turned, rows, n) ==
  /\ n \in Nat /\ DOMAIN rows = 1..n
  /\ DOMAIN turned = 1..n /\ Len(turned) = n
  /\ \A i \in 1..n : n + 1 - i \in 1..n /\ turned[i] = rows[n + 1 - i]
  /\ Range(turned) = Range(rows)
  /\ turned = <<>> <=> rows = <<>>

\* A list backwards.
LEMMA ReverseFact ==
  ASSUME NEW rows, IsList(rows)
  PROVE  Backwards(Reverse(rows), rows, Len(rows))
<1> DEFINE n == Len(rows)
<1> DEFINE turned == Reverse(rows)
<1>1. n \in Nat /\ DOMAIN rows = 1..n
  BY ListFact
<1>2. turned = [i \in 1..n |-> rows[(n - i) + 1]]
  BY DEF Reverse
<1> HIDE DEF turned, n
<1>3. \A i \in 1..n : n + 1 - i \in 1..n /\ n + 1 - (n + 1 - i) = i /\ (n - i) + 1 = n + 1 - i
  BY <1>1
<1>4. DOMAIN turned = 1..n /\ \A i \in 1..n : turned[i] = rows[n + 1 - i]
  BY <1>2, <1>3
<1>5. Len(turned) = n /\ IsList(turned)
  <2>1. turned = [i \in 1..n |-> turned[i]]
    BY <1>2
  <2> QED BY <1>1, <2>1, ListOf
<1>6. Range(turned) = Range(rows)
  BY <1>1, <1>3, <1>4 DEF Range
<1>7. turned = <<>> <=> rows = <<>>
  BY <1>5, ListFact DEF n
<1>8. Backwards(turned, rows, n)
  BY <1>1, <1>3, <1>4, <1>5, <1>6, <1>7 DEF Backwards
<1> QED BY <1>8 DEF turned, n

\* A column of a list backwards has the same entries.
LEMMA ReverseColumn ==
  ASSUME NEW rows, IsList(rows), NEW f
  PROVE  /\ IsInjective(Column(rows, f)) => IsInjective(Column(Reverse(rows), f))
         /\ Range(Column(Reverse(rows), f)) = Range(Column(rows, f))
<1> DEFINE n == Len(rows)
           turned == Reverse(rows)
<1>1. /\ n \in Nat /\ DOMAIN rows = 1..n /\ DOMAIN turned = 1..n
      /\ \A i \in 1..n : n + 1 - i \in 1..n /\ turned[i] = rows[n + 1 - i]
      /\ Range(turned) = Range(rows)
  BY ReverseFact DEF Backwards
<1> HIDE DEF n, turned
<1>2. \A i \in 1..n : turned[i][f] = rows[n + 1 - i][f]
  BY <1>1
<1>3. IsInjective(Column(rows, f)) => IsInjective(Column(turned, f))
  <2> SUFFICES ASSUME IsInjective(Column(rows, f)), NEW i \in 1..n, NEW j \in 1..n, turned[i][f] = turned[j][f]
               PROVE  i = j
    BY <1>1 DEF IsInjective, Column
  <2>1. \A k, l \in 1..n : rows[k][f] = rows[l][f] => k = l
    BY <1>1, ColumnFact
  <2>2. rows[n + 1 - i][f] = rows[n + 1 - j][f]
    BY <1>2
  <2>3. n + 1 - i = n + 1 - j
    BY <1>1, <2>1, <2>2
  <2> QED BY <1>1, <2>3
<1>4. \A s : Range(Column(s, f)) = {r[f] : r \in Range(s)}
  BY DEF Range, Column
<1>5. Range(Column(turned, f)) = Range(Column(rows, f))
  BY <1>1, <1>4
<1> QED BY <1>3, <1>5 DEF turned

\* sorting by key does not see which way round the list is
LEMMA ByKeyOfReversed ==
  ASSUME NEW cs, NEW n, KeysApart(cs, n), NEW ds, DOMAIN ds = 1..n, \A i \in 1..n : ds[i] = cs[n + 1 - i]
  PROVE  ByKey(ds) = ByKey(cs)
<1> DEFINE rank == Column(cs, "key")
           turned == Column(ds, "key")
           turn == [i \in 1..n |-> n + 1 - i]
<1>1. /\ n \in Nat /\ DOMAIN cs = 1..n
      /\ \A i \in 1..n : cs[i].key \in Nat
      /\ \A i, j \in 1..n : cs[i].key = cs[j].key => i = j
  BY DEF KeysApart
<1>2. /\ DOMAIN rank = 1..n /\ rank = [i \in 1..n |-> rank[i]] /\ \A i \in 1..n : rank[i] = cs[i].key
      /\ DOMAIN turned = 1..n /\ turned = [i \in 1..n |-> turned[i]] /\ \A i \in 1..n : turned[i] = ds[i].key
  BY <1>1 DEF Column
<1>3. ByKey(ds) = SortedByRank(ds, turned) /\ ByKey(cs) = SortedByRank(cs, rank)
  BY DEF ByKey
<1> HIDE DEF rank, turned
<1>4. turn \in [1..n -> 1..n] /\ \A i \in 1..n : turn[i] = n + 1 - i
  BY <1>1
<1> HIDE DEF turn
<1>5. rank \in [1..n -> Int] /\ \A i, j \in 1..n : rank[i] = rank[j] => i = j
  <2>1. \A i \in 1..n : rank[i] \in Int
    BY <1>1, <1>2
  <2>2. rank \in [1..n -> Int]
    BY <1>2, <2>1
  <2> QED BY <1>1, <1>2, <2>2
<1>6. \A i, j \in 1..n : turn[i] = turn[j] => i = j
  BY <1>1, <1>4
<1>7. \A i \in 1..n : ds[i] = cs[turn[i]] /\ turned[i] = rank[turn[i]]
  BY <1>2, <1>4
<1>8. turned \in [1..n -> Int]
  <2>1. \A i \in 1..n : turned[i] \in Int
    BY <1>4, <1>5, <1>7
  <2> QED BY <1>2, <2>1
<1>9. SortedByRank(ds, turned) = SortedByRank(cs, rank)
  <2>1. Permutes(turn, n, cs, rank, ds, turned)
    BY <1>1, <1>4, <1>5, <1>6, <1>7, <1>8 DEF Permutes
  <2> QED BY <2>1, SortedByRankOfPermutation
<1> QED BY <1>3, <1>9

\* What is read of the files of a tree is read of any tree with the same files.
LEMMA SameFiles ==
  ASSUME NEW t, NEW u, u.files = t.files
  PROVE  /\ \A d : Under(u, d) = Under(t, d) /\ (regular_relative_files(u, d) <=> regular_relative_files(t, d))
         /\ \A p : (snapshot_file(u, p) <=> snapshot_file(t, p)) /\ read_snapshot_text(u, p) = read_snapshot_text(t, p)
         /\ \A r : (JoeSaiPage(u, r) <=> JoeSaiPage(t, r)) /\ (ChaosCase(u, r) <=> ChaosCase(t, r))
         /\ \A c : Resolved(u, c) = Resolved(t, c)
<1>1. \A d : Under(u, d) = Under(t, d)
  BY DEF Under
<1>2. \A p : snapshot_file(u, p) <=> snapshot_file(t, p)
  BY DEF snapshot_file
<1>3. \A d : regular_relative_files(u, d) <=> regular_relative_files(t, d)
  BY <1>1, <1>2 DEF regular_relative_files
<1>4. \A p : read_snapshot_text(u, p) = read_snapshot_text(t, p)
  BY DEF read_snapshot_text
<1>5. \A r : JoeSaiPage(u, r) <=> JoeSaiPage(t, r)
  BY DEF JoeSaiPage
<1>6. \A r : ChaosCase(u, r) <=> ChaosCase(t, r)
  BY <1>1, <1>2 DEF ChaosCase
<1>7. \A c : Resolved(u, c) = Resolved(t, c)
  BY DEF Resolved
<1> QED BY <1>1, <1>2, <1>3, <1>4, <1>5, <1>6, <1>7

\* what Turned leaves alone
LEMMA TurnedRows ==
  ASSUME NEW t, Shaped(t), t.strategy \in {"g0dam", "joesai", "freestylefly", "chaosrealms"}
  PROVE  LET u == Turned(t) IN
         /\ u.strategy = t.strategy /\ u.files = t.files
         /\ u.doc.rows = Reverse(t.doc.rows)
         /\ \A f \in DOMAIN t.doc \ {"rows"} : u.doc[f] = t.doc[f]
         /\ IsList(t.doc.rows)
<1>1. Turned(t) = [t EXCEPT !.doc.rows = Reverse(@)]
  BY DEF Turned
<1>2. DOMAIN t = {"strategy", "doc", "files"} /\ "rows" \in DOMAIN t.doc /\ IsList(t.doc.rows)
  BY DEF Shaped, Asked
<1> QED BY <1>1, <1>2

\* b is a but for the numbers of the rows, which count from the other end
Renumbers(a, b, n) ==
  /\ DOMAIN a = 1..n /\ DOMAIN b = 1..n
  /\ \A i \in 1..n :
       /\ Unnumbered(b[i]) = Unnumbered(a[i])
       /\ b[i].copied.position = n + 1 - a[i].copied.position

\* the same cases in another order, for erickkkyt numbered anew
TurnsWell(t) ==
  /\ Accepts(Turned(t)) /\ Turned(t).files = t.files
  /\ IF t.strategy = "erickkkyt"
       THEN \E n : KeysApart(Cases(t), n) /\ Renumbers(Cases(t), Cases(Turned(t)), n)
       ELSE Cases(Turned(t)) = Cases(t)

\* Sorting by key keeps the cases of two lists in step,
LEMMA RenumberedByKey ==
  ASSUME NEW a, NEW b, NEW n, KeysApart(a, n), Renumbers(a, b, n)
  PROVE  Renumbers(ByKey(a), ByKey(b), n)
<1> DEFINE rank == Column(a, "key")
           order == SortedBy(1..n, StablyBefore(rank))
<1>1. /\ n \in Nat /\ DOMAIN a = 1..n /\ DOMAIN b = 1..n
      /\ \A i \in 1..n : a[i].key \in Nat /\ b[i].key = a[i].key
  BY DEF KeysApart, Renumbers, Unnumbered
<1>2. Column(b, "key") = rank /\ rank \in [1..n -> Int]
  BY <1>1 DEF Column
<1>3. /\ ByKey(a) = [i \in 1..n |-> a[order[i]]]
      /\ ByKey(b) = [i \in 1..n |-> b[order[i]]]
  BY <1>1, <1>2 DEF ByKey, SortedByRank
<1>4. \A i \in 1..n : order[i] \in 1..n
  <2> HIDE DEF rank
  <2>1. Lists(order, 1..n, StablyBefore(rank))
    BY <1>1, <1>2, StableOrder, IntervalFact, SortedByFact
  <2> HIDE DEF order
  <2> QED BY <1>1, <2>1, IntervalFact DEF Lists
<1> HIDE DEF rank, order
<1> QED BY <1>1, <1>3, <1>4 DEF Renumbers

\* and so does resolving them.
LEMMA RenumberedResolved ==
  ASSUME NEW t, NEW a, NEW b, NEW n, KeysApart(a, n), Renumbers(a, b, n)
  PROVE  LET x == [i \in 1..n |-> Resolved(t, a[i])]
             y == [i \in 1..n |-> Resolved(t, b[i])]
         IN  KeysApart(x, n) /\ Renumbers(x, y, n)
<1> DEFINE x == [i \in 1..n |-> Resolved(t, a[i])]
           y == [i \in 1..n |-> Resolved(t, b[i])]
<1>1. /\ n \in Nat
      /\ \A i \in 1..n : a[i].key \in Nat
      /\ \A i, j \in 1..n : a[i].key = a[j].key => i = j
  BY DEF KeysApart
<1>2. \A c : Resolved(t, c).key = c.key /\ Resolved(t, c).copied = c.copied
  BY DEF Resolved
<1>3. ASSUME NEW i \in 1..n PROVE Unnumbered(Resolved(t, b[i])) = Unnumbered(Resolved(t, a[i]))
  <2>1. /\ a[i].key = b[i].key /\ a[i].prompt = b[i].prompt /\ a[i].refs = b[i].refs
        /\ a[i].evidence = b[i].evidence
        /\ a[i].copied.tags = b[i].copied.tags /\ a[i].copied.parameters = b[i].copied.parameters
    BY DEF Renumbers, Unnumbered
  <2>2. Resolved(t, a[i]).refs = Resolved(t, b[i]).refs
    BY <2>1 DEF Resolved
  <2>3. \A c : Resolved(t, c).prompt = c.prompt /\ Resolved(t, c).evidence = c.evidence
    BY DEF Resolved
  <2> QED BY <1>2, <2>1, <2>2, <2>3 DEF Unnumbered
<1>4. /\ DOMAIN x = 1..n /\ \A i \in 1..n : x[i] = Resolved(t, a[i])
      /\ DOMAIN y = 1..n /\ \A i \in 1..n : y[i] = Resolved(t, b[i])
  OBVIOUS
<1>5. \A i \in 1..n : b[i].copied.position = n + 1 - a[i].copied.position
  BY DEF Renumbers
<1> HIDE DEF x, y
<1>6. KeysApart(x, n)
  BY <1>1, <1>2, <1>4 DEF KeysApart
<1>7. Renumbers(x, y, n)
  BY <1>2, <1>3, <1>4, <1>5 DEF Renumbers
<1> QED BY <1>6, <1>7 DEF x, y

\* With its rows backwards, each adapter accepts the same trees and lists the same
\* cases, erickkkyt with other numbers.
LEMMA G0damTurns ==
  ASSUME NEW t, Shaped(t), t.strategy = "g0dam", Accepts(t)
  PROVE  TurnsWell(t)
<1> DEFINE u == Turned(t)
           rows == t.doc.rows
           turned == u.doc.rows
           n == Len(rows)
<1>1. /\ u.strategy = "g0dam" /\ u.files = t.files /\ turned = Reverse(rows) /\ IsList(rows)
      /\ u.doc.count = t.doc.count
  BY TurnedRows DEF Shaped, Asked
<1>2. /\ n \in Nat /\ DOMAIN rows = 1..n /\ DOMAIN turned = 1..n /\ Len(turned) = n
      /\ \A i \in 1..n : n + 1 - i \in 1..n /\ turned[i] = rows[n + 1 - i]
  <2>1. Backwards(turned, rows, n)
    BY <1>1, ReverseFact
  <2> HIDE DEF rows, turned, n
  <2> QED BY <2>1 DEF Backwards
<1>3. /\ t.doc.count = n
      /\ \A i \in DOMAIN rows : G0damRow(rows, i) /\ rows[i].image # Unsafe
  BY DEF Accepts, G0damAccepts
<1>4. Data(u) = Data(t)
  BY <1>1 DEF Data
<1> HIDE DEF u
<1>5. ASSUME NEW i \in DOMAIN turned PROVE G0damRow(turned, i) /\ turned[i].image # Unsafe
  <2> HIDE DEF rows, turned, n
  <2>1. Size[turned[i].prompt] >= 80 /\ turned[i].image # Unsafe
    BY <1>2, <1>3 DEF G0damRow
  <2>2. ASSUME NEW j \in 1..(i - 1) PROVE turned[j].id # turned[i].id
    <3>1. j \in 1..n /\ n + 1 - i \in 1..((n + 1 - j) - 1) /\ n + 1 - j \in 1..n
      BY <1>2, <1>5
    <3>2. rows[n + 1 - i].id # rows[n + 1 - j].id
      BY <1>2, <1>3, <3>1 DEF G0damRow
    <3> QED BY <1>2, <1>5, <3>1, <3>2
  <2> QED BY <2>1, <2>2 DEF G0damRow
<1>6. G0damAccepts(u)
  BY <1>1, <1>2, <1>3, <1>5 DEF G0damAccepts
<1>7. PICK m : KeysApart(G0damCases(t), m)
  BY ListedKeysApart DEF Listed
<1>8. ByKey(G0damCases(u)) = ByKey(G0damCases(t))
  <2> DEFINE cs == G0damCases(t)
             ds == G0damCases(u)
  <2>1. /\ DOMAIN cs = 1..n /\ DOMAIN ds = 1..n
        /\ \A i \in 1..n : cs[i] = OneOutput(rows[i].id, rows[i].prompt, rows[i].image, {Data(t)})
        /\ \A i \in 1..n : ds[i] = OneOutput(turned[i].id, turned[i].prompt, turned[i].image, {Data(u)})
    BY <1>2 DEF G0damCases
  <2> HIDE DEF rows, turned, n, cs, ds
  <2>2. ASSUME NEW i \in 1..n PROVE ds[i] = cs[n + 1 - i]
    <3> DEFINE k == n + 1 - i
               r == turned[i]
    <3>1. k \in 1..n /\ rows[k] = r
      BY <1>2
    <3> HIDE DEF k
    <3>2. cs[k] = OneOutput(r.id, r.prompt, r.image, {Data(t)})
      BY <2>1, <3>1
    <3>3. ds[i] = OneOutput(r.id, r.prompt, r.image, {Data(t)})
      BY <1>4, <2>1
    <3> QED BY <3>2, <3>3 DEF k
  <2>3. m = n
    BY <1>2, <1>7, <2>1 DEF KeysApart, cs
  <2> QED BY <1>7, <2>1, <2>2, <2>3, ByKeyOfReversed DEF cs, ds
<1> QED BY <1>1, <1>6, <1>8 DEF TurnsWell, Accepts, Cases, Listed, u

LEMMA JoeSaiTurns ==
  ASSUME NEW t, Shaped(t), t.strategy = "joesai", Accepts(t)
  PROVE  TurnsWell(t)
<1> DEFINE u == Turned(t)
           rows == t.doc.rows
           turned == u.doc.rows
           n == Len(rows)
<1>1. u.strategy = "joesai" /\ u.files = t.files /\ turned = Reverse(rows) /\ IsList(rows)
  BY TurnedRows
<1>2. /\ n \in Nat /\ DOMAIN rows = 1..n /\ DOMAIN turned = 1..n /\ Range(turned) = Range(rows)
      /\ \A i \in 1..n : n + 1 - i \in 1..n /\ turned[i] = rows[n + 1 - i]
      /\ turned = <<>> <=> rows = <<>>
  <2>1. Backwards(turned, rows, n)
    BY <1>1, ReverseFact
  <2> HIDE DEF rows, turned, n
  <2> QED BY <2>1 DEF Backwards
<1>3. JoeSaiManifest(rows) /\ JoeSaiFiles(t, rows) /\ \A r \in Range(rows) : JoeSaiPage(t, r)
  BY DEF Accepts, JoeSaiAccepts
<1> HIDE DEF u
<1>4. Data(u) = Data(t) /\ \A p : read_snapshot_text(u, p) = read_snapshot_text(t, p)
  BY <1>1, SameFiles DEF Data
<1>5. JoeSaiManifest(turned)
  <2> HIDE DEF rows, turned, n
  <2> QED BY <1>1, <1>2, <1>3, ReverseColumn DEF JoeSaiManifest
<1>6. JoeSaiFiles(u, turned)
  <2> HIDE DEF rows, turned, n
  <2>1. \A d : Under(u, d) = Under(t, d) /\ (regular_relative_files(u, d) <=> regular_relative_files(t, d))
    BY <1>1, SameFiles
  <2> QED BY <1>2, <1>3, <2>1 DEF JoeSaiFiles
<1>7. \A r \in Range(turned) : JoeSaiPage(u, r)
  <2> HIDE DEF rows, turned, n
  <2> QED BY <1>1, <1>2, <1>3, SameFiles
<1>8. JoeSaiAccepts(u)
  BY <1>5, <1>6, <1>7 DEF JoeSaiAccepts
<1>9. PICK m : KeysApart(JoeSaiCases(t), m)
  BY ListedKeysApart DEF Listed
<1>10. ByKey(JoeSaiCases(u)) = ByKey(JoeSaiCases(t))
  <2> DEFINE cs == JoeSaiCases(t)
             ds == JoeSaiCases(u)
             Case(v, r) == OneOutput(r.id, read_snapshot_text(v, Page(r)), r.image, {Data(v), Page(r)})
  <2>1. /\ DOMAIN cs = 1..n /\ DOMAIN ds = 1..n
        /\ \A i \in 1..n : cs[i] = Case(t, rows[i])
        /\ \A i \in 1..n : ds[i] = Case(u, turned[i])
    BY <1>2 DEF JoeSaiCases
  <2>2. \A r : Case(u, r) = Case(t, r)
    BY <1>4
  <2> HIDE DEF rows, turned, n, cs, ds, Case
  <2>3. \A i \in 1..n : ds[i] = cs[n + 1 - i]
    BY <1>2, <2>1, <2>2
  <2>4. m = n
    BY <1>2, <1>9, <2>1 DEF KeysApart, cs
  <2> QED BY <1>9, <2>1, <2>3, <2>4, ByKeyOfReversed DEF cs, ds
<1> QED BY <1>1, <1>8, <1>10 DEF TurnsWell, Accepts, Cases, Listed, u

LEMMA FreestyleflyTurns ==
  ASSUME NEW t, Shaped(t), t.strategy = "freestylefly", Accepts(t)
  PROVE  TurnsWell(t)
<1> DEFINE u == Turned(t)
           rows == t.doc.rows
           turned == u.doc.rows
           n == Len(rows)
<1>1. /\ u.strategy = "freestylefly" /\ u.files = t.files /\ turned = Reverse(rows) /\ IsList(rows)
      /\ u.doc.count = t.doc.count
  BY TurnedRows DEF Shaped, Asked
<1>2. /\ n \in Nat /\ DOMAIN rows = 1..n /\ DOMAIN turned = 1..n /\ Range(turned) = Range(rows) /\ Len(turned) = n
      /\ \A i \in 1..n : n + 1 - i \in 1..n /\ turned[i] = rows[n + 1 - i]
      /\ turned = <<>> <=> rows = <<>>
  <2>1. Backwards(turned, rows, n)
    BY <1>1, ReverseFact
  <2> HIDE DEF rows, turned, n
  <2> QED BY <2>1 DEF Backwards
<1>3. FreestyleflyAccepts(t)
  BY DEF Accepts
<1> HIDE DEF u
<1>4. Data(u) = Data(t)
  BY <1>1 DEF Data
<1>5. FreestyleflyAccepts(u)
  <2>1. rows # <<>> /\ t.doc.count = n /\ IsInjective(Column(rows, "id"))
    BY <1>3 DEF FreestyleflyAccepts
  <2>2. turned # <<>> /\ u.doc.count = Len(turned) /\ IsInjective(Column(turned, "id"))
    <3> HIDE DEF rows, turned, n
    <3> QED BY <1>1, <1>2, <2>1, ReverseColumn
  <2>3. \A d : Under(u, d) = Under(t, d) /\ (regular_relative_files(u, d) <=> regular_relative_files(t, d))
    BY <1>1, SameFiles
  <2>4. \A p : snapshot_file(u, p) <=> snapshot_file(t, p)
    BY <1>1, SameFiles
  <2> QED BY <1>2, <1>3, <2>2, <2>3, <2>4 DEF FreestyleflyAccepts
<1>6. PICK m : KeysApart(FreestyleflyCases(t), m)
  BY ListedKeysApart DEF Listed
<1>7. ByKey(FreestyleflyCases(u)) = ByKey(FreestyleflyCases(t))
  <2> DEFINE cs == FreestyleflyCases(t)
             ds == FreestyleflyCases(u)
             Case(v, r) == OneOutput(r.id, r.prompt, r.image, {Data(v)})
  <2>1. /\ DOMAIN cs = 1..n /\ DOMAIN ds = 1..n
        /\ \A i \in 1..n : cs[i] = Case(t, rows[i])
        /\ \A i \in 1..n : ds[i] = Case(u, turned[i])
    BY <1>2 DEF FreestyleflyCases
  <2>2. \A r : Case(u, r) = Case(t, r)
    BY <1>4
  <2> HIDE DEF rows, turned, n, cs, ds, Case
  <2>3. \A i \in 1..n : ds[i] = cs[n + 1 - i]
    BY <1>2, <2>1, <2>2
  <2>4. m = n
    BY <1>2, <1>6, <2>1 DEF KeysApart, cs
  <2> QED BY <1>6, <2>1, <2>3, <2>4, ByKeyOfReversed DEF cs, ds
<1> QED BY <1>1, <1>5, <1>7 DEF TurnsWell, Accepts, Cases, Listed, u

\* the admitted cases are looked up by id, whatever the order of the index
LEMMA ChaosTurns ==
  ASSUME NEW t, Shaped(t), t.strategy = "chaosrealms", Accepts(t)
  PROVE  TurnsWell(t)
<1> DEFINE u == Turned(t)
           rows == t.doc.rows
           turned == u.doc.rows
<1>1. /\ u.strategy = "chaosrealms" /\ u.files = t.files /\ turned = Reverse(rows) /\ IsList(rows)
      /\ u.doc.admission = t.doc.admission
  BY TurnedRows DEF Shaped, Asked
<1>2. /\ Range(turned) = Range(rows) /\ Range(Column(turned, "id")) = Range(Column(rows, "id"))
      /\ IsInjective(Column(rows, "id")) => IsInjective(Column(turned, "id"))
  <2> HIDE DEF rows, turned
  <2> QED BY <1>1, ReverseFact, ReverseColumn DEF Backwards
<1>3. ChaosAccepts(t)
  BY DEF Accepts
<1> HIDE DEF u
<1>4. ChaosAccepts(u)
  <2>1. \A r : ChaosCase(u, r) <=> ChaosCase(t, r)
    BY <1>1, SameFiles
  <2> QED BY <1>1, <1>2, <1>3, <2>1 DEF ChaosAccepts
<1>5. ChaosCases(u) = ChaosCases(t)
  BY <1>1, <1>2 DEF ChaosCases
<1> QED BY <1>1, <1>4, <1>5 DEF TurnsWell, Accepts, Cases, Listed, u

LEMMA VigoZhaoTurns ==
  ASSUME NEW t, t.strategy = "vigozhao", Accepts(t)
  PROVE  TurnsWell(t)
<1>1. Turned(t) = t
  BY DEF Turned
<1> QED BY <1>1 DEF TurnsWell

\* A ConardLi tree with its rows backwards,
LEMMA ConardLiTurnedDoc ==
  ASSUME NEW t, Shaped(t), t.strategy = "conardli"
  PROVE  LET u == Turned(t) IN
         /\ u.strategy = t.strategy /\ u.files = t.files
         /\ u.doc.cases = Reverse(t.doc.cases)
         /\ \A f \in {"categories", "templates", "summary", "mapping", "mapped"} : u.doc[f] = t.doc[f]
         /\ IsList(t.doc.cases)
<1>1. Turned(t) = [t EXCEPT !.doc.cases = Reverse(@)]
  BY DEF Turned
<1>2. /\ DOMAIN t = {"strategy", "doc", "files"} /\ IsList(t.doc.cases)
      /\ {"cases", "categories", "templates", "summary", "mapping", "mapped"} \subseteq DOMAIN t.doc
  BY DEF Shaped, Asked
<1> QED BY <1>1, <1>2

\* whose counts are the same.
LEMMA CountOfReversed ==
  ASSUME NEW turned, NEW rows, NEW n, Backwards(turned, rows, n), NEW k
  PROVE  CountOf(turned, k) = CountOf(rows, k)
<1> DEFINE A == {i \in 1..n : rows[i].template = k}
           B == {i \in 1..n : turned[i].template = k}
           f == [i \in A |-> n + 1 - i]
<1>1. n \in Nat /\ \A i \in 1..n : n + 1 - i \in 1..n /\ turned[i] = rows[n + 1 - i] /\ n + 1 - (n + 1 - i) = i
  BY DEF Backwards
<1>2. \A i \in A : i \in 1..n /\ n + 1 - i \in B /\ f[i] = n + 1 - i
  BY <1>1
<1>3. \A j \in B : j \in 1..n /\ n + 1 - j \in A
  BY <1>1
<1>4. DOMAIN f = A
  OBVIOUS
<1>5. f \in [A -> B]
  BY <1>2
<1>6. A \in SUBSET (1..n) /\ IsFiniteSet(1..n)
  BY <1>1, FS_Interval
<1>7. CountOf(rows, k) = Cardinality(A) /\ CountOf(turned, k) = Cardinality(B)
  BY DEF CountOf, Backwards
<1> HIDE DEF A, B, f
<1>8. \A i, j \in A : f[i] = f[j] => i = j
  BY <1>1, <1>2
<1>9. \A j \in B : \E i \in A : f[i] = j
  BY <1>1, <1>2, <1>3
<1>10. f \in Bijection(A, B)
  BY <1>4, <1>5, <1>8, <1>9 DEF Bijection, Injection, Surjection, IsInjective
<1>11. IsFiniteSet(A)
  BY <1>6, FS_Subset
<1>12. Cardinality(B) = Cardinality(A)
  BY <1>10, <1>11, FS_Bijection DEF ExistsBijection
<1> QED BY <1>7, <1>12

LEMMA ConardLiTurns ==
  ASSUME NEW t, Shaped(t), t.strategy = "conardli", Accepts(t)
  PROVE  TurnsWell(t)
<1> DEFINE u == Turned(t)
           d == t.doc
           e == u.doc
           rows == d.cases
           turned == e.cases
           n == Len(rows)
<1>1. /\ u.strategy = "conardli" /\ u.files = t.files /\ turned = Reverse(rows) /\ IsList(rows)
      /\ e.categories = d.categories /\ e.templates = d.templates /\ e.summary = d.summary
      /\ e.mapping = d.mapping /\ e.mapped = d.mapped
  BY ConardLiTurnedDoc
<1>2. Backwards(turned, rows, n)
  BY <1>1, ReverseFact
<1>3. /\ ConardLiCategories(d) /\ ConardLiRows(t, d) /\ ConardLiMapping(d) /\ ConardLiFiles(t, d)
  BY DEF Accepts, ConardLiAccepts
<1>4. Data(u) = Data(t)
  BY <1>1 DEF Data
<1>5. /\ \A p : (snapshot_file(u, p) <=> snapshot_file(t, p)) /\ read_snapshot_text(u, p) = read_snapshot_text(t, p)
      /\ Under(u, "case") = Under(t, "case")
      /\ regular_relative_files(u, "case") <=> regular_relative_files(t, "case")
  BY <1>1, SameFiles
<1> HIDE DEF u, d, e
<1>6. /\ Range(turned) = Range(rows) /\ Len(turned) = n /\ (turned = <<>> <=> rows = <<>>)
      /\ \A k : CountOf(turned, k) = CountOf(rows, k)
  <2> HIDE DEF rows, turned, n
  <2>1. \A k : CountOf(turned, k) = CountOf(rows, k)
    BY <1>2, CountOfReversed
  <2> QED BY <1>2, <2>1 DEF Backwards
<1>7. /\ Range(Column(turned, "id")) = Range(Column(rows, "id"))
      /\ IsInjective(Column(rows, "id")) => IsInjective(Column(turned, "id"))
  BY <1>1, ReverseColumn
<1>8. ConardLiCategories(e)
  BY <1>1, <1>3 DEF ConardLiCategories
<1>9. ConardLiRows(u, e)
  BY <1>1, <1>3, <1>5, <1>6, <1>7 DEF ConardLiRows
<1>10. ConardLiMapping(e)
  BY <1>1, <1>3, <1>7 DEF ConardLiMapping
<1>11. ConardLiFiles(u, e)
  BY <1>3, <1>5, <1>6 DEF ConardLiFiles
<1>12. ConardLiAccepts(u)
  BY <1>8, <1>9, <1>10, <1>11 DEF ConardLiAccepts, e
<1>13. PICK m : KeysApart(ConardLiCases(t), m)
  BY ListedKeysApart DEF Listed
<1>14. ByKey(ConardLiCases(u)) = ByKey(ConardLiCases(t))
  <2> DEFINE cs == ConardLiCases(t)
             ds == ConardLiCases(u)
             Case(v, r) == OneOutput(r.id, r.prompt, CasePath(r.id, "png"),
                                     {Data(v), CasePath(0, "mapping"), CasePath(r.id, "txt")})
  <2>1. /\ DOMAIN cs = 1..n /\ DOMAIN ds = 1..n
        /\ \A i \in 1..n : cs[i] = Case(t, rows[i])
        /\ \A i \in 1..n : ds[i] = Case(u, turned[i])
    BY <1>2 DEF ConardLiCases, Backwards, d, e
  <2>2. \A r : Case(u, r) = Case(t, r)
    BY <1>4
  <2> HIDE DEF rows, turned, n, cs, ds, Case
  <2>3. \A i \in 1..n : ds[i] = cs[n + 1 - i]
    BY <1>2, <2>1, <2>2 DEF Backwards
  <2>4. m = n
    BY <1>2, <1>13, <2>1 DEF KeysApart, cs, Backwards
  <2> QED BY <1>13, <2>1, <2>3, <2>4, ByKeyOfReversed DEF cs, ds
<1> QED BY <1>1, <1>12, <1>14 DEF TurnsWell, Accepts, Cases, Listed, u

\* but for their numbers, turned has the n records the other way round
TurnedRecords(turned, rows, n) ==
  /\ IsList(rows) /\ n \in Nat /\ DOMAIN rows = 1..n /\ DOMAIN turned = 1..n
  /\ turned = <<>> <=> rows = <<>>
  /\ \A i \in 1..n :
       /\ n + 1 - i \in 1..n
       /\ turned[i].index = i
       /\ turned[i].id = rows[n + 1 - i].id
       /\ turned[i].prompt = rows[n + 1 - i].prompt
       /\ turned[i].images = rows[n + 1 - i].images
       /\ turned[i].pairs = rows[n + 1 - i].pairs
       /\ turned[i].dims = rows[n + 1 - i].dims
       /\ turned[i].languages = rows[n + 1 - i].languages

\* An Erickkkyt tree with its rows backwards,
LEMMA ErickkkytTurnedDoc ==
  ASSUME NEW t, Shaped(t), t.strategy = "erickkkyt"
  PROVE  /\ Turned(t).strategy = t.strategy /\ Turned(t).files = t.files
         /\ TurnedRecords(Turned(t).doc.rows, t.doc.rows, Len(t.doc.rows))
<1> DEFINE u == Turned(t)
           rows == t.doc.rows
           turned == u.doc.rows
           n == Len(rows)
<1>1. u = [t EXCEPT !.doc.rows = [i \in DOMAIN @ |-> [Reverse(@)[i] EXCEPT !.index = i]]]
  BY DEF Turned
<1>2. /\ DOMAIN t = {"strategy", "doc", "files"} /\ "rows" \in DOMAIN t.doc /\ IsList(rows)
      /\ \A r \in Range(rows) : {"id", "index", "prompt", "images", "pairs", "dims", "languages"} \subseteq DOMAIN r
  BY DEF Shaped, Asked
<1>3. /\ u.strategy = t.strategy /\ u.files = t.files
      /\ turned = [i \in DOMAIN rows |-> [Reverse(rows)[i] EXCEPT !.index = i]]
  BY <1>1, <1>2
<1> HIDE DEF u, rows, turned, n
<1>4. Backwards(Reverse(rows), rows, n)
  BY <1>2, ReverseFact DEF rows, n
<1>5. n \in Nat /\ DOMAIN rows = 1..n /\ DOMAIN turned = 1..n
  BY <1>3, <1>4 DEF Backwards
<1>6. turned = <<>> <=> rows = <<>>
  <2>1. turned = [i \in 1..n |-> turned[i]]
    BY <1>3, <1>5
  <2>2. IsList(turned) /\ Len(turned) = n
    BY <1>5, <2>1, ListOf
  <2>3. /\ turned = <<>> <=> n = 0
        /\ rows = <<>> <=> n = 0
    BY <1>2, <2>2, ListFact DEF n
  <2> QED BY <2>3
<1>7. ASSUME NEW i \in 1..n
      PROVE  /\ n + 1 - i \in 1..n
             /\ turned[i].index = i
             /\ turned[i].id = rows[n + 1 - i].id
             /\ turned[i].prompt = rows[n + 1 - i].prompt
             /\ turned[i].images = rows[n + 1 - i].images
             /\ turned[i].pairs = rows[n + 1 - i].pairs
             /\ turned[i].dims = rows[n + 1 - i].dims
             /\ turned[i].languages = rows[n + 1 - i].languages
  <2> DEFINE r == rows[n + 1 - i]
  <2>1. n + 1 - i \in 1..n /\ turned[i] = [r EXCEPT !.index = i]
    BY <1>3, <1>4, <1>5 DEF Backwards
  <2>2. {"id", "index", "prompt", "images", "pairs", "dims", "languages"} \subseteq DOMAIN r
    BY <1>2, <2>1, ListFact, <1>5
  <2> HIDE DEF r
  <2>3. /\ turned[i].index = i /\ turned[i].id = r.id /\ turned[i].prompt = r.prompt
        /\ turned[i].images = r.images /\ turned[i].pairs = r.pairs /\ turned[i].dims = r.dims
        /\ turned[i].languages = r.languages
    BY <2>1, <2>2
  <2> QED BY <2>1, <2>3 DEF r
<1>8. TurnedRecords(turned, rows, n)
  BY <1>2, <1>5, <1>6, <1>7 DEF TurnedRecords, rows
<1> QED BY <1>3, <1>8 DEF u, rows, turned, n

\* What no two rows share, no two rows of the reversed list share.
TurnedColumn(turned, rows, n, f) ==
  /\ n \in Nat /\ DOMAIN rows = 1..n /\ DOMAIN turned = 1..n
  /\ \A i \in 1..n : n + 1 - i \in 1..n /\ turned[i][f] = rows[n + 1 - i][f]

\* whose columns repeat nothing the others do not.
LEMMA UnrepeatedOfTurned ==
  ASSUME NEW turned, NEW rows, NEW n, NEW f, TurnedColumn(turned, rows, n, f), Unrepeated(rows, f)
  PROVE  Unrepeated(turned, f)
<1> SUFFICES ASSUME NEW i \in 1..n, NEW j \in 1..n,
                    NEW k \in DOMAIN turned[i][f], NEW l \in DOMAIN turned[j][f],
                    turned[i][f][k] = turned[j][f][l]
             PROVE  i = j /\ k = l
  BY DEF Unrepeated, TurnedColumn
<1> DEFINE x == n + 1 - i
           y == n + 1 - j
<1>1. n \in Nat /\ DOMAIN rows = 1..n
  BY DEF TurnedColumn
<1>2. x \in 1..n /\ y \in 1..n /\ turned[i][f] = rows[x][f] /\ turned[j][f] = rows[y][f]
  BY DEF TurnedColumn
<1>3. x = y => i = j
  BY <1>1
<1> HIDE DEF x, y
<1>4. k \in DOMAIN rows[x][f] /\ l \in DOMAIN rows[y][f] /\ rows[x][f][k] = rows[y][f][l]
  BY <1>2
<1>5. x = y /\ k = l
  BY <1>1, <1>2, <1>4 DEF Unrepeated
<1> QED BY <1>3, <1>5

LEMMA ErickkkytTurns ==
  ASSUME NEW t, Shaped(t), t.strategy = "erickkkyt", Accepts(t)
  PROVE  TurnsWell(t)
<1> DEFINE u == Turned(t)
           rows == t.doc.rows
           turned == u.doc.rows
           n == Len(rows)
<1>0. u.strategy = "erickkkyt" /\ u.files = t.files /\ TurnedRecords(turned, rows, n)
  BY ErickkkytTurnedDoc
<1>1. /\ u.strategy = "erickkkyt" /\ u.files = t.files
      /\ IsList(rows) /\ n \in Nat /\ DOMAIN rows = 1..n /\ DOMAIN turned = 1..n
      /\ turned = <<>> <=> rows = <<>>
      /\ \A i \in 1..n :
           /\ n + 1 - i \in 1..n
           /\ turned[i].index = i
           /\ turned[i].id = rows[n + 1 - i].id
           /\ turned[i].prompt = rows[n + 1 - i].prompt
           /\ turned[i].images = rows[n + 1 - i].images
           /\ turned[i].pairs = rows[n + 1 - i].pairs
           /\ turned[i].dims = rows[n + 1 - i].dims
           /\ turned[i].languages = rows[n + 1 - i].languages
  <2> HIDE DEF u, rows, turned, n
  <2> QED BY <1>0 DEF TurnedRecords
<1>2. /\ rows # <<>> /\ IsInjective(Column(rows, "id"))
      /\ \A i \in 1..n : ErickkkytRow(t, rows[i], i)
      /\ Unrepeated(rows, "images") /\ Unrepeated(rows, "pairs")
      /\ regular_relative_files(t, "assets")
      /\ Under(t, "assets") \ UNION {Range(r.images) : r \in Range(rows)} = Known("assets")
      /\ UNION {Range(r.images) : r \in Range(rows)} \subseteq Under(t, "assets")
  BY <1>1 DEF Accepts, ErickkkytAccepts, UniqueInSource
<1>3. Data(u) = Data(t)
  BY <1>1 DEF Data
<1>4. /\ \A p : snapshot_file(u, p) <=> snapshot_file(t, p)
      /\ Under(u, "assets") = Under(t, "assets")
      /\ regular_relative_files(u, "assets") <=> regular_relative_files(t, "assets")
  BY <1>1, SameFiles
<1>5. \A i, j \in 1..n : n + 1 - i = n + 1 - j => i = j
  BY <1>1
<1> HIDE DEF u, rows, turned, n
<1>6. IsInjective(Column(turned, "id"))
  <2>1. \A i, j \in 1..n : rows[i].id = rows[j].id => i = j
    BY <1>1, <1>2, ColumnFact
  <2>2. \A i, j \in 1..n : turned[i].id = turned[j].id => i = j
    BY <1>1, <1>5, <2>1
  <2> QED BY <1>1, <2>2 DEF IsInjective, Column
<1>7. \A i \in 1..n : ErickkkytRow(u, turned[i], i)
  <2> TAKE i \in 1..n
  <2>1. ErickkkytRow(t, rows[n + 1 - i], n + 1 - i)
    BY <1>1, <1>2
  <2> QED BY <1>1, <1>4, <2>1 DEF ErickkkytRow
<1>8. Unrepeated(turned, "images")
  <2>1. \A i \in 1..n : n + 1 - i \in 1..n /\ turned[i]["images"] = rows[n + 1 - i]["images"]
    BY <1>1
  <2> QED BY <1>1, <1>2, <2>1, UnrepeatedOfTurned DEF TurnedColumn
<1>9. Unrepeated(turned, "pairs")
  <2>1. \A i \in 1..n : n + 1 - i \in 1..n /\ turned[i]["pairs"] = rows[n + 1 - i]["pairs"]
    BY <1>1
  <2> QED BY <1>1, <1>2, <2>1, UnrepeatedOfTurned DEF TurnedColumn
<1>10. UNION {Range(r.images) : r \in Range(turned)} = UNION {Range(r.images) : r \in Range(rows)}
  <2>1. \A i \in 1..n : Range(turned[i].images) = Range(rows[n + 1 - i].images)
    BY <1>1
  <2>2. \A i \in 1..n : n + 1 - (n + 1 - i) = i
    BY <1>1
  <2>3. \A i \in 1..n : \E j \in 1..n : Range(turned[j].images) = Range(rows[i].images)
    BY <1>1, <2>1, <2>2
  <2>4. \A s : DOMAIN s = 1..n => UNION {Range(r.images) : r \in Range(s)} = UNION {Range(s[i].images) : i \in 1..n}
    BY DEF Range
  <2>5. \A i \in 1..n : \E j \in 1..n : Range(turned[i].images) = Range(rows[j].images)
    BY <1>1, <2>1
  <2>6. UNION {Range(turned[i].images) : i \in 1..n} = UNION {Range(rows[i].images) : i \in 1..n}
    <3> DEFINE a == [i \in 1..n |-> Range(turned[i].images)]
               b == [i \in 1..n |-> Range(rows[i].images)]
    <3>1. /\ \A i \in 1..n : \E j \in 1..n : a[i] = b[j]
          /\ \A i \in 1..n : \E j \in 1..n : a[j] = b[i]
      BY <2>3, <2>5
    <3>2. /\ UNION {Range(turned[i].images) : i \in 1..n} = UNION {a[i] : i \in 1..n}
          /\ UNION {Range(rows[i].images) : i \in 1..n} = UNION {b[i] : i \in 1..n}
      OBVIOUS
    <3> HIDE DEF a, b
    <3>3. UNION {a[i] : i \in 1..n} = UNION {b[i] : i \in 1..n}
      BY <3>1
    <3> QED BY <3>2, <3>3
  <2> QED BY <1>1, <2>4, <2>6
<1>11. ErickkkytAccepts(u)
  BY <1>1, <1>2, <1>4, <1>6, <1>7, <1>8, <1>9, <1>10 DEF ErickkkytAccepts, UniqueInSource, turned
<1>12. PICK m : KeysApart(ErickkkytCases(t), m)
  BY ListedKeysApart DEF Listed
<1>13. KeysApart(Cases(t), n) /\ Renumbers(Cases(t), Cases(u), n)
  <2> DEFINE cs == ErickkkytCases(t)
             ds == ErickkkytCases(u)
             es == [i \in 1..n |-> cs[n + 1 - i]]
             Case(v, id, prompt, images, pairs, languages, index) ==
               [key |-> id, prompt |-> prompt,
                refs |-> [k \in DOMAIN images |-> [id |-> pairs[k], path |-> images[k]]],
                evidence |-> {Data(v)} \cup Range(images),
                copied |-> Copied(Range(languages), "none", index)]
  <2>1. /\ DOMAIN cs = 1..n /\ DOMAIN ds = 1..n
        /\ \A i \in 1..n : cs[i] = Case(t, rows[i].id, rows[i].prompt, rows[i].images, rows[i].pairs,
                                       rows[i].languages, rows[i].index)
        /\ \A i \in 1..n : ds[i] = Case(u, turned[i].id, turned[i].prompt, turned[i].images, turned[i].pairs,
                                       turned[i].languages, turned[i].index)
    BY <1>1 DEF ErickkkytCases, rows, turned
  <2>2. \A id, prompt, images, pairs, languages, index, other :
          /\ Unnumbered(Case(u, id, prompt, images, pairs, languages, index)) =
               Unnumbered(Case(t, id, prompt, images, pairs, languages, other))
          /\ Case(u, id, prompt, images, pairs, languages, index).copied.position = index
          /\ Case(t, id, prompt, images, pairs, languages, other).copied.position = other
    BY <1>3 DEF Unnumbered, Copied
  <2> HIDE DEF cs, ds, Case
  <2>3. m = n
    BY <1>1, <1>12, <2>1 DEF KeysApart, cs
  <2>4. DOMAIN es = 1..n /\ \A i \in 1..n : es[i] = cs[n + 1 - i]
    OBVIOUS
  <2> HIDE DEF es
  <2>5. ByKey(es) = ByKey(cs)
    BY <1>12, <2>3, <2>4, ByKeyOfReversed DEF cs
  <2>6. KeysApart(es, n)
    <3>1. /\ \A i \in 1..n : cs[i].key \in Nat
          /\ \A i, j \in 1..n : cs[i].key = cs[j].key => i = j
      BY <1>12, <2>3 DEF KeysApart, cs
    <3>2. \A i \in 1..n : n + 1 - i \in 1..n /\ es[i].key = cs[n + 1 - i].key
      BY <1>1, <2>4
    <3>3. \A i, j \in 1..n : es[i].key = es[j].key => i = j
      BY <1>5, <3>1, <3>2
    <3>4. \A i \in 1..n : es[i].key \in Nat
      BY <3>1, <3>2
    <3>5. n \in Nat
      BY <1>1
    <3> QED BY <2>4, <3>3, <3>4, <3>5 DEF KeysApart
  <2>7. ASSUME NEW i \in 1..n
        PROVE  /\ Unnumbered(ds[i]) = Unnumbered(es[i])
               /\ ds[i].copied.position = n + 1 - es[i].copied.position
    <3> DEFINE k == n + 1 - i
    <3>0. k \in 1..n /\ es[i] = cs[k] /\ n + 1 - k = i
      BY <1>1, <2>4
    <3>1. k \in 1..n /\ es[i] = cs[k] /\ n + 1 - k = i /\ rows[k].index = k
      <4> HIDE DEF k
      <4> QED BY <1>2, <3>0 DEF ErickkkytRow
    <3>2. /\ turned[i].id = rows[k].id /\ turned[i].prompt = rows[k].prompt
          /\ turned[i].images = rows[k].images /\ turned[i].pairs = rows[k].pairs
          /\ turned[i].languages = rows[k].languages /\ turned[i].index = i
      BY <1>1
    <3> HIDE DEF k
    <3>3. /\ cs[k] = Case(t, rows[k].id, rows[k].prompt, rows[k].images, rows[k].pairs, rows[k].languages, k)
          /\ ds[i] = Case(u, rows[k].id, rows[k].prompt, rows[k].images, rows[k].pairs, rows[k].languages, i)
      BY <2>1, <3>1, <3>2
    <3>4. Unnumbered(ds[i]) = Unnumbered(cs[k]) /\ ds[i].copied.position = i /\ cs[k].copied.position = k
      BY <2>2, <3>3
    <3> QED BY <3>1, <3>4
  <2>8. Renumbers(es, ds, n)
    BY <2>1, <2>4, <2>7 DEF Renumbers
  <2>9. Renumbers(ByKey(cs), ByKey(ds), n)
    BY <2>5, <2>6, <2>8, RenumberedByKey
  <2>10. KeysApart(ByKey(cs), n)
    BY <1>12, <2>3, ByKeySorts DEF Sorted, KeysApart, cs
  <2> QED BY <1>1, <2>9, <2>10 DEF Cases, Listed, cs, ds
<1> QED BY <1>1, <1>11, <1>13 DEF TurnsWell, Accepts, u

\* So for each adapter.
LEMMA AcceptedTurnsWell ==
  ASSUME NEW t, Shaped(t), Accepts(t)
  PROVE  TurnsWell(t)
<1>1. t.strategy \in DOMAIN Asked
  BY DEF Shaped
<1> QED BY <1>1, G0damTurns, JoeSaiTurns, ConardLiTurns, FreestyleflyTurns, ErickkkytTurns, VigoZhaoTurns, ChaosTurns
        DEF Asked

\* The documents of a plan do not depend on the order of the rows of the manifest,
\* but for the numbers that erickkkyt copies from them.
THEOREM RowOrderDoesNotMatter == Spec => []RowOrderIsIrrelevant
<1>1. StageInv => RowOrderIsIrrelevant
  <2> SUFFICES ASSUME StageInv, answer = "planned" PROVE RowOrderIsIrrelevant
    BY DEF RowOrderIsIrrelevant
  <2>1. Shaped(tree)
    BY TreesAssumption DEF StageInv
  <2>2. Accepts(tree) /\ parsed = Cases(tree) /\ output = resolved_adapter_output(tree, parsed)
    BY DEF StageInv, Packaged, Projected, AssetsRead, Parsed
  <2>3. TurnsWell(tree)
    BY <2>1, <2>2, AcceptedTurnsWell
  <2>4. CASE tree.strategy # "erickkkyt"
    <3>1. Cases(Turned(tree)) = parsed
      BY <2>2, <2>3, <2>4 DEF TurnsWell
    <3> QED BY <2>2, <2>3, <2>4, <3>1 DEF RowOrderIsIrrelevant, TurnsWell
  <2>5. CASE tree.strategy = "erickkkyt"
    <3> DEFINE other == Cases(Turned(tree))
    <3>1. PICK n : KeysApart(parsed, n) /\ Renumbers(parsed, other, n)
      BY <2>2, <2>3, <2>5 DEF TurnsWell
    <3> DEFINE x == [i \in 1..n |-> Resolved(tree, parsed[i])]
               y == [i \in 1..n |-> Resolved(tree, other[i])]
               turned == resolved_adapter_output(tree, other)
    <3>2. output = ByKey(x) /\ turned = ByKey(y)
      BY <2>2, <3>1 DEF resolved_adapter_output, Renumbers
    <3> HIDE DEF other
    <3>3. KeysApart(x, n) /\ Renumbers(x, y, n)
      BY <3>1, RenumberedResolved
    <3> HIDE DEF x, y
    <3>4. Renumbers(output, turned, n)
      BY <3>2, <3>3, RenumberedByKey
    <3>5. n \in Nat /\ IsList(output) /\ DOMAIN output = 1..n
      BY <3>2, <3>3, ByKeySorts DEF Sorted
    <3>6. Len(output) = n
      BY <3>5, ListFact
    <3> HIDE DEF turned
    <3>7. /\ DOMAIN turned = DOMAIN output
          /\ \A i \in DOMAIN output :
               /\ Unnumbered(turned[i]) = Unnumbered(output[i])
               /\ turned[i].copied.position = Len(output) + 1 - output[i].copied.position
      BY <3>4, <3>5, <3>6 DEF Renumbers
    <3> QED BY <2>3, <2>5, <3>7 DEF RowOrderIsIrrelevant, TurnsWell, turned, other
  <2> QED BY <2>4, <2>5
<1> QED BY <1>1, StageInvariant, PTL
=============================================================================
