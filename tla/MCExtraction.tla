--------------------------- MODULE MCExtraction ---------------------------
(* Extraction for TLC: small trees of every strategy. Most differ from a    *)
(* well-formed tree in one or two places, with every kind of audit record.  *)
EXTENDS Extraction

Img(b) == [kind |-> "image", bytes |-> b]
Html == [kind |-> "html", bytes |-> "h"]
Link == [kind |-> "link", bytes |-> "l"]
Doc(slug, text) == [kind |-> "text", bytes |-> "t", slug |-> slug, text |-> text, ratio |-> "plain"]
MCOrphans == {<<"images", 9, "jpg">>, <<"assets", 9, "png">>}

Measured(t) ==
  IF Accepts(t) /\ \A c \in Range(Cases(t)) : \A x \in Range(c.refs) : read_asset(t, x.path)
    THEN LET records == resolved_adapter_output(t, Cases(t))
         IN  extraction_metrics(records, [i \in DOMAIN records |-> generation_example_for(records[i])])
    ELSE Nothing.metrics

\* the registry names revision 1
MCAudits(t) ==
  {[active |-> TRUE, revision |-> 1, metrics |-> Measured(t)],
   [active |-> FALSE, revision |-> 1, metrics |-> Measured(t)],
   [active |-> TRUE, revision |-> 2, metrics |-> Measured(t)],
   [active |-> TRUE, revision |-> 1, metrics |-> [Measured(t) EXCEPT !.fingerprint = {}]]}
Tree(s, d, f) == [strategy |-> s, doc |-> d, files |-> f]
UpTo(S, n) == UNION {[1..k -> S] : k \in 0..n}
Exactly(files, c) == [p \in files |-> c]

Pictures == {Img("A"), Img("B"), Html, Link}
P(d, n) == <<d, n, "png">>

G0damTrees ==
  LET rows == [id : {1, 2}, prompt : {"long", "short"}, image : {P("img", 1), P("img", 2), Unsafe}]
  IN  {Tree("g0dam", [rows |-> r, count |-> n], (P("img", 1) :> Img("A")) @@ (P("img", 2) :> f)) :
         r \in UpTo(rows, 2), n \in {1, 2, 0}, f \in {Img("A"), Html}}

JoeSaiTrees ==
  LET rows == [id : {1, 2}, title : {"x"}, image : {P("examples", 1), P("examples", 2)}]
      texts == {[title |-> t, sections |-> s, text |-> p, kind |-> "text", bytes |-> "t"] :
                  t \in {"x", "y"}, s \in {<<"best", "en", "zh">>, <<"en", "zh">>}, p \in {"longCRLF", "short"}}
      Files(r, page, img, extra) ==
        [p \in {Page(x) : x \in Range(r)} \cup {README} \cup {x.image : x \in Range(r)} \cup extra |->
           IF p[3] = "page" THEN page ELSE IF p[2] = 1 THEN Img("A") ELSE img]
  IN  {Tree("joesai", [rows |-> r], Files(r, page, img, e)) : r \in UpTo(rows, 2), page \in texts,
         img \in Pictures, e \in {{}, {P("examples", 2)}, {<<"prompts", 2, "page">>}}}

ConardLiTrees ==
  LET C(k, i) == [category |-> 1, template |-> k, idx |-> i, id |-> 10 * k + i, prompt |-> "long"]
      lists == {<<C(1, 1)>>, <<C(2, 1), C(1, 1)>>, <<C(1, 1), C(1, 2)>>, <<C(1, 1), C(1, 1)>>,
                <<[C(1, 1) EXCEPT !.id = 12], C(1, 2)>>, <<[C(1, 1) EXCEPT !.prompt = "longCRLF"]>>, <<>>}
      D(l, n, m, ready) ==
        [categories |-> (1 :> [templates |-> [i \in 1..Cardinality({c.template : c \in Range(l)}) |-> i],
                               total |-> Len(l), ready |-> ready]),
         templates |-> [k \in {c.template : c \in Range(l)} |-> [category |-> 1, count |-> n[k]]],
         cases |-> l, summary |-> <<Cardinality({c.template : c \in Range(l)}), Len(l)>>,
         mapping |-> m, mapped |-> <<Cardinality({c.template : c \in Range(l)}), Len(l)>>]
      maps == {<<[template |-> 1, cases |-> <<1>>]>>, <<[template |-> 1, cases |-> <<1, 2>>]>>,
               <<[template |-> 1, cases |-> <<1, 1>>]>>,
               <<[template |-> 1, cases |-> <<1>>], [template |-> 2, cases |-> <<1>>]>>}
      Files(l, img, extra) ==
        [p \in {CasePath(0, "mapping"), CasePath(0, "INDEX")} \cup extra \cup
               {CasePath(c.id, n) : c \in Range(l), n \in {"txt", "png", "thumb"}} |->
           IF p[3] = "txt" THEN Doc(p[2], "longCRLF") ELSE IF p[2] = 11 THEN Img("A") ELSE img]
  IN  {Tree("conardli", D(l, n, m, ready), Files(l, img, e)) :
         l \in lists, n \in {<<1, 1>>, <<2, 0>>}, m \in maps, ready \in {1, 2}, img \in Pictures,
         e \in {{}, {CasePath(31, "png")}}}

FreestyleflyTrees ==
  LET rows == [id : {1, 2}, prompt : {"short", "word"}, image : {P("images", 1), P("images", 2), <<"images", 1, "jpg">>}]
      Files(r, img, extra) ==
        [p \in {x.image : x \in Range(r)} \cup extra \cup {<<"images", 0, "logo">>} |->
           IF p[2] = 2 THEN img ELSE Img("A")]
  IN  {Tree("freestylefly", [rows |-> r, count |-> n], Files(r, img, e)) :
         r \in UpTo(rows, 2), n \in {1, 2}, img \in Pictures,
         e \in {{<<"images", 9, "jpg">>}, {<<"images", 9, "jpg">>, P("images", 2)}, {}}}

\* two images of one record in each order of their pair ids, and twelve of one record
ErickkkytTrees ==
  LET In(i, id, img, prs, l) ==
        [index |-> i, id |-> id, prompt |-> "short", images |-> img, pairs |-> prs, dims |-> img, languages |-> l]
      R(i, id, img, prs) == In(i, id, img, prs, <<"en">>)
      A(n) == P("assets", n)
      lists == {<<R(1, 1, img, prs)>> : img \in UpTo({A(1), A(2)}, 2), prs \in UpTo({2, 10}, 2)} \cup
               {<<R(1, i, img, <<2>>), R(j, 2, img2, prs)>> : i \in {1, 3}, j \in {1, 2}, img \in {<<A(1)>>},
                  img2 \in {<<A(1)>>, <<A(2)>>, <<A(2), A(3)>>}, prs \in {<<2>>, <<1>>, <<3, 12>>}} \cup
               {<<R(1, 1, [n \in 1..12 |-> A(100 + n)], [n \in 1..12 |-> n])>>} \cup
               {<<R(1, 2, <<A(1)>>, <<2>>), In(2, 1, <<A(2)>>, <<1>>, l)>> :
                  l \in {<<>>, <<"en", "zh">>, <<"en", "blank">>, <<"">>}}
      Files(r, img, extra) ==
        [p \in (UNION {Range(x.images) : x \in Range(r)}) \cup extra |->
           IF p[2] = 1 THEN Img("A") ELSE IF p[2] > 100 THEN Img(p[2]) ELSE img]
  IN  {Tree("erickkkyt", [rows |-> r], Files(r, img, e)) : r \in lists, img \in Pictures,
         e \in {{P("assets", 9)}, {P("assets", 9), P("assets", 4)}, {}}}

VigoZhaoTrees ==
  LET Files(S, img, text, slug, extra) ==
        [p \in {StylePath(s, n) : s \in S, n \in {"style"} \cup Range(Previews)} \cup extra |->
           IF p[3] = "style" THEN Doc(IF p[2] = 2 THEN slug ELSE p[2], text)
           ELSE IF p[3] = "preview-9x16" THEN img ELSE Img("A")]
  IN  {Tree("vigozhao", [none |-> 0], Files(S, img, text, slug, e)) : S \in SUBSET {1, 2}, img \in Pictures,
         text \in {"long", "word"}, slug \in {1, 2}, e \in {{}, {StylePath(0, "loose")}, {StylePath(3, "style")}}}

\* cases 11 and 21 are the same image of two topics and may name one directory
ChaosTrees ==
  LET Row(id, topic, d) == [id |-> id, topic |-> topic, meta |-> WorkPath(d, "meta")]
      lists == {<<Row(11, 1, 1)>>, <<Row(11, 2, 1)>>, <<Row(11, 1, 1), Row(12, 1, 2)>>, <<Row(12, 1, 1), Row(11, 1, 1)>>,
                <<Row(11, 1, 1), Row(11, 1, 1)>>, <<Row(21, 2, 1), Row(11, 1, 1)>>, <<Row(21, 2, 2), Row(11, 1, 1)>>}
      admissions ==
        {[admitted |-> a, exclusions |-> x, counts |-> c] : a \in {<<11>>, <<11, 12>>, <<11, 21>>, <<21, 11>>},
           x \in {<<>>, <<<<12, 1>>>>, <<<<12, 1>>, <<12, 2>>>>, <<<<11, 1>>>>}, c \in {<<1, 0, 1>>, <<1, 1, 2>>, <<2, 0, 2>>}}
      Files(slug, img, ratio) ==
        [p \in {WorkPath(d, n) : d \in {1, 2}, n \in {"meta"} \cup Range(Variants)} |->
           CASE p[3] = "meta" -> [Doc(IF p[2] = 1 THEN 1 ELSE slug, "long") EXCEPT !.ratio = IF p[2] = 1 THEN @ ELSE ratio]
             [] p[3] = "full" -> img
             [] p[3] = "512" -> Img("A")
             [] OTHER -> Img("C")]
  IN  {Tree("chaosrealms", [admission |-> a, rows |-> r], Files(slug, img, ratio)) :
         a \in admissions, r \in lists, slug \in {1, 2}, img \in Pictures \ {Html}, ratio \in {"plain", "decision"}}

MCTrees == G0damTrees \cup JoeSaiTrees \cup ConardLiTrees \cup FreestyleflyTrees
             \cup ErickkkytTrees \cup VigoZhaoTrees \cup ChaosTrees
=============================================================================
