-------------------------------- MODULE Meridian --------------------------------
(* The browser engine of Meridian: postings, boolean and ranked queries,    *)
(* phrases, wildcards, fuzzy terms over a BK-tree, and suggestions.  A word *)
(* is a sequence of letters.  Stemming, CJK segmentation, stopwords, fields *)
(* and the scores themselves are left out; the lexer's tokens are taken as  *)
(* they come out of it.                                                     *)
EXTENDS Integers, Sequences, FiniteSets, SequencesExt, FiniteSetsExt

CONSTANTS Vocab,    \* the index's words, sorted
          Docs,     \* the documents: sequences of words, numbered from 0
          Tokens,   \* what a query is typed from
          MaxToks,
          Null

VARIABLES
  index,   \* the loaded index: the decoded postings of each word, the BK-tree
  toks,    \* what has been typed
  answer

vars == <<index, toks, answer>>

DocIds == [i \in 1 .. Len(Docs) |-> i - 1]

(* Postings arrive as differences: document, frequency, then positions.     *)
RECURSIVE DecodePostings(_, _)
DecodePostings(ns, prevDoc) ==
  IF ns = <<>> THEN <<>>
  ELSE LET doc == prevDoc + ns[1]
           tf == ns[2]
           pos[k \in 1 .. tf] == ns[2 + k] + (IF k = 1 THEN 0 ELSE pos[k - 1])
       IN  <<[doc |-> doc, positions |-> pos]>>
           \o DecodePostings(SubSeq(ns, tf + 3, Len(ns)), doc)
(* The exporter (not JavaScript) writes them so.                            *)
PositionsIn(t, d) ==
  SelectSeq([i \in DOMAIN Docs[d + 1] |-> i - 1], LAMBDA p : Docs[d + 1][p + 1] = t)
Differences(s) == [i \in DOMAIN s |-> IF i = 1 THEN s[1] ELSE s[i] - s[i - 1]]
Exported(t) ==
  LET ds == SelectSeq(DocIds, LAMBDA d : PositionsIn(t, d) # <<>>)
  IN  FlattenSeq([i \in DOMAIN ds |->
        <<Differences(ds)[i], Len(PositionsIn(t, ds[i]))>>
        \o Differences(PositionsIn(t, ds[i]))])

Postings(t) == IF t \in DOMAIN index.postings THEN index.postings[t] ELSE <<>>
PostingDocs(t) == LET ps == Postings(t) IN [i \in DOMAIN ps |-> ps[i].doc]
Df(t) == Len(Postings(t))
TermPositions(t, d) ==
  FlattenSeq(LET ps == Postings(t)
             IN  [i \in DOMAIN ps |-> IF ps[i].doc = d THEN ps[i].positions ELSE <<>>])

(* One row of the table after another, as two arrays that change places.    *)
Levenshtein(a, b) ==
  LET row(i, prev) ==
        LET cur[j \in 0 .. Len(b)] ==
              IF j = 0 THEN i
              ELSE Min({prev[j] + 1, cur[j - 1] + 1,
                        prev[j - 1] + (IF a[i] = b[j] THEN 0 ELSE 1)})
        IN  cur
      rows[i \in 0 .. Len(a)] ==
        IF i = 0 THEN [j \in 0 .. Len(b) |-> j] ELSE row(i, rows[i - 1])
  IN  rows[Len(a)][Len(b)]

(* A BK-tree as a map from a word to its parent and its distance from it:   *)
(* a word descends along children at its own distance until there is none.  *)
Child(tree, at, d) == {w \in DOMAIN tree : tree[w] = <<at, d>>}
RECURSIVE Descend(_, _, _)
Descend(tree, at, t) ==
  LET d == Levenshtein(t, at)
      next == Child(tree, at, d)
  IN  IF at = t THEN tree
      ELSE IF next # {} THEN Descend(tree, CHOOSE w \in next : TRUE, t)
      ELSE [w \in DOMAIN tree \cup {t} |-> IF w = t THEN <<at, d>> ELSE tree[w]]
InsertTerm(tree, t) ==
  IF DOMAIN tree = {} THEN [w \in {t} |-> <<>>]
  ELSE Descend(tree, CHOOSE w \in DOMAIN tree : tree[w] = <<>>, t)
LoadIndex ==
  [postings |-> [t \in Range(Vocab) |-> DecodePostings(Exported(t), 0)],
   tree |-> FoldLeft(InsertTerm, [w \in {} |-> <<>>], Vocab)]
(* Only the children whose distance can hold an answer are visited.         *)
Window(d, max) == d - max .. d + max
RECURSIVE Visit(_, _, _, _)
Visit(tree, at, q, max) ==
  LET d == Levenshtein(q, at)
      in == {w \in DOMAIN tree : tree[w] # <<>> /\ tree[w][1] = at
                                 /\ tree[w][2] \in Window(d, max)}
  IN  (IF d <= max THEN {at} ELSE {}) \cup UNION {Visit(tree, w, q, max) : w \in in}
FuzzyExpand(q, max) ==
  UNION {Visit(index.tree, root, q, max) : root \in {w \in Range(Vocab) : index.tree[w] = <<>>}}

(* The table of matches between prefixes of a pattern and of a word.        *)
PatternMatches(p, t) ==
  LET m[i \in 0 .. Len(p), j \in 0 .. Len(t)] ==
        CASE i = 0 -> j = 0
          [] i > 0 /\ j = 0 -> p[i] = "*" /\ m[i - 1, 0]
          [] OTHER -> IF p[i] = "*" THEN m[i - 1, j] \/ m[i, j - 1]
                      ELSE p[i] \in {"?", t[j]} /\ m[i - 1, j - 1]
  IN  m[Len(p), Len(t)]
ExpandWildcard(p) == SelectSeq(Vocab, LAMBDA t : PatternMatches(p, t))

RECURSIVE MergeSorted(_, _), IntersectSorted(_, _)
MergeSorted(a, b) ==
  IF a = <<>> \/ b = <<>> THEN a \o b
  ELSE IF Head(a) < Head(b) THEN <<Head(a)>> \o MergeSorted(Tail(a), b)
  ELSE IF Head(a) > Head(b) THEN <<Head(b)>> \o MergeSorted(a, Tail(b))
  ELSE <<Head(a)>> \o MergeSorted(Tail(a), Tail(b))
IntersectSorted(a, b) ==
  IF a = <<>> \/ b = <<>> THEN <<>>
  ELSE IF Head(a) < Head(b) THEN IntersectSorted(Tail(a), b)
  ELSE IF Head(a) > Head(b) THEN IntersectSorted(a, Tail(b))
  ELSE <<Head(a)>> \o IntersectSorted(Tail(a), Tail(b))
(* From each place of the rarest word outward: every next word at its first *)
(* place after, every earlier one at its last place before.                 *)
Anchor(ws) == Min({i \in DOMAIN ws : \A j \in DOMAIN ws : Df(ws[i]) <= Df(ws[j])})
SpanFrom(ws, d, p) ==
  LET n == Len(ws)
      at(i) == ToSet(TermPositions(ws[i], d))
      right[i \in Anchor(ws) .. n] ==   \* -1: no such place
        IF i = Anchor(ws) THEN p
        ELSE LET s == {q \in at(i) : right[i - 1] >= 0 /\ q > right[i - 1]}
             IN  IF s = {} THEN -1 ELSE Min(s)
      left[k \in 0 .. Anchor(ws) - 1] ==
        IF k = 0 THEN p
        ELSE LET s == {q \in at(Anchor(ws) - k) : left[k - 1] >= 0 /\ q < left[k - 1]}
             IN  IF s = {} THEN -1 ELSE Max(s)
  IN  IF right[n] < 0 \/ left[Anchor(ws) - 1] < 0 THEN -1
      ELSE right[n] - left[Anchor(ws) - 1]
PhraseDocs(ws, slop) ==
  SelectSeq(PostingDocs(ws[Anchor(ws)]), LAMBDA d :
    \E p \in ToSet(TermPositions(ws[Anchor(ws)], d)) :
      SpanFrom(ws, d, p) >= 0 /\ SpanFrom(ws, d, p) - (Len(ws) - 1) <= slop)

MergeAll(ts) == FoldLeft(LAMBDA acc, t : MergeSorted(acc, PostingDocs(t)), <<>>, ts)
Primary == {"term", "fuzzy", "wildcard", "phrase"}
PrimaryDocs(t) ==
  CASE t.k = "term" -> PostingDocs(t.w)
    [] t.k = "fuzzy" -> LET near == FuzzyExpand(t.w, t.n)
                         IN  MergeAll(SelectSeq(Vocab, LAMBDA w : w \in near))
    [] t.k = "wildcard" -> MergeAll(ExpandWildcard(t.w))
    [] t.k = "phrase" -> PhraseDocs(t.w, t.n)

(* The recursive-descent parser, evaluated as it goes: the documents of a   *)
(* part and where it ended, or Null.  OR below AND below NOT; a boost after *)
(* a primary changes scores only.                                           *)
Kind(i) == IF i <= Len(toks) THEN toks[i].k ELSE "end"
Joined(op, a, b) ==
  [ds |-> IF op = "or" THEN MergeSorted(a, b.ds) ELSE IntersectSorted(a, b.ds), i |-> b.i]
Boosted(r) == IF r # Null /\ Kind(r.i) = "boost" THEN [r EXCEPT !.i = @ + 1] ELSE r
RECURSIVE ParseUnary(_), ParseRest(_, _)
(* What goes on behind a part r, as long as op follows.                     *)
ParseRest(op, r) ==
  IF r = Null THEN Null ELSE IF Kind(r.i) # op THEN r
  ELSE LET u == ParseUnary(r.i + 1)
           b == IF op = "or" THEN ParseRest("and", u) ELSE u
       IN  IF b = Null THEN Null ELSE ParseRest(op, Joined(op, r.ds, b))
ParseAnd(i) == ParseRest("and", ParseUnary(i))
ParseOr(i) == ParseRest("or", ParseAnd(i))
ParsePrimary(i) ==
  IF Kind(i) \in Primary THEN Boosted([ds |-> PrimaryDocs(toks[i]), i |-> i + 1])
  ELSE IF Kind(i) # "(" THEN Null
  ELSE LET r == ParseOr(i + 1)
       IN  IF r = Null THEN Null
           ELSE IF Kind(r.i) # ")" THEN Null ELSE Boosted([r EXCEPT !.i = @ + 1])
ParseUnary(i) ==
  IF Kind(i) # "not" THEN ParsePrimary(i)
  ELSE LET r == ParseUnary(i + 1)
       IN  IF r = Null THEN Null
           ELSE [r EXCEPT !.ds = SelectSeq(DocIds, LAMBDA d : d \notin ToSet(@))]

(* Without operators a query is ranked: any of its words or phrases counts, *)
(* and a boost needs something before it.                                   *)
IsBoolean == \E i \in DOMAIN toks : toks[i].k \in {"and", "or", "not", "(", ")"}
Ranked ==
  IF toks[1].k = "boost" THEN Null
  ELSE [ds |-> FoldLeft(LAMBDA acc, t : IF t.k = "boost" THEN acc
                                       ELSE MergeSorted(acc, PrimaryDocs(t)),
                        <<>>, toks),
        i |-> Len(toks) + 1]
Candidates ==
  LET r == IF IsBoolean THEN ParseOr(1) ELSE Ranked
  IN  IF r = Null THEN Null ELSE IF r.i # Len(toks) + 1 THEN Null ELSE r.ds

(* How close two words come in a document: two fingers over their places.   *)
RECURSIVE Closest(_, _)
Closest(pa, pb) ==
  IF pa = <<>> \/ pb = <<>> THEN {}
  ELSE {IF Head(pa) < Head(pb) THEN Head(pb) - Head(pa) ELSE Head(pa) - Head(pb)}
       \cup (IF Head(pa) < Head(pb) THEN Closest(Tail(pa), pb)
             ELSE Closest(pa, Tail(pb)))
MinTermDistance(d, a, b) ==
  LET c == Closest(TermPositions(a, d), TermPositions(b, d))
  IN  IF c = {} THEN -1 ELSE Min(c)

(* The nearest known words for every single word nobody has, and for every  *)
(* word of a phrase: unknown in a ranked query, any in a boolean one.       *)
Missing ==
  {toks[i].w : i \in {j \in DOMAIN toks : toks[j].k = "term" /\ Df(toks[j].w) = 0}}
  \cup {w \in UNION {ToSet(toks[i].w) : i \in {j \in DOMAIN toks : toks[j].k = "phrase"}} :
         IsBoolean \/ Df(w) = 0}
Suggestions ==
  LET pairs == UNION {{<<Levenshtein(m, w), w>> : w \in FuzzyExpand(m, 2)} : m \in Missing}
      order == FlattenSeq([d \in 1 .. 3 |->
                 SelectSeq(Vocab, LAMBDA w : <<d - 1, w>> \in pairs)])
  IN  SubSeq(order, 1, Min({5, Len(order)}))

Init == index = LoadIndex /\ toks = <<>> /\ answer = Null
Type ==
  /\ Len(toks) < MaxToks /\ answer = Null
  /\ \E t \in Tokens : toks' = Append(toks, t)
  /\ UNCHANGED <<index, answer>>
Search ==
  /\ toks # <<>> /\ answer = Null
  /\ answer' = [ds |-> Candidates, near |-> Suggestions]
  /\ UNCHANGED <<index, toks>>
Next == Type \/ Search
Spec == Init /\ [][Next]_vars

----------------------------------------------------------------------------
TypeOK == Len(toks) <= MaxToks /\ (answer # Null => toks # <<>>)

(* The edit distance by its recursive definition, not by a table.           *)
RECURSIVE Edits(_, _)
Edits(a, b) ==
  IF a = <<>> THEN Len(b) ELSE IF b = <<>> THEN Len(a)
  ELSE IF Head(a) = Head(b) THEN Edits(Tail(a), Tail(b))
  ELSE 1 + Min({Edits(Tail(a), b), Edits(a, Tail(b)), Edits(Tail(a), Tail(b))})
RECURSIVE Globs(_, _)
Globs(p, t) ==
  IF p = <<>> THEN t = <<>>
  ELSE IF Head(p) = "*" THEN \E n \in 0 .. Len(t) : Globs(Tail(p), SubSeq(t, n + 1, Len(t)))
  ELSE t # <<>> /\ Head(p) \in {"?", Head(t)} /\ Globs(Tail(p), Tail(t))
HoldsPhrase(body, ws, slop) ==
  \E p \in [DOMAIN ws -> DOMAIN body] :
    /\ \A i \in DOMAIN ws : body[p[i]] = ws[i]
    /\ \A i, j \in DOMAIN ws : i < j => p[i] < p[j]
    /\ p[Len(ws)] - p[1] - (Len(ws) - 1) <= slop
Holds(t, body) ==
  CASE t.k = "term" -> t.w \in ToSet(body)
    [] t.k = "fuzzy" -> \E w \in ToSet(body) : Edits(t.w, w) <= t.n
    [] t.k = "wildcard" -> \E w \in ToSet(body) : Globs(t.w, w)
    [] t.k = "phrase" -> HoldsPhrase(body, t.w, t.n)

(* What a query asks of a document, by cutting it at its weakest operator:  *)
(* a truth value, or "bad" for a query that is none.                        *)
Depth(s, i) == Cardinality({j \in 1 .. i : s[j].k = "("})
               - Cardinality({j \in 1 .. i : s[j].k = ")"})
Cuts(s, op) == {i \in DOMAIN s : s[i].k = op /\ Depth(s, i) = 0}
RECURSIVE Asks(_, _)
Asks(s, body) ==
  LET both(op, F(_, _)) ==
        LET i == Max(Cuts(s, op))
            a == Asks(SubSeq(s, 1, i - 1), body)
            b == Asks(SubSeq(s, i + 1, Len(s)), body)
        IN  IF "bad" \in {a, b} THEN "bad" ELSE F(a, b)
      or(a, b) == IF "yes" \in {a, b} THEN "yes" ELSE "no"
      and(a, b) == IF "no" \in {a, b} THEN "no" ELSE "yes"
      bare == IF Last(s).k = "boost" /\ Len(s) > 1 THEN Front(s) ELSE s
  IN  IF s = <<>> THEN "bad"
      ELSE IF Cuts(s, "or") # {} THEN both("or", or)
      ELSE IF Cuts(s, "and") # {} THEN both("and", and)
      ELSE IF s[1].k = "not"
      THEN LET a == Asks(Tail(s), body)
           IN  IF a = "bad" THEN a ELSE IF a = "yes" THEN "no" ELSE "yes"
      ELSE IF Len(bare) = 1
      THEN IF s[1].k \notin Primary THEN "bad"
           ELSE IF Holds(s[1], body) THEN "yes" ELSE "no"
      ELSE IF bare[1].k = "(" /\ Last(bare).k = ")"
              /\ \A i \in 1 .. Len(bare) - 1 : Depth(bare, i) > 0
      THEN Asks(SubSeq(bare, 2, Len(bare) - 1), body)
      ELSE "bad"
(* A search finds exactly the documents the query asks for, in order and    *)
(* once each: parser, lists, tree and tables agree with what they stand for. *)
AnswersQuery ==
  answer # Null =>
    LET asked(d) == IF IsBoolean THEN Asks(toks, Docs[d + 1])
                    ELSE IF toks[1].k = "boost" THEN "bad"
                    ELSE IF \E t \in ToSet(toks) : t.k \in Primary /\ Holds(t, Docs[d + 1])
                    THEN "yes" ELSE "no"
    IN  IF answer.ds = Null THEN asked(0) = "bad"
        ELSE answer.ds = SelectSeq(DocIds, LAMBDA d : asked(d) = "yes")
(* Two words come as close as their closest places.                         *)
DistanceIsLeast ==
  answer # Null =>
    \A d \in ToSet(DocIds), a, b \in {t.w : t \in {u \in ToSet(toks) : u.k = "term"}} :
      a # b => MinTermDistance(d, a, b) =
        LET s == {IF p < q THEN q - p ELSE p - q :
                    p \in ToSet(PositionsIn(a, d)), q \in ToSet(PositionsIn(b, d))}
        IN  IF s = {} THEN -1 ELSE Min(s)
(* Suggestions are known words near those asked after, none nearer left out. *)
SuggestsNearest ==
  answer # Null =>
    LET dist(w) == Min({9} \cup {Edits(m, w) : m \in Missing})
        near == {w \in ToSet(Vocab) : dist(w) <= 2}
    IN  /\ ToSet(answer.near) \subseteq near
        /\ Len(answer.near) < 5 => ToSet(answer.near) = near
        /\ \A w \in near \ ToSet(answer.near), v \in ToSet(answer.near) : dist(v) <= dist(w)
================================================================================
