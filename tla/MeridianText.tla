------------------------------ MODULE MeridianText ------------------------------
(***************************************************************************)
(* What Meridian reads of text: the words of a document and their places,    *)
(* the tokens of a query, and the snippet with its highlights.  Offsets in   *)
(* the engine are bytes of UTF-8, in the page units of UTF-16.               *)
(*                                                                         *)
(* A character is itself or stands for its kind: "e2" takes two bytes, "cjk"   *)
(* is CJK, "smile" is no letter and takes four bytes and two units.  Stemming    *)
(* is left out.                                                              *)
(***************************************************************************)
EXTENDS Integers, Sequences, FiniteSets, SequencesExt

CONSTANTS Uses,        \* what may be typed: chars or tokens, how many, the words asked after
          SnippetMin,  \* 40 in the code
          SnippetLen   \* 220 in the page
VARIABLES made, text, seen

vars == <<made, text, seen>>

Digits == {"0", "1", "2", "9"}
Others == {" ", "'", "*", "?", "~", "^", ".", ":", "(", ")", "\"", "smile", "dots"}
Space == " "
Quote == "\""
isCjk(c) == c = "cjk"
isAlnum(c) == c \notin Others
Lower(c) == IF c = "A" THEN "a" ELSE c
utf8Len(c) == CASE c = "e2" -> 2 [] c \in {"cjk", "dots"} -> 3 [] c = "smile" -> 4 [] OTHER -> 1
Lowered(cs) == [i \in 1..Len(cs) |-> Lower(cs[i])]
At(cs, i) == IF i \in 1..Len(cs) THEN cs[i] ELSE "end"
(* An apostrophe belongs to a word when a letter follows.                   *)
Inside(cs, i) == cs[i] = "'" /\ i < Len(cs) /\ isAlnum(cs[i + 1])
(* Where the run of characters that began at i ends.                         *)
RECURSIVE RunEnd(_, _, _)
RunEnd(cs, i, kind) == IF At(cs, i) \in kind THEN RunEnd(cs, i + 1, kind) ELSE i

----------------------------------------------------------------------------
(* tokenize: the words of a text, in lower case, each at its place; a CJK    *)
(* run counts by character, alone and in pairs.                              *)
segmentCjk(run, pos) ==
  FlattenSeq([i \in 1..Len(run) |->
    <<[term |-> <<run[i]>>, position |-> pos + i - 1]>>
    \o (IF i < Len(run) THEN <<[term |-> SubSeq(run, i, i + 1), position |-> pos + i - 1]>>
        ELSE <<>>)])
Flushed(word, pos) == IF word = <<>> THEN <<>> ELSE <<[term |-> word, position |-> pos]>>
RECURSIVE TokensFrom(_, _, _, _)
TokensFrom(cs, i, word, pos) ==
  LET done == Flushed(word, pos)
      next == pos + Len(done)
      j == RunEnd(cs, i, {"cjk"})
  IN  IF i > Len(cs) THEN done
      ELSE IF isCjk(cs[i])
      THEN done \o segmentCjk(SubSeq(cs, i, j - 1), next) \o TokensFrom(cs, j, <<>>, next + j - i)
      ELSE IF isAlnum(cs[i]) \/ (word # <<>> /\ Inside(cs, i))
      THEN TokensFrom(cs, i + 1, Append(word, Lower(cs[i])), pos)
      ELSE done \o TokensFrom(cs, i + 1, <<>>, next)
tokenize(cs) == TokensFrom(cs, 1, <<>>, 0)
Terms(tokens) == [i \in 1..Len(tokens) |-> tokens[i].term]

----------------------------------------------------------------------------
(* lex: the tokens of a query.  What cannot be read is Unread.                  *)
Unread == [k |-> "bad", w |-> <<>>, n |-> 0, next |-> 0]
Token(k, w, n, next) == [k |-> k, w |-> w, n |-> n, next |-> next]
Value(cs) ==
  LET upTo[i \in 0..Len(cs)] ==
        IF i = 0 THEN 0
        ELSE 10 * upTo[i - 1] + (CASE cs[i] = "0" -> 0 [] cs[i] = "1" -> 1 [] cs[i] = "2" -> 2
                                   [] OTHER -> 9)
  IN  upTo[Len(cs)]

RECURSIVE WordFrom(_, _, _)
WordFrom(cs, i, word) ==
  IF i > Len(cs) THEN [word |-> word, next |-> i]
  ELSE IF isAlnum(cs[i]) \/ cs[i] \in {"*", "?"} THEN WordFrom(cs, i + 1, Append(word, Lower(cs[i])))
  ELSE IF cs[i] = "'" /\ word # <<>>
  THEN WordFrom(cs, i + 1, IF Inside(cs, i) THEN Append(word, "'") ELSE word)
  ELSE [word |-> word, next |-> i]
(* A word, a wildcard, or a fuzzy word with its distance; "none" when there  *)
(* is no word.  A wildcard may be fuzzy: then it counts as fuzzy.            *)
readWord(cs, i) ==
  LET r == WordFrom(cs, i, <<>>)
      stop == RunEnd(cs, r.next + 1, Digits)
      digits == SubSeq(cs, r.next + 1, stop - 1)
      d == IF digits = <<>> THEN 1 ELSE Value(digits)
      wild == \E c \in ToSet(r.word) : c \in {"*", "?"}
  IN  IF r.word = <<>> THEN Token("none", <<>>, 0, i)
      ELSE IF At(cs, r.next) = "~"
      THEN IF d \in {1, 2} THEN Token(IF wild THEN "fuzzywild" ELSE "fuzzy", r.word, d, stop) ELSE Unread
      ELSE Token(IF wild THEN "wildcard" ELSE "term", r.word, 0, r.next)

Title == <<"t", "i", "t", "l", "e">>
Keyword(w) ==
  CASE w = <<"a", "n", "d">> -> "and" [] w = <<"o", "r">> -> "or" [] w = <<"n", "o", "t">> -> "not"
    [] OTHER -> "term"
readFieldInner(cs, i) ==
  LET r == readWord(cs, RunEnd(cs, i, {Space}))
  IN  IF At(cs, RunEnd(cs, i, {Space})) = Quote \/ r.k \in {"none", "fuzzywild", "bad"} THEN Unread
      ELSE [r EXCEPT !.k = "title:" \o @]

(* A phrase goes on to the next quote; its slop is a digit, or one when only *)
(* a space or the end follows the tilde.                                     *)
readPhrase(cs, i) ==
  LET closes == {j \in i..Len(cs) : cs[j] = Quote}
      close == CHOOSE j \in closes : \A l \in closes : j <= l
      words == Terms(tokenize(SubSeq(cs, i, close - 1)))
      stop == RunEnd(cs, close + 2, Digits)
      digits == SubSeq(cs, close + 2, stop - 1)
  IN  IF closes = {} THEN Unread
      ELSE IF words = <<>> THEN Unread
      ELSE IF At(cs, close + 1) # "~" THEN Token("phrase", words, 0, close + 1)
      ELSE IF digits = <<>>
      THEN IF At(cs, close + 2) \in {Space, "end"} THEN Token("phrase", words, 1, close + 2) ELSE Unread
      ELSE IF Value(digits) > 9 THEN Unread
      ELSE Token("phrase", words, Value(digits), stop)

(* parseFloat reads up to a second point; the value must be above zero.      *)
readBoost(cs, i) ==
  LET stop == RunEnd(cs, i + 1, Digits \cup {"."})
      Points(j) == Cardinality({l \in (i + 1)..j : cs[l] = "."})
  IN  IF \E j \in (i + 1)..(stop - 1) : cs[j] \in Digits \ {"0"} /\ Points(j) < 2
      THEN Token("boost", <<>>, 0, stop)
      ELSE Unread

(* One token; title: goes with what follows it.                              *)
Fielded(cs, r) ==
  IF r.k = "term" /\ r.w = Title /\ At(cs, r.next) = ":" THEN readFieldInner(cs, r.next + 1)
  ELSE IF r.k = "fuzzywild" THEN [r EXCEPT !.k = "fuzzy"]
  ELSE IF r.k = "term" THEN [r EXCEPT !.k = Keyword(r.w)]
  ELSE r
TokenAt(cs, i) ==
  CASE cs[i] \in {"(", ")"} -> Token(cs[i], <<>>, 0, i + 1)
    [] cs[i] = Quote -> readPhrase(cs, i + 1)
    [] cs[i] = "^" -> readBoost(cs, i)
    [] OTHER -> Fielded(cs, readWord(cs, i))
RECURSIVE LexFrom(_, _), LexAfter(_, _, _)
LexFrom(cs, i) == IF i > Len(cs) THEN <<>> ELSE LexAfter(cs, i, TokenAt(cs, i))
LexAfter(cs, i, t) ==
  CASE t.k = "none" -> LexFrom(cs, i + 1)
    [] t.k = "bad" -> <<Unread>>
    [] OTHER -> <<t>> \o LexFrom(cs, t.next)
lex(cs) == LexFrom(cs, 1)

----------------------------------------------------------------------------
(* Snippets.                                                                 *)

(* The byte at which each character begins; then the length of the text.     *)
charByteOffsets(cs) ==
  LET off[i \in 1..(Len(cs) + 1)] == IF i = 1 THEN 0 ELSE off[i - 1] + utf8Len(cs[i - 1])
  IN  <<>> \o off
utf8LenTotal(cs) == charByteOffsets(cs)[Len(cs) + 1]
(* The first character that begins at a byte or after it.                    *)
CharAt(cs, byte) ==
  LET off == charByteOffsets(cs)
      from == {i \in 1..Len(cs) : off[i] >= byte}
  IN  IF from = {} THEN Len(cs) + 1 ELSE CHOOSE i \in from : \A j \in from : i <= j
byteSlice(cs, s, e) == SubSeq(cs, CharAt(cs, s), CharAt(cs, e) - 1)

(* The words of a text by their bytes.                                       *)
wordSpans(cs) ==
  LET off == charByteOffsets(cs)
      in[i \in 0..(Len(cs) + 1)] ==
        i \in 1..Len(cs) /\ (isAlnum(cs[i]) \/ (in[i - 1] /\ Inside(cs, i)))
      starts == SelectSeq([i \in 1..Len(cs) |-> i], LAMBDA i : in[i] /\ ~in[i - 1])
      End(i) == CHOOSE j \in i..Len(cs) : ~in[j + 1] /\ \A l \in i..j : in[l]
  IN  [k \in 1..Len(starts) |->
         [term |-> Lowered(SubSeq(cs, starts[k], End(starts[k]))),
          start |-> off[starts[k]], end |-> off[End(starts[k]) + 1]]]

(* The start of the word a byte is in; any apostrophe counts as inside.      *)
wordStartOf(cs, byte) ==
  LET off == charByteOffsets(cs)
      scan[i \in 0..Len(cs)] ==
        IF i = 0 THEN [sep |-> 0, in |-> FALSE]
        ELSE IF off[i] >= byte THEN scan[i - 1]
        ELSE IF isAlnum(cs[i]) \/ (cs[i] = "'" /\ scan[i - 1].in)
        THEN [scan[i - 1] EXCEPT !.in = TRUE]
        ELSE [sep |-> off[i + 1], in |-> FALSE]
  IN  scan[Len(cs)].sep

(* The last character boundary at the end or before it; as snapEnd, a bug.    *)
SnapToChar(cs, start, end) ==
  LET off == charByteOffsets(cs)
      bounds == {off[i] : i \in 1..(Len(cs) + 1)}
  IN  CHOOSE b \in bounds : b <= end /\ \A c \in bounds : c <= end => c <= b
(* An end inside a word goes back to where the word starts.                  *)
WordStart(cs, start, bound, at) ==
  IF isAlnum(cs[at - 1]) /\ isAlnum(cs[at]) /\ wordStartOf(cs, bound) >= start
  THEN wordStartOf(cs, bound) ELSE bound
Snapped(cs, start, bound) ==
  IF bound <= start THEN utf8LenTotal(cs) ELSE WordStart(cs, start, bound, CharAt(cs, bound))
snapEnd(cs, start, end) ==
  IF end >= utf8LenTotal(cs) THEN utf8LenTotal(cs)
  ELSE Snapped(cs, start, SnapToChar(cs, start, end))

highlightIn(cs, start, end, terms) ==
  SelectSeq(wordSpans(cs), LAMBDA w : w.start >= start /\ w.end <= end /\ w.term \in terms)

(* The window that begins at a match and shows most of the terms.            *)
Ending(cs, terms, start, end) ==
  [start |-> start, end |-> end, hl |-> highlightIn(cs, start, end, terms)]
WindowFrom(cs, terms, len, start) == Ending(cs, terms, start, snapEnd(cs, start, start + len))
Distinct(window) == Cardinality({window.hl[k].term : k \in 1..Len(window.hl)})
FirstBest(windows) ==
  windows[CHOOSE i \in 1..Len(windows) :
            \A j \in 1..Len(windows) : LET more == Distinct(windows[j]) - Distinct(windows[i])
                                       IN  more < 0 \/ (more = 0 /\ i <= j)]
Ellipsis(mark) == IF mark THEN <<"dots">> ELSE <<>>
Shown(cs, window, ellipsis) ==
  [text |-> Ellipsis(ellipsis /\ window.start > 0) \o byteSlice(cs, window.start, window.end)
            \o Ellipsis(ellipsis /\ window.end < utf8LenTotal(cs)),
   start |-> window.start, end |-> window.end,
   highlights |-> [k \in 1..Len(window.hl) |->
     LET shift == (IF window.start > 0 THEN 3 ELSE 0) - window.start
     IN  <<window.hl[k].start + shift, window.hl[k].end + shift>>]]
SnippetOf(cs, terms, len, matched) ==
  IF matched = <<>> THEN Shown(cs, WindowFrom(cs, terms, len, 0), FALSE)
  ELSE Shown(cs, FirstBest([i \in 1..Len(matched) |-> WindowFrom(cs, terms, len, matched[i].start)]), TRUE)
generateSnippet(cs, terms, maxLen) ==
  SnippetOf(cs, terms, IF maxLen < SnippetMin THEN SnippetMin ELSE maxLen,
            SelectSeq(wordSpans(cs), LAMBDA w : w.term \in terms))

----------------------------------------------------------------------------
(* The page: UTF-16 units, the words to mark in a document, the markup.      *)
Units(cs) == FlattenSeq([i \in 1..Len(cs) |-> IF cs[i] = "smile" THEN <<"smile", "low">> ELSE <<cs[i]>>])
RECURSIVE UnitsUpTo(_, _, _, _)
UnitsUpTo(us, target, i, off) ==
  IF i > Len(us) THEN Len(us)
  ELSE IF off >= target THEN i - 1
  ELSE UnitsUpTo(us, target, i + (IF us[i] = "smile" THEN 2 ELSE 1), off + utf8Len(us[i]))
byteToCharIndex(us, target) == UnitsUpTo(us, target, 1, 0)

RECURSIVE SpansFrom(_, _, _, _, _)
SpansFrom(cs, i, off, word, terms) ==
  LET span == IF Lowered(word.cs) \in terms THEN <<<<word.start, off>>>> ELSE <<>>
      none == [cs |-> <<>>, start |-> 0]
      on == IF word.cs = <<>> THEN [cs |-> <<cs[i]>>, start |-> off]
            ELSE [word EXCEPT !.cs = Append(@, cs[i])]
  IN  IF i > Len(cs) THEN span
      ELSE IF isAlnum(cs[i]) \/ (word.cs # <<>> /\ Inside(cs, i))
      THEN SpansFrom(cs, i + 1, off + utf8Len(cs[i]), on, terms)
      ELSE span \o SpansFrom(cs, i + 1, off + utf8Len(cs[i]), none, terms)
termSpansIn(cs, terms) == SpansFrom(cs, 1, 0, [cs |-> <<>>, start |-> 0], terms)

(* Plain and marked parts in turn, in units.                                 *)
Marked(cs, spans) ==
  LET us == Units(cs)
      Bound(k) == IF k = 0 THEN 0 ELSE byteToCharIndex(us, spans[k][2])
      Part(k) == LET s == byteToCharIndex(us, spans[k][1])
                 IN  <<[mark |-> FALSE, us |-> SubSeq(us, Bound(k - 1) + 1, s)],
                       [mark |-> TRUE, us |-> SubSeq(us, s + 1, Bound(k))]>>
  IN  FlattenSeq([k \in 1..Len(spans) |-> Part(k)])
      \o <<[mark |-> FALSE, us |-> SubSeq(us, Bound(Len(spans)) + 1, Len(us))]>>
renderSnippet(snippet) == Marked(snippet.text, snippet.highlights)

----------------------------------------------------------------------------
(* Characters or whole tokens are typed; then they are read.                 *)
Spelled(t) ==
  CASE t.k \in {"term", "wildcard"} -> t.w
    [] t.k = "fuzzy" -> t.w \o <<"~", ToString(t.n)>>
    [] t.k = "title:term" -> Title \o <<":">> \o t.w
    [] t.k = "title:wildcard" -> Title \o <<":", Space>> \o t.w
    [] t.k = "title:fuzzy" -> Title \o <<":">> \o t.w \o <<"~", ToString(t.n)>>
    [] t.k = "phrase" -> <<Quote>> \o FlattenSeq([i \in 1..Len(t.w) |-> t.w[i] \o <<Space>>])
                         \o <<Quote, "~", ToString(t.n)>>
    [] t.k = "boost" -> <<"^", "2">>
    [] t.k = "and" -> <<"a", "n", "d">> [] t.k = "or" -> <<"o", "r">>
    [] t.k = "not" -> <<"n", "o", "t">>
    [] t.k \in {"(", ")"} -> <<t.k>>
Kinds(tokens) == [i \in 1..Len(tokens) |-> [k |-> tokens[i].k, w |-> tokens[i].w, n |-> tokens[i].n]]

Nothing == [read |-> FALSE]
Init == (\E use \in Uses : made = [use |-> use, tokens |-> <<>>]) /\ text = <<>> /\ seen = Nothing
TypeChar ==
  /\ seen = Nothing /\ Len(text) < made.use.most
  /\ \E c \in made.use.chars : text' = Append(text, c)
  /\ UNCHANGED <<made, seen>>
TypeToken ==
  /\ seen = Nothing /\ Len(made.tokens) < made.use.most
  /\ \E t \in made.use.tokens : /\ made' = [made EXCEPT !.tokens = Append(@, t)]
                                /\ text' = text \o Spelled(t) \o <<Space>>
  /\ UNCHANGED seen
Read ==
  /\ seen = Nothing /\ text # <<>>
  /\ seen' = [read |-> TRUE, tokens |-> Kinds(lex(text)), words |-> tokenize(text),
              snippet |-> generateSnippet(text, made.use.terms, SnippetLen)]
  /\ UNCHANGED <<made, text>>
Next == TypeChar \/ TypeToken \/ Read

----------------------------------------------------------------------------
TypeOK ==
  /\ Len(made.tokens) <= made.use.most
  /\ seen # Nothing => \A i \in 1..Len(seen.words) : seen.words[i].position \in 0..(Len(text) - 1)
(* A query that was written token by token is read token by token; and what  *)
(* is asked in plain words is cut into the words a document with that text   *)
(* has: no word could be found otherwise.  CJK runs aside, which the query   *)
(* splits later, and two apostrophes in a row, of which a query keeps one    *)
(* (meridian.js:718 against :84).                                            *)
Plain == ToSet(text) \cap {"*", "?", "~", "^", "(", ")", "\"", "cjk"} = {}
Doubled == \E i \in 1..(Len(text) - 1) : text[i] = "'" /\ text[i + 1] = "'"
QueriesAreRead ==
  seen # Nothing =>
    /\ made.tokens # <<>> => seen.tokens = made.tokens
    /\ Plain /\ ~Doubled /\ made.tokens = <<>> =>
         [i \in 1..Len(seen.tokens) |-> seen.tokens[i].w] = Terms(seen.words)
(* The markup of a snippet adds and loses no character, and marks words that *)
(* were asked for and those only; a snippet ends within a word only at an    *)
(* apostrophe of it; the page's reading of the words of a document is the    *)
(* engine's (ui.js:77).                                                      *)
SnippetsAreTrue ==
  seen # Nothing /\ made.tokens = <<>> =>
    LET s == seen.snippet
        parts == renderSnippet(s)
        spans == wordSpans(text)
    IN  /\ FlattenSeq([k \in 1..Len(parts) |-> parts[k].us]) = Units(s.text)
        /\ \A k \in 1..Len(parts) : parts[k].mark => Lowered(parts[k].us) \in made.use.terms
        /\ \A k \in 1..Len(spans) :
             s.end \in (spans[k].start + 1)..(spans[k].end - 1) =>
               "'" \in ToSet(spans[k].term)
        /\ termSpansIn(text, made.use.terms) =
             LET asked == SelectSeq(spans, LAMBDA w : w.term \in made.use.terms)
             IN  [k \in 1..Len(asked) |-> <<asked[k].start, asked[k].end>>]
================================================================================
