------------------------------ MODULE MeridianPage ------------------------------
(***************************************************************************)
(* The page around Meridian's engine (archive/meridian/js/ui.js): the query  *)
(* box with its completions, searches and their pages, texts fetched one by  *)
(* one for snippets and for the viewer, and what arrives late.  What the     *)
(* engine answers to each query is a constant; modules Meridian and          *)
(* MeridianText are about the answers.                                       *)
(***************************************************************************)
EXTENDS Integers, Sequences, FiniteSets, SequencesExt

CONSTANTS Queries,   \* box (sequence of words) -> parses, hits (with and without stemming), near
          Terms,     \* the index's words with the number of documents they are in, sorted
          Documents, pageSize, Uses
VARIABLES page, docCache, fetches, made

vars == <<page, docCache, fetches, made>>

Empty == <<>>
Smaller(a, b) == IF a < b THEN a ELSE b
Larger(a, b) == IF a < b THEN b ELSE a

(* The words that begin so, the commonest first, six at most.               *)
suggestPrefix(prefix) ==
  LET found == SelectSeq(Terms, LAMBDA t : prefix # <<>> /\ IsPrefix(prefix, t.word))
      ranked == SortSeq(found, LAMBDA a, b : a.df > b.df)
  IN  [i \in 1..Smaller(6, Len(ranked)) |-> ranked[i].word]
setupSuggestions(p) ==
  [p EXCEPT !.suggest = IF p.box = Empty THEN <<>> ELSE suggestPrefix(Last(p.box)),
            !.typing = FALSE]

----------------------------------------------------------------------------
(* Searching.  A state is the page and the fetches it started.              *)
State == [page |-> page, fetches |-> fetches, cache |-> docCache]

Snippet(k, plan) == [k |-> k, plan |-> plan]
Loading == Snippet("loading", Empty)
Filled(text, plan) == IF text = "text" THEN Snippet("shown", plan) ELSE Snippet("unavailable", Empty)
Hits(p) == LET q == Queries[p.lastPlan] IN IF p.stem THEN q.stemmed ELSE q.hits
PagesOf(hits) == (Len(hits) + pageSize - 1) \div pageSize

(* Texts at hand are filled in at once, the others are asked for.  The       *)
(* completion line stays only when nothing was found.                        *)
renderPage(s) ==
  LET p == s.page
      hits == Hits(p)
      shown == SubSeq(hits, p.number * pageSize + 1, Smaller(Len(hits), (p.number + 1) * pageSize))
      near == Queries[p.lastPlan].near
      asked == SelectSeq(shown, LAMBDA d : s.cache[d] = "none")
  IN  [s EXCEPT
        !.page.pageTotal = PagesOf(hits),
        !.page.status = [k |-> "found", query |-> p.lastQuery, total |-> Len(hits)],
        !.page.line = IF shown = <<>> THEN near ELSE <<>>,
        !.page.results = [i \in 1..Len(shown) |->
          [doc |-> shown[i],
           snippet |-> IF s.cache[shown[i]] = "none" THEN Loading
                       ELSE Filled(s.cache[shown[i]], p.lastPlan)]],
        !.page.pager = [total |-> PagesOf(hits), on |-> p.number],
        !.fetches = @ \o [i \in 1..Len(asked) |->
                            [doc |-> asked[i], use |-> "snippet", plan |-> p.lastPlan]]]

(* A query that does not parse clears the results and leaves plan and pager. *)
(* Before the index is there the search fails after the plan is taken.       *)
runSearch(s) ==
  LET asked == [s EXCEPT !.page.lastQuery = s.page.box, !.page.suggest = <<>>]
      planned == [asked EXCEPT !.page.lastPlan = s.page.box, !.page.number = 0]
  IN  IF s.page.box = Empty THEN s
      ELSE IF ~Queries[s.page.box].parses
      THEN [asked EXCEPT !.page.status = [k |-> "bad", query |-> s.page.box, total |-> 0],
                         !.page.results = <<>>, !.page.line = <<>>]
      ELSE IF s.page.index # "ready" THEN planned ELSE renderPage(planned)

Become(s) == page' = s.page /\ fetches' = s.fetches /\ docCache' = s.cache
Input(offer) ==
  /\ offer \in made.use.offers /\ made.inputs < made.use.most
  /\ made' = [made EXCEPT !.inputs = @ + 1]

Init ==
  /\ page = [index |-> "loading", box |-> Empty, typing |-> FALSE, suggest |-> <<>>, stem |-> FALSE,
             lastQuery |-> Empty, lastPlan |-> Empty, number |-> 0, pageTotal |-> 0,
             results |-> <<>>, line |-> <<>>, status |-> [k |-> "loading", query |-> Empty, total |-> 0],
             pager |-> [total |-> 0, on |-> 0], modal |-> [open |-> FALSE, doc |-> 0, text |-> ""]]
  /\ docCache = [d \in Documents |-> "none"]
  /\ fetches = <<>>
  /\ \E use \in Uses : made = [use |-> use, inputs |-> 0]

(* The index arrives and what stands in the box is searched, or it does not. *)
IndexLoaded ==
  /\ page.index = "loading"
  /\ Become(runSearch([State EXCEPT !.page.index = "ready",
                                    !.page.status = [k |-> "ready", query |-> Empty, total |-> 0]]))
  /\ UNCHANGED made
IndexFailed ==
  /\ page.index = "loading"
  /\ page' = [page EXCEPT !.index = "failed", !.status = [k |-> "failed", query |-> Empty, total |-> 0]]
  /\ UNCHANGED <<docCache, fetches, made>>

(* Every input starts the timer anew; it completes what stands there then.   *)
TypeQuery ==
  /\ Input("type")
  /\ \E box \in DOMAIN Queries \cup {Empty} : page' = [page EXCEPT !.box = box, !.typing = TRUE]
  /\ UNCHANGED <<docCache, fetches>>
TypingStops ==
  /\ page.typing
  /\ page' = IF page.index = "ready" THEN setupSuggestions(page) ELSE [page EXCEPT !.typing = FALSE]
  /\ UNCHANGED <<docCache, fetches, made>>
HideSuggestions ==
  /\ Input("type") /\ page.suggest # <<>> /\ page' = [page EXCEPT !.suggest = <<>>]
  /\ UNCHANGED <<docCache, fetches>>

(* Go, Enter and the examples; a completion takes the last word's place.     *)
Go == Input("search") /\ Become(runSearch(State))
Chip ==
  /\ Input("search")
  /\ \E q \in DOMAIN Queries : Become(runSearch([State EXCEPT !.page.box = q]))
TakeSuggestion ==
  /\ Input("search")
  /\ \E i \in 1..Len(page.suggest) :
       LET kept == IF page.box = Empty THEN Empty ELSE Front(page.box)
           box == Append(kept, page.suggest[i])
       IN  box \in DOMAIN Queries /\ Become(runSearch([State EXCEPT !.page.box = box]))
DidYouMean ==
  /\ Input("search") /\ page.line # <<>>
  /\ Become(runSearch([State EXCEPT !.page.box = page.line[1]]))
(* Scorer, stemming, signals, stopwords: a new search if the box has a query.*)
Toggle == Input("toggle") /\ Become(runSearch([State EXCEPT !.page.stem = ~@]))

(* The pager's numbers and arrows: the last plan, on another page.           *)
PagerButtons(p) == Larger(0, p.pager.on - 2)..(Smaller(p.pager.total, p.pager.on + 3) - 1)
Turned(p, n) ==
  CASE n = -1 -> Larger(0, p.number - 1)
    [] n = -2 -> Smaller(p.pageTotal - 1, p.number + 1)
    [] OTHER -> n
TurnPage ==
  /\ Input("turn") /\ page.pager.total > 1
  /\ \E n \in PagerButtons(page)
             \cup (IF page.pager.on > 2 THEN {-1} ELSE {})
             \cup (IF page.pager.on + 3 < page.pager.total THEN {-2} ELSE {}) :
       Become(renderPage([State EXCEPT !.page.number = Turned(page, n)]))

(* The viewer opens when its text is there.                                  *)
Opened(p, doc, text) == [p EXCEPT !.modal = [open |-> TRUE, doc |-> doc, text |-> text]]
OpenDoc ==
  /\ Input("open")
  /\ \E i \in 1..Len(page.results) :
       LET doc == page.results[i].doc
       IN  IF docCache[doc] = "none"
           THEN /\ fetches' = Append(fetches, [doc |-> doc, use |-> "view", plan |-> page.lastPlan])
                /\ UNCHANGED page
           ELSE /\ page' = Opened(page, doc, docCache[doc])
                /\ UNCHANGED fetches
  /\ UNCHANGED docCache
CloseModal ==
  /\ Input("open") /\ page.modal.open /\ page' = [page EXCEPT !.modal.open = FALSE]
  /\ UNCHANGED <<docCache, fetches>>

(* A text arrives, or not; a failure is kept like a text, and the latest     *)
(* arrival counts.  It goes to the result that stands for its document now.  *)
Arrive ==
  \E i \in 1..Len(fetches), text \in {"text", "failed"} :
    LET f == fetches[i]
    IN  /\ text = "failed" => made.use.failures
        /\ fetches' = RemoveAt(fetches, i)
        /\ docCache' = [docCache EXCEPT ![f.doc] = text]
        /\ page' = IF f.use = "view" THEN Opened(page, f.doc, text)
                   ELSE [page EXCEPT !.results = [j \in 1..Len(@) |->
                          IF @[j].doc = f.doc THEN [@[j] EXCEPT !.snippet = Filled(text, f.plan)]
                          ELSE @[j]]]
        /\ UNCHANGED made

Next ==
  \/ IndexLoaded \/ IndexFailed \/ TypeQuery \/ TypingStops \/ HideSuggestions \/ Go \/ Chip
  \/ TakeSuggestion \/ DidYouMean \/ Toggle \/ TurnPage \/ OpenDoc \/ CloseModal \/ Arrive

----------------------------------------------------------------------------
TypeOK ==
  /\ page.box \in DOMAIN Queries \cup {Empty} /\ page.lastPlan \in DOMAIN Queries \cup {Empty}
  /\ page.number \in Nat /\ docCache \in [Documents -> {"none", "text", "failed"}]
  /\ \A i \in 1..Len(fetches) : fetches[i].doc \in Documents
(* Once nothing is on its way every result shows its text or says that there *)
(* is none, however searches and arrivals crossed; and a result still loads  *)
(* only while its own text is on its way (ui.js renderPage, fetchDoc).       *)
ResultsAreFilled ==
  \A i \in 1..Len(page.results) :
    page.results[i].snippet = Loading =>
      \E j \in 1..Len(fetches) : fetches[j].doc = page.results[i].doc /\ fetches[j].use = "snippet"
(* The results are a page of the answer to the last query that parsed, and   *)
(* the pager offers pages of that answer: without a change of the options,   *)
(* which waits for a query in the box, no click leads past its end.          *)
PagesAreInRange ==
  page.status.k = "found" /\ "toggle" \notin made.use.offers =>
    /\ page.number <= Larger(0, page.pageTotal - 1)
    /\ page.pager = [total |-> page.pageTotal, on |-> page.number]
    /\ {page.results[i].doc : i \in 1..Len(page.results)} \subseteq ToSet(Hits(page))
    /\ (page.results = <<>>) <=> (page.status.total = 0)
================================================================================
