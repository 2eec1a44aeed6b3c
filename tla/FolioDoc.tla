------------------------------- MODULE FolioDoc -------------------------------
(***************************************************************************)
(* Folio (archive/folio): what its tools make of a document.  A document is *)
(* its pages, the fields of its form and its outline.  A page is an id, a   *)
(* rotation, a crop box and a media box, its annotations and what has been  *)
(* drawn on it.  Coordinates, text, colours and fonts are left out.         *)
(*                                                                          *)
(* Tools that load and save keep all of a document; those that copy its     *)
(* pages into a new one keep the pages and no form or outline.              *)
(***************************************************************************)
EXTENDS Integers, Sequences, SequencesExt, FiniteSets

Page(id) ==
  [id |-> id, rot |-> 0, crop |-> "full", media |-> "full", wide |-> FALSE,
   marks |-> <<>>, drawn |-> <<>>]
Blank == 0
NewDoc(pages) == [pages |-> pages, fields |-> <<>>, outline |-> <<>>]
DocOf(ids) == NewDoc([i \in DOMAIN ids |-> Page(ids[i])])
Ids(doc) == <<>> \o [i \in DOMAIN doc.pages |-> doc.pages[i].id]

(* Pages are counted from 0 in an order of pages.                           *)
Upto(n) == <<>> \o [i \in 1..n |-> i - 1]
(* copyPages and save, which puts a page into a document without any.       *)
KeepPages(doc, order) ==
  NewDoc(IF order = <<>> THEN <<Page(Blank)>>
         ELSE <<>> \o [i \in DOMAIN order |-> doc.pages[order[i] + 1]])

----------------------------------------------------------------------------
(* The planners.                                                            *)
PlanDelete(n, remove) == SelectSeq(Upto(n), LAMBDA i : i \notin remove)
PlanOddEven(n, which) == SelectSeq(Upto(n), LAMBDA i : i % 2 = IF which = "odd" THEN 0 ELSE 1)
PlanReverse(n) == Reverse(Upto(n))
PlanChunks(n, size) ==
  <<>> \o [k \in 1..((n + size - 1) \div size) |->
            SelectSeq(Upto(n), LAMBDA i : i \div size = k - 1)]
(* A page is taken out of the row and put in again.                         *)
Lifted(order, from) == RemoveAt(order, from + 1)
GridDropOrder(n, from, to) ==
  InsertAt(Lifted(Upto(n), from), (IF to > n - 1 THEN n - 1 ELSE to) + 1, from)
(* The pages from each bookmark, in the order of pages, up to the next.     *)
SplitByBookmarks(n, starts) ==
  LET row == SortSeq(starts, <)
  IN  <<>> \o [i \in DOMAIN row |->
        SelectSeq(Upto(n), LAMBDA p : p >= row[i] /\ (i < Len(row) => p < row[i + 1]))]
(* Sides of sheets to be folded, a pair to a side, front and back in turn;  *)
(* the outermost first.                                                     *)
BookletOrder(n) ==
  LET all == ((n + 3) \div 4) * 4
      Or(p) == IF p < n THEN p ELSE -1
  IN  <<>> \o [k \in 1..(all \div 2) |->
        IF k % 2 = 1 THEN <<Or(all - k), Or(k - 1)>> ELSE <<Or(k - 1), Or(all - k)>>]
NupCols(n) == IF n <= 1 THEN 1 ELSE IF n <= 4 THEN 2 ELSE IF n <= 9 THEN 3 ELSE 4
NupRows(n) == (n + NupCols(n) - 1) \div NupCols(n)

----------------------------------------------------------------------------
(* Pages in another order, fewer or more of them.                           *)
DeletePages(doc, remove) == KeepPages(doc, PlanDelete(Len(doc.pages), remove))
OddEven(doc, which) == KeepPages(doc, PlanOddEven(Len(doc.pages), which))
ReversePages(doc) == KeepPages(doc, PlanReverse(Len(doc.pages)))
MovePage(doc, from, to) == KeepPages(doc, GridDropOrder(Len(doc.pages), from, to))
DuplicatePage(doc, p) ==
  KeepPages(doc, InsertAt(Upto(Len(doc.pages)), p + 2, p))
MergeFiles(doc, other) == NewDoc(doc.pages \o other.pages)
InsertPdf(doc, other, at) ==
  NewDoc(SubSeq(doc.pages, 1, at) \o other.pages \o SubSeq(doc.pages, at + 1, Len(doc.pages)))
(* A field knows its page, not the number of it.                            *)
Renumbered(fields, at) ==
  <<>> \o [i \in DOMAIN fields |->
    IF fields[i].page > at THEN [fields[i] EXCEPT !.page = @ + 1] ELSE fields[i]]
InsertPage(doc, at, page) ==
  [doc EXCEPT !.pages = InsertAt(@, at + 1, page), !.fields = Renumbered(@, at)]
AddBlankPage(doc, at) == InsertPage(doc, at, Page(Blank))
(* Pages drawn onto sheets, the content of each by its page.                *)
Sheet(ids) == [Page(Blank) EXCEPT !.drawn = ids]
NupPdf(doc, n) ==
  LET ids == Ids(doc)
  IN  NewDoc(<<>> \o [k \in 1..((Len(ids) + n - 1) \div n) |->
        Sheet(SubSeq(ids, (k - 1) * n + 1, IF k * n > Len(ids) THEN Len(ids) ELSE k * n))])
BookletPdf(doc) ==
  LET ids == Ids(doc)
      At(p) == IF p < 0 THEN Blank ELSE ids[p + 1]
      order == BookletOrder(Len(ids))
  IN  NewDoc(<<>> \o [k \in DOMAIN order |->
        [Sheet(<<At(order[k][1]), At(order[k][2])>>) EXCEPT !.wide = TRUE]])

(* Every page, or one, changed in place.                                    *)
EachPage(doc, F(_)) == [doc EXCEPT !.pages = <<>> \o [i \in DOMAIN @ |-> F(@[i])]]
RotatePage(doc, p, deg) == [doc EXCEPT !.pages[p + 1].rot = (@ + deg) % 360]
RotateAll(doc, deg) == EachPage(doc, LAMBDA pg : [pg EXCEPT !.rot = (@ + deg) % 360])
CropPages(doc) == EachPage(doc, LAMBDA pg : [pg EXCEPT !.crop = "part"])
BurnCrop(doc) == EachPage(doc, LAMBDA pg : [pg EXCEPT !.media = pg.crop])
ResizePages(doc) == EachPage(doc, LAMBDA pg : [pg EXCEPT !.media = "full", !.wide = FALSE])
(* Turned by its size alone, whatever way it has been turned before.        *)
OrientPages(doc, wide) ==
  EachPage(doc, LAMBDA pg : IF pg.wide = wide THEN pg ELSE [pg EXCEPT !.rot = (@ + 90) % 360])
DrawOnAll(doc, what) == EachPage(doc, LAMBDA pg : [pg EXCEPT !.drawn = Append(@, what)])
DrawOn(doc, p, what) == [doc EXCEPT !.pages[p + 1].drawn = Append(@, what)]
OverlayPdf(doc, other) ==
  [doc EXCEPT !.pages = <<>> \o [i \in DOMAIN @ |->
     [@[i] EXCEPT !.drawn = Append(@, other.pages[((i - 1) % Len(other.pages)) + 1].id)]]]
CompareDocs(doc) == [doc EXCEPT !.pages = Append(@, Page(Blank))]

----------------------------------------------------------------------------
(* Annotations, form and outline.                                           *)
Bakable == {"Highlight", "Square", "Ink"}
AddMark(doc, p, subtype) == [doc EXCEPT !.pages[p + 1].marks = Append(@, subtype)]
IsBakable(mark) == mark \in Bakable
(* From the last annotation to the first; those that cannot be drawn stay.  *)
BakePage(pg) ==
  [pg EXCEPT !.drawn = @ \o Reverse(SelectSeq(pg.marks, IsBakable)),
             !.marks = SelectSeq(@, LAMBDA m : ~IsBakable(m))]
BakeAnnotations(doc) == EachPage(doc, BakePage)
DeleteAnnotations(doc, subtypes) ==
  EachPage(doc, LAMBDA pg : [pg EXCEPT !.marks = SelectSeq(@, LAMBDA m : m \notin subtypes)])

FieldNames(doc) == {doc.fields[i].name : i \in DOMAIN doc.fields}
CreateField(doc, name, p) ==
  [doc EXCEPT !.fields = Append(@, [name |-> name, page |-> p, value |-> ""]),
              !.pages[p].marks = Append(@, "Widget")]
FillForm(doc, name, value) ==
  [doc EXCEPT !.fields = <<>> \o [i \in DOMAIN @ |->
     IF @[i].name = name THEN [@[i] EXCEPT !.value = value] ELSE @[i]]]
FieldsOn(doc, p) == SelectSeq(doc.fields, LAMBDA f : f.page = p)
FlattenForm(doc) ==
  [doc EXCEPT !.fields = <<>>,
     !.pages = <<>> \o [p \in DOMAIN @ |->
       [@[p] EXCEPT !.drawn = @ \o [i \in DOMAIN FieldsOn(doc, p) |-> "Widget"],
                    !.marks = SelectSeq(@, LAMBDA m : m # "Widget")]]]
FlattenAll(doc) == EachPage(FlattenForm(doc), LAMBDA pg : [pg EXCEPT !.marks = <<>>])

(* Rows become one flat list of entries that point to pages, not numbers.   *)
SetBookmarks(doc, rows) ==
  [doc EXCEPT !.outline = <<>> \o [i \in DOMAIN rows |-> doc.pages[rows[i].page].id]]
(* The contents go in front and say the pages' numbers after that.          *)
AddTocPage(doc, rows) ==
  LET toc == [Page(Blank) EXCEPT !.drawn = <<>> \o [i \in DOMAIN rows |-> rows[i].page + 1]]
  IN  InsertPage(SetBookmarks(doc, rows), 0, toc)
================================================================================
