------------------------------- MODULE FolioShell -------------------------------
(***************************************************************************)
(* Folio's shell (archive/folio/src/ui): one document at a time, opened,    *)
(* shown, changed by tools and brought back by undo.  Opening goes through  *)
(* awaits (the parser, the page's canvas, the grid's thumbnails) and a tool *)
(* through its engine; keys that turn pages, the crop box and the bookmark  *)
(* tree are served in between.  A second document operation waits for the   *)
(* first here, as its user does: what two at once do is in the README.      *)
(***************************************************************************)
EXTENDS FolioDoc, TLC

CONSTANTS
  Null,
  Bad,        \* bytes that do not parse
  Other,      \* the second document
  UndoMax,    \* the snapshots refreshAfterOp keeps
  ChainMax,   \* the cap of the op store
  GridMax,    \* GRID_CAP
  TreeMax,    \* bound on the bookmarks
  Uses        \* the sessions looked at: [docs, offers, most] gives the documents one may
              \* begin with, the groups of inputs there are, how many are made at most

VARIABLES
  work,    \* the file, the chain of ops, the snapshots for undo and redo
  view,    \* the viewer: its document, page, zoom, what is on the canvas
  ui,      \* the page around it
  tree,    \* the bookmark tree of the session
  job,     \* the document operation that is under way
  inputs   \* what the user did, and may do

folioVars == <<work, view, ui, tree, job, inputs>>

----------------------------------------------------------------------------
(* The bookmark tree.  A path gives indices from the root, from 1.          *)
Node(title, page) == [title |-> title, page |-> page, kids |-> <<>>]
RECURSIVE TreeToRows(_, _)
TreeToRows(nodes, depth) ==
  FoldLeft(LAMBDA acc, n : acc \o <<[title |-> n.title, page |-> n.page, depth |-> depth]>>
                               \o TreeToRows(n.kids, depth + 1), <<>>, nodes)
RECURSIVE At(_, _)
At(nodes, path) == IF Len(path) = 1 THEN nodes[path[1]] ELSE At(nodes[path[1]].kids, Tail(path))
RECURSIVE WithList(_, _, _)
(* The list of siblings at a path, replaced.                                *)
WithList(nodes, path, list) ==
  IF path = <<>> THEN list
  ELSE [nodes EXCEPT ![path[1]].kids = WithList(@, Tail(path), list)]
List(nodes, path) == IF path = <<>> THEN nodes ELSE At(nodes, path).kids
RECURSIVE Paths(_, _)
Paths(nodes, base) ==
  UNION {{Append(base, i)} \cup Paths(nodes[i].kids, Append(base, i)) : i \in DOMAIN nodes}

RECURSIVE Unwound(_, _)
Unwound(stack, depth) ==
  IF Len(stack) > 1 /\ Last(stack).depth >= depth THEN Unwound(Front(stack), depth) ELSE stack
PlaceRow(row, acc) ==
  LET stack == Unwound(acc.stack, row.depth)
      above == Last(stack).path
      list == Append(List(acc.nodes, above), Node(row.title, row.page))
  IN  [nodes |-> WithList(acc.nodes, above, list),
       stack |-> Append(stack, [path |-> Append(above, Len(list)), depth |-> row.depth])]
RowsToTree(rows) ==
  FoldLeft(LAMBDA acc, row : PlaceRow(row, acc),
           [nodes |-> <<>>, stack |-> <<[path |-> <<>>, depth |-> -1]>>], rows).nodes

RemoveNode(nodes, path) == WithList(nodes, Front(path), RemoveAt(List(nodes, Front(path)), Last(path)))
MayMove(nodes, path, dir) == Last(path) + dir \in DOMAIN List(nodes, Front(path))
MoveNode(nodes, path, dir) ==
  WithList(nodes, Front(path),
    LET list == List(nodes, Front(path)) i == Last(path)
    IN  [list EXCEPT ![i] = list[i + dir], ![i + dir] = list[i]])
(* Taken out, and put in as the last child of the one before.               *)
IndentNode(nodes, path) ==
  LET i == Last(path) list == List(nodes, Front(path))
  IN  WithList(nodes, Front(path),
        RemoveAt([list EXCEPT ![i - 1].kids = Append(@, list[i])], i))
(* Taken out, and put in right behind its parent.                           *)
OutdentNode(nodes, path) ==
  LET up == Front(path) rest == RemoveNode(nodes, path)
  IN  WithList(rest, Front(up), InsertAt(List(rest, Front(up)), Last(up) + 1, At(nodes, path)))
(* A row dropped on another of its level and parent.                        *)
DropNode(nodes, path, to) ==
  LET list == List(nodes, Front(path))
  IN  WithList(nodes, Front(path), InsertAt(RemoveAt(list, Last(path)), to, At(nodes, path)))

(* The rows a tool may use: each has a page of the document.                *)
PageCount == IF view.doc = Null THEN 0 ELSE Len(view.doc.pages)
BmRows == TreeToRows(tree, 0)
RowsUsable == BmRows # <<>> /\ \A i \in DOMAIN BmRows : BmRows[i].page \in 1..PageCount

----------------------------------------------------------------------------
(* The tools, by what each makes of a document: t.p and t.q are numbers the *)
(* user gave, t.what a word, t.rows the rows of the tree.                   *)
Op(tool, p, q, what) == [tool |-> tool, p |-> p, q |-> q, what |-> what, rows |-> <<>>]
Result(t, doc) ==
  CASE t.tool = "reverse" -> ReversePages(doc)
    [] t.tool = "delete" -> DeletePages(doc, {t.p})
    [] t.tool = "oddeven" -> OddEven(doc, t.what)
    [] t.tool = "move" -> MovePage(doc, t.p, t.q)
    [] t.tool = "duplicate" -> DuplicatePage(doc, t.p)
    [] t.tool = "merge" -> MergeFiles(doc, Other)
    [] t.tool = "insert" -> InsertPdf(doc, Other, t.p)
    [] t.tool = "blank" -> AddBlankPage(doc, t.p)
    [] t.tool = "nup" -> NupPdf(doc, t.p)
    [] t.tool = "booklet" -> BookletPdf(doc)
    [] t.tool = "overlay" -> OverlayPdf(doc, Other)
    [] t.tool = "compare" -> CompareDocs(doc)
    [] t.tool = "rotate" -> RotatePage(doc, t.p, 90)
    [] t.tool = "rotateAll" -> RotateAll(doc, t.q)
    [] t.tool = "crop" -> CropPages(doc)
    [] t.tool = "burn" -> BurnCrop(doc)
    [] t.tool = "resize" -> ResizePages(doc)
    [] t.tool = "orient" -> OrientPages(doc, t.what = "landscape")
    [] t.tool = "stampAll" -> DrawOnAll(doc, t.what)
    [] t.tool = "stamp" -> DrawOn(doc, t.p, t.what)
    [] t.tool = "mark" -> AddMark(doc, t.p, t.what)
    [] t.tool = "bake" -> BakeAnnotations(doc)
    [] t.tool = "anndel" -> DeleteAnnotations(doc, {t.what})
    [] t.tool = "create" -> CreateField(doc, t.what, t.p + 1)
    [] t.tool = "fill" -> FillForm(doc, "f", t.what)
    [] t.tool = "flatten" -> FlattenForm(doc)
    [] t.tool = "flattenAll" -> FlattenAll(doc)
    [] t.tool = "bookmarks" -> SetBookmarks(doc, t.rows)
    [] t.tool = "toc" -> AddTocPage(doc, t.rows)
    [] t.tool = "resave" -> doc
    [] t.tool = "images" -> DocOf(<<t.p>>)

(* What an engine refuses to do.                                            *)
Accepts(t, doc) ==
  /\ t.tool \in {"delete", "move", "duplicate", "rotate", "stamp", "mark", "create"} =>
       t.p \in 0..Len(doc.pages) - 1
  /\ t.tool \in {"insert", "blank"} => t.p \in 0..Len(doc.pages)
  /\ t.tool = "create" => t.what \notin FieldNames(doc)
  /\ t.tool = "fill" => "f" \in FieldNames(doc)

----------------------------------------------------------------------------
(* What is shown.                                                           *)
Cards(doc) == Upto(IF Len(doc.pages) > GridMax THEN GridMax ELSE Len(doc.pages))
ChainView(w) == [i \in DOMAIN w.chain |-> w.chain[i].tool]
TreeView(file, nodes, pages) == IF file = Null THEN Null ELSE [rows |-> nodes, max |-> pages]
Fields(file) == IF file \in {Null, Bad} THEN <<>> ELSE file.fields
FormList(file) == IF file = Null THEN Null ELSE Fields(file)
FormLayer(file, page) == {f \in Range(Fields(file)) : f.page = page}
InRange(p, n) == IF p < 1 THEN 1 ELSE IF p > n THEN n ELSE p
RenderBmTrees(u, file, nodes, pages) == [u EXCEPT !.trees = TreeView(file, nodes, pages)]
RenderFormOverlay(u, file) ==
  [u EXCEPT !.list = FormList(file), !.layer = FormLayer(file, u.selected)]
ClearOverlay(u) == [u EXCEPT !.crop = Null]
Canvas(v) == [doc |-> v.doc, page |-> v.page, zoom |-> v.zoom]
(* renderPage and what goes with it.                                        *)
Painted(v) == [v EXCEPT !.canvas = Canvas(v)]

Init ==
  /\ work = [file |-> Null, chain |-> <<>>, undone |-> <<>>, undo |-> <<>>, redo |-> <<>>]
  /\ view = [doc |-> Null, page |-> 1, zoom |-> 6, canvas |-> Null]
  /\ ui = [selected |-> 1, info |-> Null, cards |-> <<>>, chain |-> <<>>, list |-> Null,
           layer |-> {}, trees |-> Null, mode |-> Null, crop |-> Null, parts |-> Null]
  /\ tree = <<>>
  /\ \E use \in Uses : \E doc \in use.docs :
       /\ inputs = [made |-> 0, offers |-> use.offers, most |-> use.most]
       /\ job = [stage |-> "open", bytes |-> doc, keep |-> FALSE, rest |-> <<>>]

Idle == job = Null
Act == inputs.made < inputs.most /\ inputs' = [inputs EXCEPT !.made = @ + 1]
Offers == inputs.offers
(* setFile, up to its first await; what is to be done after it comes along. *)
SetFile(w, bytes, keep, rest) ==
  /\ work' = [w EXCEPT !.file = bytes]
  /\ job' = [stage |-> "open", bytes |-> bytes, keep |-> keep, rest |-> rest]
Engine(op, keep, rest) ==
  job' = [stage |-> "engine", op |-> op, keep |-> keep, rest |-> rest]
(* What follows an operation: the next one asked for with it.               *)
NextJob(rest) ==
  IF rest = <<>> THEN job' = Null
  ELSE job' = [Head(rest) EXCEPT !.rest = Tail(rest)]

(* openDocument: a new document shows its first page, unless it is none.    *)
Opened ==
  /\ ~Idle /\ job.stage = "open"
  /\ IF job.bytes = Bad
     THEN /\ work' = [work EXCEPT !.file = Null]
          /\ ui' = [ui EXCEPT !.chain = ChainView(work)]
          /\ NextJob(job.rest) /\ UNCHANGED view
     ELSE /\ work' = [work EXCEPT !.file = job.bytes]
          /\ view' = [view EXCEPT !.doc = job.bytes, !.page = 1]
          /\ job' = [job EXCEPT !.stage = "show"] /\ UNCHANGED ui
  /\ UNCHANGED <<tree, inputs>>
(* The selected page, brought into range, goes to the canvas.               *)
Show ==
  /\ ~Idle /\ job.stage = "show"
  /\ LET page == IF job.keep THEN InRange(ui.selected, PageCount) ELSE 1
     IN  /\ ui' = [ui EXCEPT !.selected = page, !.info = <<page, PageCount>>]
         /\ view' = [view EXCEPT !.page = page]
  /\ job' = [job EXCEPT !.stage = "paint"]
  /\ UNCHANGED <<work, tree, inputs>>
(* New pixels: what was laid over the old ones goes.                        *)
Paint ==
  /\ ~Idle /\ job.stage = "paint"
  /\ view' = Painted(view) /\ ui' = [ClearOverlay(ui) EXCEPT !.cards = <<>>]
  /\ job' = [job EXCEPT !.stage = "grid"]
  /\ UNCHANGED <<work, tree, inputs>>
Grid ==
  /\ ~Idle /\ job.stage = "grid"
  /\ ui' = LET u == [ui EXCEPT !.cards = Cards(view.doc), !.chain = ChainView(work)]
           IN  RenderFormOverlay(RenderBmTrees(u, work.file, tree, PageCount), work.file)
  /\ NextJob(job.rest)
  /\ UNCHANGED <<work, view, tree, inputs>>

----------------------------------------------------------------------------
(* refreshAfterOp: the bytes there were are kept, the op joins the chain.   *)
LastN(s, n) == SubSeq(s, IF Len(s) > n THEN Len(s) - n + 1 ELSE 1, Len(s))
Snapshot(tool, file) == IF file = Null THEN <<>> ELSE <<[tool |-> tool, bytes |-> file]>>
ApplyOp(w, op) ==
  [w EXCEPT !.chain = LastN(Append(@, op), ChainMax), !.undone = <<>>, !.redo = <<>>,
            !.undo = LastN(@ \o Snapshot(op.tool, w.file), UndoMax)]
(* Rotating the page of the grid, and placing on the canvas, ask for the    *)
(* page only after an await.                                                *)
Late(op) ==
  IF op.what = "selected" THEN [op EXCEPT !.p = ui.selected - 1]
  ELSE IF op.what \in {"Square", "Ink"} THEN [op EXCEPT !.p = view.page - 1]
  ELSE op
(* Some choose the page to be shown.                                        *)
Selection(op) ==
  CASE op.tool = "move" -> InRange(op.q + 1, PageCount)
    [] op.tool = "delete" /\ job.keep ->
         LET s == IF ui.selected < PageCount - 1 THEN ui.selected ELSE PageCount - 1
         IN  IF s < 1 THEN 1 ELSE s
    [] OTHER -> ui.selected
Land ==
  /\ ~Idle /\ job.stage = "engine"
  /\ LET op == Late(job.op)
     IN  /\ SetFile(ApplyOp(work, op), Result(op, work.file), job.keep, job.rest)
         /\ ui' = [ui EXCEPT !.selected = Selection(op)]
  /\ UNCHANGED <<view, tree, inputs>>

(* The chain gives up its last op and a snapshot comes back, if there is    *)
(* one; the bytes that were go the other way.                               *)
Undo ==
  /\ Act /\ Idle /\ work.chain \o work.undo # <<>>
  /\ LET w == IF work.chain = <<>> THEN work
              ELSE [work EXCEPT !.chain = Front(@), !.undone = Append(@, Last(work.chain))]
         tool == IF work.chain = <<>> THEN "?" ELSE Last(work.chain).tool
     IN  IF work.undo = <<>>
         THEN work' = w /\ ui' = [ui EXCEPT !.chain = ChainView(w)] /\ UNCHANGED job
         ELSE /\ SetFile([w EXCEPT !.undo = Front(@), !.redo = @ \o Snapshot(tool, work.file)],
                         Last(work.undo).bytes, FALSE, <<>>)
              /\ UNCHANGED ui
  /\ UNCHANGED <<view, tree>>
Redo ==
  /\ Act /\ Idle /\ work.undone \o work.redo # <<>>
  /\ LET w == IF work.undone = <<>> THEN work
              ELSE [work EXCEPT !.undone = Front(@), !.chain = Append(@, Last(work.undone))]
         tool == IF work.undone = <<>> THEN "?" ELSE Last(work.undone).tool
     IN  IF work.redo = <<>>
         THEN work' = w /\ ui' = [ui EXCEPT !.chain = ChainView(w)] /\ UNCHANGED job
         ELSE /\ SetFile([w EXCEPT !.redo = Front(@), !.undo = @ \o Snapshot(tool, work.file)],
                         Last(work.redo).bytes, FALSE, <<>>)
              /\ UNCHANGED ui
  /\ UNCHANGED <<view, tree>>

----------------------------------------------------------------------------
(* What the user asks of a document.                                        *)
Open(bytes) ==
  /\ Act /\ Idle /\ SetFile(work, bytes, FALSE, <<>>) /\ UNCHANGED <<view, ui, tree>>
UseTool(op, keep) ==
  /\ Act /\ Idle /\ work.file # Null /\ Accepts(op, work.file)
  /\ Engine(op, keep, <<>>) /\ UNCHANGED <<work, view, ui, tree>>
(* Images become a document, whether there is one or not.                   *)
FromImages ==
  /\ Act /\ Idle /\ Engine(Op("images", 7, 0, ""), FALSE, <<>>)
  /\ UNCHANGED <<work, view, ui, tree>>
UseRows(tool) ==
  /\ Act /\ Idle /\ work.file # Null /\ RowsUsable
  /\ Engine([Op(tool, 0, 0, "") EXCEPT !.rows = BmRows], FALSE, <<>>)
  /\ UNCHANGED <<work, view, ui, tree>>
(* The other document is opened for its text, then this one again.          *)
Compare ==
  /\ Act /\ Idle /\ work.file # Null
  /\ SetFile(work, Other, FALSE,
       <<[stage |-> "open", bytes |-> work.file, keep |-> FALSE, rest |-> <<>>],
         [stage |-> "engine", op |-> Op("compare", 0, 0, ""), keep |-> FALSE, rest |-> <<>>]>>)
  /\ UNCHANGED <<view, ui, tree>>
(* Parts for download; nothing else changes.                                *)
Split(how, parts) ==
  /\ Act /\ Idle /\ work.file # Null
  /\ ui' = [ui EXCEPT !.parts = [how |-> how, n |-> Len(work.file.pages), parts |-> parts]]
  /\ UNCHANGED <<work, view, tree, job>>
Starts == [i \in DOMAIN BmRows |-> BmRows[i].page - 1]

(* Pages are turned while other things go on, the canvas's painting apart.  *)
CanvasFree == ~Idle => job.stage # "paint"
GotoPage(p) ==
  /\ Act /\ CanvasFree /\ PageCount > 0
  /\ LET page == InRange(p, PageCount)
         u == [ClearOverlay(ui) EXCEPT !.selected = page, !.info = <<page, PageCount>>]
     IN  /\ view' = Painted([view EXCEPT !.page = page])
         /\ ui' = RenderBmTrees(RenderFormOverlay(u, work.file), work.file, tree, PageCount)
  /\ UNCHANGED <<work, tree, job>>
Zoom(by) ==
  /\ Act /\ Idle /\ view.doc # Null
  /\ LET z == view.zoom + by
     IN  view' = Painted([view EXCEPT !.zoom = IF z < 2 THEN 2 ELSE IF z > 12 THEN 12 ELSE z])
  /\ ui' = ClearOverlay(ui) /\ UNCHANGED <<work, tree, job>>
SetMode(mode) ==
  /\ Act /\ ui' = [ClearOverlay(ui) EXCEPT !.mode = mode] /\ UNCHANGED <<work, view, tree, job>>
(* A box dragged over what the canvas shows.                                *)
DragCrop ==
  /\ Act /\ ui.mode = "crop" /\ work.file # Null /\ view.canvas # Null
  /\ ui' = [ui EXCEPT !.crop = view.canvas] /\ UNCHANGED <<work, view, tree, job>>
(* Applied, or applied and burned right after.                              *)
ApplyCrop(burn) ==
  /\ Act /\ Idle /\ ui.crop # Null /\ work.file # Null
  /\ Engine(Op("crop", 0, 0, ""), TRUE,
       IF burn THEN <<[stage |-> "engine", op |-> Op("burn", 0, 0, ""), keep |-> TRUE,
                       rest |-> <<>>]>> ELSE <<>>)
  /\ UNCHANGED <<work, view, ui, tree>>

(* The rows of the tree, shown anew after each change.                      *)
SetTree(nodes) ==
  /\ Act /\ tree' = nodes
  /\ ui' = RenderBmTrees(ui, work.file, nodes, PageCount) /\ UNCHANGED <<work, view, job>>
AddCurrent ==
  /\ work.file # Null /\ Len(BmRows) < TreeMax
  /\ SetTree(Append(tree, Node(inputs.made, ui.selected)))
DropOn(path) == \E to \in DOMAIN List(tree, Front(path)) : SetTree(DropNode(tree, path, to))
EditRow(path, page) ==
  SetTree(WithList(tree, Front(path),
    [List(tree, Front(path)) EXCEPT ![Last(path)].page = page]))
EditTree ==
  \/ AddCurrent
  \/ \E path \in Paths(tree, <<>>) :
       \/ SetTree(RemoveNode(tree, path))
       \/ \E dir \in {-1, 1} : MayMove(tree, path, dir) /\ SetTree(MoveNode(tree, path, dir))
       \/ Last(path) > 1 /\ SetTree(IndentNode(tree, path))
       \/ Len(path) > 1 /\ SetTree(OutdentNode(tree, path))
       \/ DropOn(path)
       \/ EditRow(path, 1)

----------------------------------------------------------------------------
Pages == 0..PageCount - 1
PageTools ==
  \/ \E tool \in {"reverse", "booklet", "merge"} : UseTool(Op(tool, 0, 0, ""), FALSE)
  \/ \E p \in Pages : UseTool(Op("delete", p, 0, ""), FALSE) \/ UseTool(Op("insert", p, 0, ""), FALSE)
  \/ \E p, q \in Pages : UseTool(Op("move", p, q, ""), TRUE)
  \/ \E which \in {"odd", "even"} : UseTool(Op("oddeven", 0, 0, which), FALSE)
  \/ \E n \in {2, 4} : UseTool(Op("nup", n, 0, ""), FALSE)
  \/ UseTool(Op("duplicate", ui.selected - 1, 0, ""), TRUE)
GridTools ==
  \/ UseTool(Op("rotate", 0, 0, "selected"), TRUE)
  \/ UseTool(Op("duplicate", ui.selected - 1, 0, ""), TRUE)
  \/ UseTool(Op("delete", ui.selected - 1, 0, ""), TRUE)
  \/ \E by \in {-1, 1} :
       /\ ui.selected + by \in 1..PageCount
       /\ UseTool(Op("move", ui.selected - 1, ui.selected - 1 + by, ""), TRUE)
MarkTools ==
  \/ \E what \in {"Square", "Ink"} : UseTool(Op("mark", 0, 0, what), TRUE)
  \/ \E what \in {"Highlight", "Text"} : UseTool(Op("mark", 0, 0, what), FALSE)
  \/ \E what \in {"Ink", "Text"} : UseTool(Op("anndel", 0, 0, what), FALSE)
  \/ \E tool \in {"bake", "flattenAll"} : UseTool(Op(tool, 0, 0, ""), FALSE)
  \/ UseTool(Op("stamp", 0, 0, "Stamp"), FALSE)
SheetTools ==
  \/ \E tool \in {"overlay", "resize", "burn", "resave"} : UseTool(Op(tool, 0, 0, ""), FALSE)
  \/ UseTool(Op("rotateAll", 0, 270, ""), FALSE) \/ UseTool(Op("stampAll", 0, 0, "Bates"), FALSE)
  \/ UseTool(Op("blank", 1, 0, ""), FALSE) \/ UseTool(Op("orient", 0, 0, "landscape"), FALSE)
  \/ FromImages \/ Compare
FormTools ==
  \/ \E p \in Pages : UseTool(Op("create", p, 0, "f"), FALSE)
  \/ UseTool(Op("fill", 0, 0, "yes"), TRUE) \/ UseTool(Op("flatten", 0, 0, ""), FALSE)
  \/ UseTool(Op("blank", 0, 0, ""), FALSE)
SplitChunks == \E n \in 1..3 : Split("chunks", PlanChunks(Len(work.file.pages), n))
SplitRows == RowsUsable /\ Split("bookmarks", SplitByBookmarks(PageCount, Starts))

Next ==
  \/ Opened \/ Show \/ Paint \/ Grid \/ Land
  \/ "pages" \in Offers /\ (PageTools \/ SplitChunks)
  \/ "grid" \in Offers /\ GridTools
  \/ "marks" \in Offers /\ MarkTools
  \/ "sheets" \in Offers /\ SheetTools
  \/ "forms" \in Offers /\ FormTools
  \/ "undo" \in Offers /\ (Undo \/ Redo)
  \/ "open" \in Offers /\ \E bytes \in {Other, Bad} : Open(bytes)
  \/ "turn" \in Offers /\ \E by \in {-1, 1} : GotoPage(ui.selected + by)
  \/ "crop" \in Offers /\
       (DragCrop \/ (\E burn \in BOOLEAN : ApplyCrop(burn)) \/ Zoom(1) \/ SetMode("crop"))
  \/ "tree" \in Offers /\ EditTree
  \/ "rows" \in Offers /\ (AddCurrent \/ SplitRows
                              \/ \E tool \in {"bookmarks", "toc"} : UseRows(tool))

----------------------------------------------------------------------------
(* A document has a page, its rows a bounded number, a crop box its mode.   *)
IsDoc(d) == d.pages # <<>> /\ \A i \in DOMAIN d.fields : d.fields[i].page \in DOMAIN d.pages
TypeOK ==
  /\ work.file \in {Null, Bad} \/ IsDoc(work.file)
  /\ Len(work.undo) <= UndoMax /\ Len(work.chain) <= ChainMax
  /\ view.doc = Null \/ (IsDoc(view.doc) /\ view.page \in 1..PageCount)
  /\ ui.selected \in Nat \ {0} /\ view.zoom \in 2..12 /\ inputs.made \in 0..inputs.most
  /\ Len(BmRows) <= TreeMax

(* The chain of ops says how the document came about: each op makes of the  *)
(* snapshot kept for it the one kept for the next, the last one the file.   *)
(* It does so after any number of undos and redos, as long as there are no  *)
(* more ops than snapshots and no other document was opened meanwhile.      *)
Chained ==
  Idle /\ "open" \notin Offers /\ Len(work.chain) + Len(work.undone) <= UndoMax
ChainExplainsFile ==
  LET n == Len(work.undo) m == Len(work.chain)
  IN  Chained =>
        /\ n = m
        /\ \A k \in 1..n :
             Result(work.chain[k], work.undo[k].bytes)
               = IF k < n THEN work.undo[k + 1].bytes ELSE work.file

(* What is seen is the file: the viewer's document and page, the canvas, a  *)
(* card for each page, the list of fields and those of the page, the rows   *)
(* of the bookmarks, the chain of ops.                                      *)
ShownIsFile ==
  Idle /\ work.file # Null =>
    /\ view.doc = work.file /\ view.page = ui.selected /\ view.canvas = Canvas(view)
    /\ ui.info = <<view.page, PageCount>> /\ ui.cards = Cards(work.file)
    /\ ui.list = FormList(work.file) /\ ui.layer = FormLayer(work.file, ui.selected)
    /\ ui.trees = TreeView(work.file, tree, PageCount)
    /\ ui.chain = ChainView(work)
(* A crop box lies on the pixels it was drawn on.                           *)
CropOnItsPixels == ui.crop # Null => ui.crop = view.canvas

(* Sheets folded and read: the pages in their order, blanks at the end.     *)
Folded(sheets) ==
  LET n == Len(sheets) \div 2
      Out(k) == <<sheets[2 * k - 1].drawn[2], sheets[2 * k].drawn[1]>>
      Back(k) == <<sheets[2 * k].drawn[2], sheets[2 * k - 1].drawn[1]>>
  IN  FlattenSeq([k \in 1..n |-> Out(k)]) \o FlattenSeq([k \in 1..n |-> Back(n + 1 - k)])
SameRow(a, b) == Len(a) = Len(b) /\ \A i \in DOMAIN a : a[i] = b[i]
OccursIn(s, x) == Cardinality({i \in DOMAIN s : s[i] = x})
SamePages(a, b) == \A x \in Range(a) \cup Range(b) : OccursIn(a, x) = OccursIn(b, x)
Sound(op, a, b) ==
  CASE op.tool = "reverse" -> SamePages(a.pages, b.pages)
    [] op.tool = "move" -> /\ b.pages[op.q + 1] = a.pages[op.p + 1]
                           /\ RemoveAt(a.pages, op.p + 1) = RemoveAt(b.pages, op.q + 1)
    [] op.tool = "booklet" ->
         Folded(b.pages) = Ids(a) \o [i \in 1..(2 * Len(b.pages) - Len(a.pages)) |-> Blank]
    [] op.tool = "nup" ->
         FlattenSeq([i \in DOMAIN b.pages |-> b.pages[i].drawn]) = Ids(a)
    [] op.tool = "bake" ->
         \A i \in DOMAIN a.pages :
           /\ \A m \in Range(b.pages[i].marks) : ~IsBakable(m)
           /\ SamePages(a.pages[i].marks \o a.pages[i].drawn,
                        b.pages[i].marks \o b.pages[i].drawn)
    [] op.tool = "toc" ->
         \A i \in DOMAIN b.outline : b.pages[b.pages[1].drawn[i]].id = b.outline[i]
    [] OTHER -> TRUE
(* The tools do to pages what their names say, whatever the pages.          *)
ToolsAreSound ==
  Chained /\ work.chain # <<>> =>
    Sound(Last(work.chain), Last(work.undo).bytes, work.file)
(* Parts put in a row give the pages again, from the first one asked for.   *)
PartsCover ==
  ui.parts # Null =>
    LET all == FlattenSeq(ui.parts.parts)
    IN  SameRow(all, SelectSeq(Upto(ui.parts.n), LAMBDA p : p >= Head(all)))
(* Rows and tree say the same.                                              *)
RowsAreTree == RowsToTree(BmRows) = tree
(* Moving, indenting, outdenting and dropping keep every bookmark.          *)
Titles(nodes) == {TreeToRows(nodes, 0)[i].title : i \in DOMAIN TreeToRows(nodes, 0)}
KeepsBookmarks ==
  Len(TreeToRows(tree', 0)) = Len(BmRows) => Titles(tree') = Titles(tree)
================================================================================
