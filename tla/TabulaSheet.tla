------------------------------ MODULE TabulaSheet ------------------------------
(* The spreadsheet of src/archive/tabula/web: formula cells and their       *)
(* values (engine.js), structural edits, undo, copy and paste, and what the *)
(* page shows and autosaves of them (app.js, storage.js).  One sheet of one *)
(* column: columns are the same code with the axes exchanged.               *)
EXTENDS Integers, Sequences, FiniteSets, FiniteSetsExt, SequencesExt

CONSTANTS Rows,     \* rows of the sheet (1048576 in the code)
          Texts,    \* what a user types into a cell
          Sample,   \* the bundled workbook, row -> text
          UndoMax,  \* depth of the undo stack (64 in the code)
          MaxEdits, \* bound on the edits of a behaviour
          MaxSaves, \* bound on the autosaves that begin
          Null

VARIABLES heap,     \* the cell objects, by identity
          cells,    \* sheet.cells: row -> object
          values,   \* wb.values: row -> value
          undo,     \* snapshots of `cells`, which share its objects, and, for
                    \* the properties, the values of that time
          shown,    \* app.js model: row -> the value painted there
          clip,     \* [at |-> copySidecar, text |-> what other apps copied]
          store,    \* the autosave: [timer, saving, late, disk, booted, tier,
                    \* saves]; saving holds the writes under way, oldest first
          edits     \* edits made so far

vars == <<heap, cells, values, undo, shown, clip, store, edits>>

Row == 0 .. Rows - 1

----------------------------------------------------------------------------
(* Values and their errors, the worse error first.                          *)
Num(n) == [t |-> "num", v |-> n]
Err(e) == [t |-> e, v |-> 0]
Blank == [t |-> "blank", v |-> 0]
ErrPrec == <<"#CYCLE!", "#REF!", "#DIV/0!", "#NAME?", "#VALUE!", "#N/A", "#NUM!">>
IsErr(v) == v.t \in ToSet(ErrPrec)
Worst(errs) == Err(SelectSeq(ErrPrec, LAMBDA e : \E v \in errs : v.t = e)[1])

(* A reference as typed: row and $; as stored: with the row it was typed in *)
(* (base) and a sticky mark for a deleted target.                           *)
CellNode(host, ref) ==
  [r |-> ref.r, abs |-> ref.abs, base |-> host, dangling |-> FALSE]
ResolveRef(ref, host) ==
  LET row == IF ref.abs THEN ref.r ELSE ref.r - ref.base + host
  IN  IF ref.dangling \/ row \notin Row THEN Null ELSE row
Ends(e) == {"lo", "hi"} \cap DOMAIN e

(* Parsing binds the references of a formula to its cell; a text that does  *)
(* not parse keeps its source only.                                         *)
ParseFormula(text, host) ==
  [x \in DOMAIN text |->
     IF x \in {"lo", "hi"} THEN CellNode(host, text[x]) ELSE text[x]]
SetCell(text, host) ==
  [src |-> text,
   expr |-> IF text.k = "formula" THEN ParseFormula(text.body, host) ELSE Null]
LiteralValue(cell) ==
  CASE cell.src.k = "num" -> Num(cell.src.v)
    [] cell.src.k = "text" -> [t |-> "str", v |-> cell.src.v]
    [] OTHER -> Err("#VALUE!")
IsFormula(cell) == cell.src.k = "formula"

(* Printing writes the authored coordinates: it knows nothing of dangling,  *)
(* and a row above the first one reads back as a name.                      *)
PrintExpr(e) ==
  IF \E x \in Ends(e) : e[x].r < 0 THEN [op |-> "name"]
  ELSE [x \in DOMAIN e |->
          IF x \in {"lo", "hi"} THEN [r |-> e[x].r, abs |-> e[x].abs] ELSE e[x]]

Span(lo, hi) == IF lo <= hi THEN lo .. hi ELSE hi .. lo
PrecedentsOf(e, host) ==
  LET at == [x \in Ends(e) |-> ResolveRef(e[x], host)]
  IN  IF \E x \in Ends(e) : at[x] = Null THEN {}
      ELSE IF Ends(e) = {"lo", "hi"} THEN Span(at.lo, at.hi)
      ELSE {at[x] : x \in Ends(e)}

(* SUM skips text and blanks, and forgets an error beside a number.         *)
FoldSum(vs) ==
  LET nums == {k \in DOMAIN vs : vs[k].t = "num"}
      errs == {k \in DOMAIN vs : IsErr(vs[k])}
  IN  IF nums = {} /\ errs # {} THEN Worst({vs[k] : k \in errs})
      ELSE Num(MapThenSumSet(LAMBDA k : vs[k].v, nums))
EvBin(l, r) ==
  IF IsErr(l) \/ IsErr(r) THEN Worst({x \in {l, r} : IsErr(x)})
  ELSE IF l.t = "str" THEN Err("#VALUE!")
  ELSE Num(l.v + r.v)
Ev(e, host, val) ==
  LET ps == PrecedentsOf(e, host)
      one == IF ps = {} THEN Err("#REF!") ELSE val[Min(ps)]
  IN  CASE e.op = "ref" -> one
        [] e.op = "sum" -> IF ps = {} THEN Err("#REF!")
                           ELSE FoldSum([k \in ps |-> val[k]])
        [] e.op = "inc" -> EvBin(one, Num(1))
        [] e.op = "iferror" -> IF IsErr(one) THEN Num(0) ELSE one
        [] e.op = "name" -> Err("#NAME?")

----------------------------------------------------------------------------
(* Recalculation of the sheet cs with objects h after edits of the rows in  *)
(* `written`: taint the cycles, order what is dirty, keep every other value.  *)
FormulaMap(cs, h) ==
  LET fs == {k \in DOMAIN cs : IsFormula(h[cs[k]])}
  IN  [k \in fs |-> h[cs[k]].expr]
BuildGraph(fmap) == [k \in DOMAIN fmap |-> PrecedentsOf(fmap[k], k)]
(* Everything that depends on a row of `from`, itself included.             *)
Downstream(from, graph) ==
  LET more(s) == s \cup {k \in DOMAIN graph : graph[k] \cap s # {}}
      grow[n \in 0 .. Rows] == IF n = 0 THEN from ELSE more(grow[n - 1])
  IN  grow[Rows]
(* A slip to notice: dependents are looked for one step away.               *)
DirtyClosureNear(written, graph) ==
  written \cup {k \in DOMAIN graph : graph[k] \cap written # {}}
DirtyClosure(written, graph) == Downstream(written, graph)
(* Who is on a cycle or waits for one: the cells that feed one another.     *)
DetectCycles(graph) ==
  UNION {S \in SUBSET DOMAIN graph : \A k \in S : graph[k] \cap S # {}}
(* Kahn's order leaves out what waits for a cycle among the dirty cells.    *)
KahnOrder(graph, dirty) ==
  LET nodes == DOMAIN graph \cap dirty
      inner == [k \in nodes |-> graph[k] \cap nodes]
  IN  nodes \ DetectCycles(inner)

Recalc(cs, h, old, written) ==
  LET fmap == FormulaMap(cs, h)
      graph == BuildGraph(fmap)
      tainted == DetectCycles(graph)
      dirty == DirtyClosure(written, graph)
      order == KahnOrder(graph, dirty)
      next[k \in Row] ==
        CASE k \notin DOMAIN cs -> Blank
          [] k \in DOMAIN cs \ DOMAIN fmap -> LiteralValue(h[cs[k]])
          [] k \in DOMAIN fmap \ dirty -> old[k]
          [] k \in tainted \/ k \in DOMAIN fmap \ order -> Err("#CYCLE!")
          [] OTHER -> Ev(fmap[k], k, next)
  IN  [k \in Row |-> next[k]]
RecalcAll(cs, h) == Recalc(cs, h, [k \in Row |-> Blank], DOMAIN cs)

(* Objects nobody refers to are free for the next cells made, one for each  *)
(* of `rows`.                                                               *)
Held(cs, stack) ==
  Range(cs) \cup UNION {Range(stack[i].cells) : i \in DOMAIN stack}
Fresh(rows, used) ==
  LET free == DOMAIN heap \ used
      upTo(s, n) == Cardinality({m \in s : m <= n})
  IN  [k \in rows |-> CHOOSE o \in free : upTo(free, o) = upTo(rows, k)]
None == [src |-> [k |-> "none"], expr |-> Null]
(* The heap h without what is no longer referred to.                        *)
Swept(h, held) == [o \in DOMAIN h |-> IF o \in held THEN h[o] ELSE None]

(* One raw edit of one cell, as setCell followed by its minimal recalc.     *)
Write(row, text) ==
  LET o == Fresh({row}, Held(cells, undo))[row]
      h == IF text.k = "blank" THEN heap
           ELSE [heap EXCEPT ![o] = SetCell(text, row)]
  IN  /\ cells' = IF text.k = "blank"
                  THEN [k \in DOMAIN cells \ {row} |-> cells[k]]
                  ELSE [k \in DOMAIN cells \cup {row} |->
                          IF k = row THEN o ELSE cells[k]]
      /\ heap' = Swept(h, Held(cells', undo))
      /\ values' = Recalc(cells', heap', values, {row})

(* What the grid paints after a batch: the rows the edit changed.           *)
Batch(written) ==
  shown' = [k \in Row |-> IF k \in written \/ values[k] # values'[k]
                          THEN values'[k] ELSE shown[k]]
(* After a full snapshot: every row that has a cell.                        *)
FullSnapshot ==
  shown' = [k \in Row |-> IF k \in DOMAIN cells' THEN values'[k] ELSE shown[k]]
(* A slip to notice: nothing is armed while a write is under way.           *)
ScheduleAutosaveIdle ==
  /\ store' = [store EXCEPT !.timer = store.booted /\ store.saving = <<>>]
  /\ edits < MaxEdits /\ edits' = edits + 1
(* Painting arms the autosave, once the page has booted.                    *)
ScheduleAutosave ==
  /\ store' = [store EXCEPT !.timer = store.booted]
  /\ edits < MaxEdits /\ edits' = edits + 1

----------------------------------------------------------------------------
(* Structural edits of `count` = 1 row at `at`; delta is 1 or -1.           *)
(* A slip to notice: the moved formulas keep the row they were typed in.    *)
ShiftBaseNot(ref, d) == ref
ShiftBase(ref, d) ==
  IF ref.dangling \/ ref.abs THEN ref ELSE [ref EXCEPT !.base = @ + d]
Rederive(ref, host, target) ==
  [ref EXCEPT !.r = IF ref.abs THEN target ELSE target - host + ref.base,
              !.dangling = @ \/ target \notin Row]
RemapAxis(ref, host, at, delta) ==
  LET old == ResolveRef(ref, host)
  IN  IF old = Null THEN ref
      ELSE IF delta < 0 /\ old = at THEN [ref EXCEPT !.dangling = TRUE]
      ELSE Rederive(ref, host,
                    IF old >= at + (IF delta < 0 THEN 1 ELSE 0)
                    THEN old + delta ELSE old)
(* The ends of a range step aside instead of dangling.                      *)
ClampRemap(ref, host, at, delta) ==
  LET old == ResolveRef(ref, host)
  IN  IF old = Null THEN ref
      ELSE Rederive(ref, host,
                    IF delta < 0 /\ old = at THEN at
                    ELSE IF old >= at THEN old + delta ELSE old)
MapRefs(cell, F(_)) ==
  IF ~IsFormula(cell) THEN cell
  ELSE [cell EXCEPT !.expr =
          [x \in DOMAIN cell.expr |->
             IF x \in {"lo", "hi"} THEN F(cell.expr[x]) ELSE cell.expr[x]]]

(* Cells past the edit move as copies with their base moved along; then     *)
(* every formula object of the sheet is rewritten in place.                 *)
InsertDelete(at, delta) ==
  LET from == IF delta < 0 THEN at + 1 ELSE at
      stay == {k \in DOMAIN cells : k < at}
      move == {k \in DOMAIN cells : k >= from}
      stack == Append(undo, [cells |-> cells, seen |-> values])
      copy == Fresh(move, Held(cells, undo))
      moved(k) == IF k < at THEN heap[cells[k]]
                  ELSE MapRefs(heap[cells[k - delta]],
                               LAMBDA ref : ShiftBase(ref, delta))
      remap(cell, host) ==
        MapRefs(cell, LAMBDA ref :
          IF "hi" \in DOMAIN cell.expr THEN ClampRemap(ref, host, at, delta)
          ELSE RemapAxis(ref, host, at, delta))
  IN  /\ undo' = IF Len(stack) > UndoMax THEN Tail(stack) ELSE stack
      /\ cells' = [k \in stay \cup {j + delta : j \in move} |->
                     IF k < at THEN cells[k] ELSE copy[k - delta]]
      /\ LET h == [o \in DOMAIN heap |->
                     IF \E k \in DOMAIN cells' : cells'[k] = o
                     THEN LET k == CHOOSE k \in DOMAIN cells' : cells'[k] = o
                          IN  remap(moved(k), k)
                     ELSE heap[o]]
         IN  heap' = Swept(h, Held(cells', undo'))
      /\ values' = RecalcAll(cells', heap')
      /\ Batch({})
      /\ ScheduleAutosave
      /\ UNCHANGED clip

Fits == /\ Rows - 1 \notin DOMAIN cells
        /\ \A k \in DOMAIN cells : IsFormula(heap[cells[k]]) =>
             Rows - 1 \notin PrecedentsOf(heap[cells[k]].expr, k)
InsertRows(at) == Fits /\ InsertDelete(at, 1)
DeleteRows(at) == InsertDelete(at, -1)

(* The snapshot's rows come back, with the objects as they are now.         *)
Undo ==
  /\ undo # <<>>
  /\ cells' = Last(undo).cells
  /\ undo' = Front(undo)
  /\ heap' = Swept(heap, Held(cells', undo'))
  /\ values' = RecalcAll(cells', heap')
  /\ Batch({})
  /\ ScheduleAutosave
  /\ UNCHANGED clip

----------------------------------------------------------------------------
(* The page.                                                                *)

CommitDisplay(row, text) ==
  /\ Write(row, text)
  /\ Batch({row})
  /\ ScheduleAutosave
  /\ UNCHANGED <<undo, clip>>

(* Delete clears the selected cell and paints a full snapshot.              *)
ClearSelection(row) ==
  /\ Write(row, [k |-> "blank"])
  /\ FullSnapshot
  /\ ScheduleAutosave
  /\ UNCHANGED <<undo, clip>>

CopySelection(row) ==
  /\ clip' = [clip EXCEPT !.at = row]
  /\ UNCHANGED <<heap, cells, values, undo, shown, store, edits>>
(* Another application fills the clipboard; the sidecar stays.              *)
CopyElsewhere(text) ==
  /\ text.k # "formula"
  /\ clip' = [clip EXCEPT !.text = text]
  /\ UNCHANGED <<heap, cells, values, undo, shown, store, edits>>
CutSelection(row) ==
  /\ clip' = [clip EXCEPT !.at = row]
  /\ Write(row, [k |-> "blank"])
  /\ FullSnapshot
  /\ ScheduleAutosave
  /\ UNCHANGED undo

(* The translated text of a cell, or Null for an empty one.                 *)
TranslatePaste(cell, d) ==
  MapRefs(cell, LAMBDA ref :
    IF ref.abs THEN ref ELSE [ref EXCEPT !.r = @ + d, !.base = @ + d])
PreviewPaste(src, dst) ==
  IF src \notin DOMAIN cells THEN Null
  ELSE LET cell == heap[cells[src]]
       IN  IF ~IsFormula(cell) THEN cell.src
           ELSE [k |-> "formula",
                 body |-> PrintExpr(TranslatePaste(cell, dst - src).expr)]
(* A sidecar of the clipboard's shape wins (here all are one cell), and its  *)
(* cell is pasted as it is now; foreign text never becomes a formula.       *)
PasteAt(dst) ==
  LET text == IF clip.at = Null THEN clip.text ELSE PreviewPaste(clip.at, dst)
  IN  /\ clip.at # Null \/ clip.text # Null
      /\ IF text = Null THEN UNCHANGED <<heap, cells, values>>
         ELSE Write(dst, text)
      /\ FullSnapshot
      /\ ScheduleAutosave
      /\ UNCHANGED <<undo, clip>>

(* The workbook as saved: for a formula, the text it was typed as.          *)
ToJSON(cs, h) == [k \in DOMAIN cs |-> h[cs[k]].src]
FromJSON(doc) ==
  LET rows == DOMAIN doc
      ids == Fresh(rows, Held(<<>>, undo))
      h == [o \in DOMAIN heap |->
              IF \E k \in rows : ids[k] = o
              THEN LET k == CHOOSE j \in rows : ids[j] = o
                   IN  SetCell(doc[k], k)
              ELSE heap[o]]
  IN  [cells |-> ids, heap |-> h]
(* The model is emptied before the snapshot is painted.                     *)
FullRefresh == shown' = values'

(* The debounce timer takes the text and begins a write, whether or not an  *)
(* earlier one is still under way.                                          *)
TimerFires ==
  /\ store.timer /\ store.saves < MaxSaves
  /\ store' = [store EXCEPT !.timer = FALSE, !.saves = @ + 1,
                  !.saving = Append(@, [text |-> ToJSON(cells, heap), old |-> FALSE])]
  /\ UNCHANGED <<heap, cells, values, undo, shown, clip, edits>>
(* A write lands or fails, in any order.  `late`, for the properties: the   *)
(* last one to end was older than one that had ended before.                *)
SaveEnds(i, ok) ==
  /\ i \in DOMAIN store.saving
  /\ LET older == [j \in 1 .. i - 1 |-> [store.saving[j] EXCEPT !.old = TRUE]]
     IN  store' = [store EXCEPT
           !.saving = older \o SubSeq(@, i + 1, Len(@)),
           !.late = store.saving[i].old,
           !.disk = IF ok THEN store.saving[i].text ELSE @,
           !.tier = IF ok THEN "opfs" ELSE "memory-only"]
  /\ UNCHANGED <<heap, cells, values, undo, shown, clip, edits>>

(* The page starts empty and is usable while the stored workbook is read;   *)
(* a missing or unreadable one is replaced by the sample on the page.       *)
Boot(read) ==
  /\ ~store.booted
  /\ read => store.disk # Null
  /\ LET wb == FromJSON(IF read THEN store.disk ELSE Sample)
     IN  cells' = wb.cells /\ heap' = Swept(wb.heap, Held(cells', undo))
  /\ values' = RecalcAll(cells', heap')
  /\ FullRefresh
  /\ store' = [store EXCEPT !.booted = TRUE, !.late = FALSE,
                            !.tier = IF read THEN "opfs" ELSE @]
  /\ UNCHANGED <<undo, clip, edits>>
(* A reload may come at any time, also before the autosave, and abandons the *)
(* writes; before the first save it only starts the page afresh.             *)
Blanks == [k \in Row |-> Blank]
Reload ==
  /\ store.booted /\ store.saves > 0
  /\ cells' = <<>> /\ values' = Blanks /\ shown' = Blanks
  /\ undo' = <<>> /\ clip' = [clip EXCEPT !.at = Null]
  /\ heap' = [o \in DOMAIN heap |-> None]
  /\ store' = [store EXCEPT !.timer = FALSE, !.saving = <<>>,
                            !.booted = FALSE, !.tier = "memory-only"]
  /\ UNCHANGED edits

Init ==
  /\ heap = [o \in 1 .. Rows * (UndoMax + 2) |-> None]
  /\ cells = <<>> /\ values = Blanks /\ undo = <<>> /\ shown = Blanks
  /\ clip = [at |-> Null, text |-> Null]
  /\ store = [timer |-> FALSE, saving |-> <<>>, late |-> FALSE, disk |-> Null,
              booted |-> FALSE, tier |-> "memory-only", saves |-> 0]
  /\ edits = 0

Next ==
  \/ \E row \in Row, text \in Texts : CommitDisplay(row, text)
  \/ \E row \in Row :
       \/ ClearSelection(row) \/ CopySelection(row) \/ CutSelection(row)
       \/ PasteAt(row) \/ InsertRows(row) \/ DeleteRows(row)
  \/ \E text \in Texts : CopyElsewhere(text)
  \/ \E ok \in BOOLEAN :
       Boot(ok) \/ \E i \in 1 .. MaxSaves : SaveEnds(i, ok)
  \/ Undo \/ TimerFires \/ Reload

Spec == Init /\ [][Next]_vars

----------------------------------------------------------------------------

(* Every cell refers to an object of the heap, every value is one.          *)
TypeOK ==
  /\ DOMAIN cells \subseteq Row /\ Range(cells) \subseteq DOMAIN heap
  /\ \A k \in DOMAIN cells : heap[cells[k]] # None
  /\ DOMAIN values = Row /\ DOMAIN shown = Row
  /\ \A k \in Row : values[k].t \in {"num", "str", "blank"} \cup ToSet(ErrPrec)
  /\ Len(undo) <= UndoMax
  /\ clip.at \in Row \cup {Null}
  /\ store.disk # Null => DOMAIN store.disk \subseteq Row

(* proofs.md, theorems 1 to 3: after any edit, minimal recalculation leaves *)
(* the one solution of all the cells' equations, and #CYCLE! exactly in and *)
(* behind the cycles.                                                       *)
ValuesSolveSheet ==
  LET graph == BuildGraph(FormulaMap(cells, heap))
      users(k) == {j \in DOMAIN graph : k \in graph[j]}
      doomed == Downstream({k \in DOMAIN graph :
                              k \in Downstream(users(k), graph)}, graph)
  IN  \A k \in Row :
        values[k] = IF k \notin DOMAIN cells THEN Blank
                    ELSE IF ~IsFormula(heap[cells[k]])
                         THEN LiteralValue(heap[cells[k]])
                    ELSE IF k \in doomed THEN Err("#CYCLE!")
                    ELSE Ev(heap[cells[k]].expr, k, values)

(* Copying prints the coordinates a formula was authored with: they denote  *)
(* its present targets, wherever edits have moved the formula.              *)
CopiesMeanTheSame ==
  \A k \in DOMAIN cells :
    LET e == heap[cells[k]].expr
    IN  IsFormula(heap[cells[k]]) /\ (\A x \in Ends(e) : ~e[x].dangling) =>
          PrecedentsOf(ParseFormula(PrintExpr(e), k), k) = PrecedentsOf(e, k)

(* An inserted row moves values and changes none; a deleted one changes     *)
(* only what depended on it.                                                *)
MovesValues ==
  \A at \in Row :
    LET behind == Downstream({at}, BuildGraph(FormulaMap(cells, heap)))
    IN  undo' # <<>> =>
        /\ InsertRows(at) => \A k \in Row \ {Rows - 1} :
             values'[IF k >= at THEN k + 1 ELSE k] = values[k]
        /\ DeleteRows(at) => \A k \in Row \ behind :
             values'[IF k > at THEN k - 1 ELSE k] = values[k]
EditsMoveValues == [][MovesValues]_vars

(* Where there is a cell, its present value is what is painted: minimal     *)
(* batches leave nothing out, whatever was painted there before.            *)
PaintedIsCurrent == \A k \in DOMAIN cells : shown[k] = values[k]

(* Once timer and writes have settled, what is stored is what was typed,    *)
(* unless a write was overtaken by a newer one and landed after it.         *)
SettledIsSaved ==
  store.booted /\ ~store.timer /\ store.saving = <<>> /\ store.tier = "opfs"
    => store.late \/ store.disk = ToJSON(cells, heap)

(* Saving and loading preserve the values of the sheet                      *)
(* (ideas/2026-09-03-tabula-spreadsheet-engine.md:89).                      *)
SaveLoadPreserves ==
  LET wb == FromJSON(ToJSON(cells, heap))
  IN  RecalcAll(wb.cells, wb.heap) = values

(* Undo gives back the sheet its snapshot was taken of (line 88 there).     *)
UndoRestores == [][Undo => values' = Last(undo).seen]_vars
================================================================================
