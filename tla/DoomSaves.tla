------------------------------- MODULE DoomSaves -------------------------------
(***************************************************************************)
(* Saves of archive/doom (src/storage, setupSaves in app.js): a provider    *)
(* chosen down a ladder, slots of data and meta, settings written behind,   *)
(* bundles imported over what is there.  Each write waits for the provider; *)
(* operations overlap, writes fail, the page goes between two of them.      *)
(***************************************************************************)
EXTENDS Integers, Sequences, SequencesExt, FiniteSets, FiniteSetsExt

CONSTANTS
  Null,
  Uses       \* the sessions looked at: [ladder, offers, most, bundles] gives the conditions
             \* of the providers (opfs, idb and local are "ok", "absent", "throw" or "hang"),
             \* the kinds of input, how many are made at most, and the bundles that parse:
             \* functions of the settings, and data, to values

VARIABLES
  tier,   \* the provider that was picked
  disk,   \* what it holds: path to value or Null
  tmp,    \* OPFS: the file beside a path, which a write fills first
  live,   \* the page: settings, the map that is played, writes that are pending
  ops,    \* operations under way
  past,   \* inputs made, and what the properties make an exception of
  use     \* the session that is looked at

savesVars == <<tier, disk, tmp, live, ops, past, use>>

(* One slot of the six; a save state is told by its map, 1 for E1M1.        *)
Order == <<"config", "bindings", "progression", "data", "meta">>
PATHS == Range(Order)
Slot == {"data", "meta"}
E1M1 == 1
Maps == {E1M1, 2}
Default == 0
Imported == 0

(* A tier that throws, is absent, fails its probe or hangs falls through.    *)
selectProvider(ladder) ==
  LET fine == SelectSeq(<<"opfs", "idb", "local">>, LAMBDA t : ladder[t] = "ok")
  IN  IF fine = <<>> THEN "memory" ELSE fine[1]

W(path, value) == [path |-> path, value |-> value]
(* writeSoon: the newest value of a path, in the place of the older one.     *)
writeSoon(pending, path, value) ==
  LET same == {i \in DOMAIN pending : pending[i].path = path}
  IN  IF same = {} THEN Append(pending, W(path, value))
      ELSE [pending EXCEPT ![Min(same)] = W(path, value)]
(* The page after its start: bindings of the provider go before its own      *)
(* store's; the map to resume is booted, which writes the progression.       *)
Started(d, store) ==
  LET held == IF d["bindings"] # Null THEN d["bindings"] ELSE store
      map == IF d["progression"] # Null THEN d["progression"] ELSE E1M1
  IN  [config |-> IF d["config"] # Null THEN d["config"] ELSE Default,
       bindings |-> held, store |-> held, map |-> map,
       pending |-> <<W("progression", map)>>, leaving |-> FALSE]
Nothing == [path \in PATHS |-> Null]
Init ==
  /\ use \in Uses
  /\ tier = selectProvider(use.ladder)
  /\ disk = Nothing /\ tmp = Nothing
  /\ live = Started(Nothing, Default)
  /\ ops = {}
  /\ past = [made |-> 0, apart |-> TRUE, torn |-> FALSE, spoilt |-> FALSE,
             refused |-> Null, load |-> "none"]

----------------------------------------------------------------------------
(* An operation makes its writes [path, value], Null to remove, one after    *)
(* the other; phase is how far the write at the head has come on OPFS, held  *)
(* what it read back.                                                       *)
Op(kind, writes) ==
  [id |-> past.made, kind |-> kind, writes |-> writes, phase |-> 0, held |-> Null,
   prior |-> Nothing, bundle |-> Null]
Touches(op) == {w.path : w \in Range(op.writes)}
Meets(op) == \E o \in ops : Touches(o) \cap Touches(op) # {}
Imports == \E o \in ops : o.kind \in {"import", "rollback"}
Input(kind, apart) ==
  /\ kind \in use.offers /\ past.made < use.most
  /\ past' = [past EXCEPT !.made = @ + 1, !.refused = Null, !.load = "none",
                           !.apart = @ /\ apart]
Begin(kind, op, apart) ==
  Input(kind, apart) /\ ops' = ops \cup {op} /\ UNCHANGED <<tier, disk, tmp, live>>

ChangeVolume ==
  /\ Input("volume", ~Imports)
  /\ live' = [live EXCEPT !.config = @ + 1,
                          !.pending = writeSoon(@, "config", live.config + 1)]
  /\ UNCHANGED <<tier, disk, tmp, ops>>
(* Bindings go to the page's own store at once and to the provider later.    *)
Remap ==
  /\ Input("remap", ~Imports)
  /\ live' = [live EXCEPT !.bindings = @ + 1, !.store = live.bindings + 1,
                          !.pending = writeSoon(@, "bindings", live.bindings + 1)]
  /\ UNCHANGED <<tier, disk, tmp, ops>>
BootMap(map) ==
  /\ map # live.map
  /\ Input("map", ~Imports)
  /\ live' = [live EXCEPT !.map = map, !.pending = writeSoon(@, "progression", map)]
  /\ UNCHANGED <<tier, disk, tmp, ops>>
(* By the timer, when the tab is hidden, when the page goes.                 *)
flush ==
  /\ live.pending # <<>>
  /\ ops' = ops \cup {Op("flush", live.pending)}
  /\ past' = [past EXCEPT !.apart = @ /\ ~Meets(Op("flush", live.pending))]
  /\ live' = [live EXCEPT !.pending = <<>>]
  /\ UNCHANGED <<tier, disk, tmp>>
(* What the engine plays now: data first, meta behind it.                    *)
saveSlot ==
  LET op == Op("save", <<W("data", live.map), W("meta", live.map)>>)
  IN  Begin("slot", op, ~Meets(op))
deleteSlot ==
  LET op == Op("delete", <<W("data", Null), W("meta", Null)>>)
  IN  disk["data"] # Null /\ Begin("slot", op, ~Meets(op))
loadSlot ==
  LET op == Op("load", <<W("data", Null), W("meta", Null)>>)
  IN  Begin("slot", op, ~Meets(op))
BundlePaths(bundle) ==
  SelectSeq(Order, LAMBDA p : IF p = "meta" THEN "data" \in DOMAIN bundle ELSE p \in DOMAIN bundle)
(* What the paths hold is remembered (at once; the code reads one by one),   *)
(* then settings and slots are written in their order; the meta of an        *)
(* imported slot names no map.                                              *)
applyBundle(bundle) ==
  LET value(path) == IF path = "meta" THEN Imported ELSE bundle[path]
      order == BundlePaths(bundle)
      op == [Op("import", <<>> \o [i \in DOMAIN order |-> W(order[i], value(order[i]))])
             EXCEPT !.prior = disk, !.bundle = bundle]
  IN  Begin("import", op, ~Meets(op) /\ live.pending = <<>>)

----------------------------------------------------------------------------
(* Steps of the operations.                                                 *)
Writes(op) == op.kind # "load"
Replace(op, next) == ops' = (ops \ {op}) \cup next
Onward(op) ==
  Replace(op, IF Len(op.writes) = 1 THEN {}
              ELSE {[op EXCEPT !.writes = Tail(@), !.phase = 0, !.held = Null]})
(* The page takes over a bundle that is written, and then goes.              *)
TakenOver(op) ==
  IF op.kind = "import" /\ Len(op.writes) = 1
  THEN [live EXCEPT !.config = op.bundle["config"], !.bindings = op.bundle["bindings"],
                    !.store = op.bundle["bindings"], !.leaving = TRUE]
  ELSE live
(* A rollback that went through is what "nothing was changed" stands on.     *)
Refused(op) ==
  IF op.kind = "rollback" /\ Len(op.writes) = 1 /\ ~past.spoilt
  THEN [p \in Range(BundlePaths(op.bundle)) |-> op.prior[p]] ELSE past.refused

(* OPFS fills the file beside, reads it back, writes the path, removes the   *)
(* file beside; other providers write in one step.                           *)
WriteTmp(op) ==
  LET w == Head(op.writes)
  IN  /\ Writes(op) /\ tier = "opfs" /\ w.value # Null /\ op.phase = 0
      /\ tmp' = [tmp EXCEPT ![w.path] = w.value]
      /\ Replace(op, {[op EXCEPT !.phase = 1]})
      /\ UNCHANGED <<tier, disk, live, past>>
ReadTmp(op) ==
  LET back == tmp[Head(op.writes).path]
  IN  /\ op.phase = 1 /\ back # Null
      /\ Replace(op, {[op EXCEPT !.phase = 2, !.held = back]})
      /\ UNCHANGED <<tier, disk, tmp, live, past>>
(* The local tier has no room for slots.                                    *)
Refuses(w) == tier = "local" /\ w.path = "data" /\ w.value # Null
Commit(op) ==
  LET w == Head(op.writes)
      opfs == tier = "opfs" /\ w.value # Null
  IN  /\ Writes(op) /\ ~Refuses(w)
      /\ opfs => op.phase = 2
      /\ disk' = [disk EXCEPT ![w.path] = IF opfs THEN op.held ELSE w.value]
      /\ tmp' = IF opfs THEN [tmp EXCEPT ![w.path] = Null] ELSE tmp
      /\ live' = TakenOver(op)
      /\ past' = [past EXCEPT !.refused = Refused(op)]
      /\ Onward(op)
      /\ UNCHANGED tier
(* A flush keeps the value for the next one, over a newer that is pending; a *)
(* save ends where it is; an import puts back what was; a rollback goes on.   *)
Fail(op) ==
  LET w == Head(op.writes)
      back == BundlePaths(op.bundle)
  IN  /\ Writes(op) /\ w.value # Null
      /\ CASE op.kind = "flush" ->
                /\ live' = [live EXCEPT !.pending = writeSoon(@, w.path, w.value)]
                /\ past' = [past EXCEPT !.apart = @ /\ w.path \notin {p.path : p \in Range(live.pending)}]
                /\ Onward(op)
           [] op.kind = "save" ->
                /\ past' = [past EXCEPT !.torn = @ \/ w.path = "meta"]
                /\ Replace(op, {})
                /\ UNCHANGED live
           [] op.kind = "import" ->
                /\ Replace(op, {[op EXCEPT !.kind = "rollback", !.phase = 0, !.held = Null,
                      !.writes = <<>> \o [i \in DOMAIN back |-> W(back[i], op.prior[back[i]])]]})
                /\ UNCHANGED <<live, past>>
           [] op.kind = "rollback" ->
                /\ past' = [past EXCEPT !.spoilt = TRUE, !.torn = @ \/ w.path \in Slot]
                /\ Onward(op)
                /\ UNCHANGED live
      /\ UNCHANGED <<tier, disk, tmp>>
(* loadSlot reads data, then meta; a map that is not the one played is       *)
(* booted, the first one when meta names none; restoreEngine refuses the     *)
(* data of another map.                                                     *)
ReadSlot(op) ==
  /\ op.kind = "load"
  /\ IF Len(op.writes) = 2
     THEN /\ Replace(op, IF disk["data"] = Null THEN {}
                         ELSE {[op EXCEPT !.held = disk["data"], !.writes = Tail(@)]})
          /\ UNCHANGED <<live, past>>
     ELSE LET meta == disk["meta"]
              map == IF meta \in Maps THEN meta ELSE E1M1
          IN  /\ Replace(op, {})
              /\ live' = IF meta = live.map THEN live
                         ELSE [live EXCEPT !.map = map,
                                           !.pending = writeSoon(@, "progression", map)]
              /\ past' = [past EXCEPT !.load = CASE op.held = map -> "restored"
                                                 [] meta \notin Maps -> "foreign"
                                                 [] OTHER -> "mismatch",
                                      !.apart = @ /\ ~Imports]
  /\ UNCHANGED <<tier, disk, tmp>>
(* The page goes and comes back: what was under way or pending is lost, and  *)
(* with the memory tier everything; the page of an import goes by itself.    *)
Reload ==
  /\ live.leaving \/ ("reload" \in use.offers /\ past.made < use.most)
  /\ past' = [past EXCEPT !.made = IF live.leaving THEN @ ELSE @ + 1,
                !.apart = TRUE, !.spoilt = FALSE, !.refused = Null, !.load = "none",
                !.torn = @ \/ ~past.apart \/ \E o \in ops : Writes(o) /\ Touches(o) \cap Slot # {}]
  /\ disk' = IF tier = "memory" THEN Nothing ELSE disk
  /\ live' = Started(disk', live.store)
  /\ ops' = {}
  /\ UNCHANGED <<tier, tmp>>

Step ==
  \/ ChangeVolume
  \/ Remap
  \/ \E map \in Maps : BootMap(map)
  \/ flush
  \/ saveSlot
  \/ deleteSlot
  \/ loadSlot
  \/ \E bundle \in use.bundles : applyBundle(bundle)
  \/ \E op \in ops : WriteTmp(op)
  \/ \E op \in ops : ReadTmp(op)
  \/ \E op \in ops : Commit(op)
  \/ \E op \in ops : Fail(op)
  \/ \E op \in ops : ReadSlot(op)
  \/ Reload
Next == Step /\ UNCHANGED use

----------------------------------------------------------------------------
TypeOK ==
  /\ tier \in {"opfs", "idb", "local", "memory"}
  /\ live.map \in Maps /\ live.config \in Int /\ live.bindings \in Int
  /\ disk["data"] \in Maps \cup {Null} /\ disk["meta"] \in Maps \cup {Null, Imported}
  /\ disk["progression"] \in Maps \cup {Null}
  /\ \A op \in ops : op.writes # <<>> /\ op.phase \in 0..2
  /\ tier # "opfs" => tmp = Nothing
  /\ past.made <= use.most

(* With nothing under way or pending, no two operations that touched the     *)
(* same path and no rollback that failed, the provider holds the settings    *)
(* the page shows: a write that failed is kept and made again (saves.js:75). *)
SettingsAreSaved ==
  ops = {} /\ live.pending = <<>> /\ past.apart /\ ~past.spoilt /\ ~live.leaving =>
    /\ disk["config"] = (IF live.config = Default /\ disk["config"] = Null THEN Null ELSE live.config)
    /\ disk["bindings"] \in {Null, live.bindings}
    /\ live.bindings = live.store
    /\ disk["progression"] = live.map
(* Data and meta of a slot are of one save or both gone, unless a write of   *)
(* meta failed, the page went between the two, or two operations met.        *)
SlotIsOneSave ==
  past.apart /\ ~past.torn /\ (\A op \in ops : Writes(op) => Touches(op) \cap Slot = {}) =>
    /\ disk["data"] = Null <=> disk["meta"] = Null
    /\ disk["meta"] \in Maps => disk["data"] = disk["meta"]
(* A bundle that is refused has changed nothing, as the status says, if its  *)
(* rollback went through and nothing else wrote.                             *)
RefusedChangesNothing ==
  ops = {} /\ past.apart /\ past.refused # Null =>
    \A p \in DOMAIN past.refused : disk[p] = past.refused[p]
(* A slot that was saved here loads.                                        *)
SavedSlotLoads == past.load = "mismatch" => ~past.apart \/ past.torn
================================================================================
