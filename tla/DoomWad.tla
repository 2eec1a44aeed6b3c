-------------------------------- MODULE DoomWad --------------------------------
(***************************************************************************)
(* The WADs of archive/doom (src/wad): the directory a file is refused for, *)
(* the maps found in it, load orders merged into one, maps probed one by    *)
(* one, and what the engine makes of the map it is asked for.  A WAD is     *)
(* [magic, ofs, total, dir]; an entry of dir is a lump with its place in    *)
(* the file, and carries in n what its payload says: how many vertexes      *)
(* there are, or how many the lines ask for, Torn if it does not decode.    *)
(***************************************************************************)
EXTENDS Integers, Sequences, SequencesExt, FiniteSets, FiniteSetsExt

CONSTANT Null

Header == 12
Entry == 16
Torn == -1
(* The lumps of a map in their order; NODES stands for those nobody needs.  *)
MAP_ORDER == <<"THINGS", "LINEDEFS", "VERTEXES", "NODES">>
REQUIRED_MAP_LUMPS == {"THINGS", "LINEDEFS", "VERTEXES"}
Doom1 == {"E1M1", "E1M2", "E2M1"}
Doom2 == {"MAP01"}
isMapMarker(name) == name \in Doom1 \cup Doom2

----------------------------------------------------------------------------
(* The directory: inside the file, lumps inside the file and apart.         *)
Inside(l, total) ==
  /\ l.size >= 0 /\ l.pos >= 0 /\ l.pos + l.size <= total
  /\ l.size > 0 => l.pos >= Header
Apart(a, b) ==
  a.size > 0 /\ b.size > 0 => a.pos + a.size <= b.pos \/ b.pos + b.size <= a.pos
parseWadDirectory(wad) ==
  /\ wad # Null
  /\ wad.magic \in {"IWAD", "PWAD"}
  /\ wad.ofs >= Header /\ wad.ofs + Entry * Len(wad.dir) <= wad.total
  /\ \A i \in DOMAIN wad.dir : Inside(wad.dir[i], wad.total)
  /\ \A i, j \in DOMAIN wad.dir : i # j => Apart(wad.dir[i], wad.dir[j])

(* From a marker on: the wanted lump, a marker that comes early, a wanted    *)
(* lump at most two further on, or one that is missing.                      *)
RECURSIVE Follow(_, _, _, _, _)
Follow(ls, j, k, entries, partial) ==
  IF k > Len(MAP_ORDER) \/ j > Len(ls)
  THEN [entries |-> entries, partial |-> partial \/ k <= Len(MAP_ORDER), end |-> j]
  ELSE IF ls[j].name = MAP_ORDER[k]
  THEN Follow(ls, j + 1, k + 1, entries \cup {<<MAP_ORDER[k], j>>}, partial)
  ELSE IF isMapMarker(ls[j].name)
  THEN [entries |-> entries, partial |-> TRUE, end |-> j]
  ELSE IF \E i \in j..Min({j + 2, Len(ls)}) : ls[i].name = MAP_ORDER[k]
  THEN Follow(ls, Min({i \in j..Min({j + 2, Len(ls)}) : ls[i].name = MAP_ORDER[k]}),
              k, entries, partial)
  ELSE Follow(ls, j, k + 1, entries, TRUE)
(* BEHAVIOR may stand behind a whole map, unless another marker came first.  *)
Found(ls, i, f) ==
  IF f.end <= Len(ls) /\ ls[f.end].name = "BEHAVIOR"
  THEN [map |-> ls[i].name, index |-> i, partial |-> f.partial, end |-> f.end + 1,
        entries |-> f.entries \cup {<<"BEHAVIOR", f.end>>}]
  ELSE [map |-> ls[i].name, index |-> i, partial |-> f.partial, end |-> f.end,
        entries |-> f.entries]
FoundAt(ls, starts) ==
  <<>> \o [s \in DOMAIN starts |->
             Found(ls, starts[s], Follow(ls, starts[s] + 1, 1, {}, FALSE))]
discoverMaps(ls) ==
  FoundAt(ls, SelectSeq([i \in DOMAIN ls |-> i], LAMBDA i : isMapMarker(ls[i].name)))

(* Shareware has nothing beyond its first episode; the map list then shows   *)
(* no more.                                                                  *)
sharewareLikely(ls) == \A m \in Range(discoverMaps(ls)) : m.map \in Doom1 \ {"E2M1"}
KindOf(names) ==
  IF names \cap Doom1 = {} THEN IF names = {} THEN "unknown" ELSE "doom2"
  ELSE IF names \cap Doom2 = {} THEN "doom1" ELSE "mixed"
identifyWad(ls) == KindOf({m.map : m \in Range(discoverMaps(ls))})
mapPassesClamp(name, ls) ==
  ~(sharewareLikely(ls) /\ identifyWad(ls) = "doom1") \/ name \in Doom1 \ {"E2M1"}

----------------------------------------------------------------------------
(* Groups of a map and single lumps; a lump inside a group goes with it.     *)
Segment(ls, maps, acc, i) ==
  IF i < acc.next THEN acc
  ELSE IF \E m \in Range(maps) : m.index = i
  THEN [next |-> Min({m.end : m \in {x \in Range(maps) : x.index = i}}),
        segs |-> Append(acc.segs,
          [kind |-> "map", key |-> ls[i].name,
           lumps |-> SubSeq(ls, i, Min({m.end : m \in {x \in Range(maps) : x.index = i}}) - 1)])]
  ELSE IF \E x \in Range(maps) : x.index <= i /\ i < x.end
  THEN [acc EXCEPT !.next = i + 1]
  ELSE [next |-> i + 1,
        segs |-> Append(acc.segs, [kind |-> "single", key |-> ls[i].name, lumps |-> <<ls[i]>>])]
SegmentsOf(ls, maps) ==
  FoldLeft(LAMBDA acc, i : Segment(ls, maps, acc, i), [next |-> 1, segs |-> <<>>],
           [i \in DOMAIN ls |-> i]).segs
segmentDirectory(ls) == SegmentsOf(ls, discoverMaps(ls))
(* A later segment takes the place of the earlier one of its name.           *)
PlaceAt(order, seg, same) ==
  IF same = {} THEN Append(order, seg) ELSE [order EXCEPT ![Min(same)] = seg]
Place(order, seg) ==
  PlaceAt(order, seg, {i \in DOMAIN order : order[i].kind = seg.kind /\ order[i].key = seg.key})
LumpsOf(segs) == FlattenSeq(<<>> \o [i \in DOMAIN segs |-> segs[i].lumps])
SegmentsIn(files) ==
  FlattenSeq(<<>> \o [i \in DOMAIN files |-> segmentDirectory(files[i].wad.dir)])
LoadoutOf(files, valid) ==
  [rejected |-> {f.name : f \in Range(files) \ Range(valid)},
   merged |-> LumpsOf(FoldLeft(Place, <<>>, SegmentsIn(valid)))]
(* files is a load order of [name, wad].                                     *)
buildLoadout(files) == LoadoutOf(files, SelectSeq(files, LAMBDA f : parseWadDirectory(f.wad)))
(* Payloads one after the other, the directory behind them.                  *)
Lay(acc, l) ==
  [at |-> acc.at + l.size,
   dir |-> Append(acc.dir, [l EXCEPT !.pos = IF l.size = 0 THEN 0 ELSE acc.at])]
Laid(laid, magic) ==
  [magic |-> magic, ofs |-> laid.at, total |-> laid.at + Entry * Len(laid.dir), dir |-> laid.dir]
assembleWad(merged, magic) == Laid(FoldLeft(Lay, [at |-> Header, dir |-> <<>>], merged), magic)

----------------------------------------------------------------------------
(* A lump decodes; vertexes and lines may not be empty.                      *)
Decodes(name, l) == l.n # Torn /\ (name \in {"LINEDEFS", "VERTEXES"} => l.n > 0)
(* No line asks for a vertex there is not.                                   *)
resolveRefs(lines, vertexes) == lines.n <= vertexes.n
Geometry(lump) ==
  /\ \A name \in REQUIRED_MAP_LUMPS : lump[name] # Null /\ Decodes(name, lump[name])
  /\ resolveRefs(lump["LINEDEFS"], lump["VERTEXES"])
detectHexen(m) == \E e \in m.entries : e[1] = "BEHAVIOR"
Own(ls, m) ==
  [name \in REQUIRED_MAP_LUMPS |->
     IF \E e \in m.entries : e[1] = name
     THEN ls[(CHOOSE e \in m.entries : e[1] = name)[2]] ELSE Null]
(* The probe looks for a lump the map lacks in the whole directory.          *)
LastLump(ls, all) == IF all = {} THEN Null ELSE ls[Max(all)]
OwnOrAny(ls, own) ==
  [name \in REQUIRED_MAP_LUMPS |->
     IF own[name] # Null THEN own[name]
     ELSE LastLump(ls, {i \in DOMAIN ls : ls[i].name = name})]
Names(maps) == <<>> \o [i \in DOMAIN maps |-> maps[i].map]
(* The maps that are viable; the others are dropped.                         *)
probeMaps(ls) ==
  Names(SelectSeq(discoverMaps(ls),
                  LAMBDA m : ~detectHexen(m) /\ Geometry(OwnOrAny(ls, Own(ls, m)))))

(* The map asked for, or the first; an engine or Null for the error thrown.  *)
Asked(maps, map) ==
  maps[IF \E i \in DOMAIN maps : maps[i].map = map
       THEN Min({i \in DOMAIN maps : maps[i].map = map}) ELSE 1]
EngineOn(wad, m) ==
  IF detectHexen(m) \/ ~Geometry(Own(wad.dir, m)) THEN Null ELSE [map |-> m.map, wad |-> wad]
EngineOf(wad, maps, map) == IF maps = <<>> THEN Null ELSE EngineOn(wad, Asked(maps, map))
initEngine(wad, map) ==
  IF parseWadDirectory(wad) THEN EngineOf(wad, discoverMaps(wad.dir), map) ELSE Null

----------------------------------------------------------------------------
(* What a load order means: of each map the group of the last file that has *)
(* it, of each other lump the last one.                                     *)
MapsOf(ls) == Range(discoverMaps(ls))
MapNames(ls) == {m.map : m \in MapsOf(ls)}
Whole(ls) == \A m \in MapsOf(ls) : ~m.partial
Payloads(ls, m) == [name \in REQUIRED_MAP_LUMPS |-> Own(ls, m)[name].n]
Group(ls, map) == {Payloads(ls, m) : m \in {x \in MapsOf(ls) : x.map = map}}
Loose(ls) ==
  {<<s.key, s.lumps[1].n>> : s \in {x \in Range(segmentDirectory(ls)) : x.kind = "single"}}
LastWith(files, ofFile) == files[Max({i \in DOMAIN files : ofFile[i]})].wad.dir
LastWins(files, wad) ==
  /\ MapNames(wad.dir) = UNION {MapNames(f.wad.dir) : f \in Range(files)}
  /\ \A map \in MapNames(wad.dir) :
       Group(wad.dir, map)
         = Group(LastWith(files, [i \in DOMAIN files |-> map \in MapNames(files[i].wad.dir)]), map)
  /\ \A x \in UNION {Loose(f.wad.dir) : f \in Range(files)} :
       \E y \in Loose(LastWith(files,
                  [i \in DOMAIN files |-> x[1] \in {z[1] : z \in Loose(files[i].wad.dir)}])) :
         y[1] = x[1] /\ y \in Loose(wad.dir)
================================================================================
