--------------------------------- MODULE MCApps ---------------------------------
(***************************************************************************)
(* The browser programs beside torshim and umbra, each on its own: a        *)
(* behaviour picks a setting and keeps it.  The variables s1 to s8 hold the *)
(* state of the setting's module; those it has no use for stay at Off.      *)
(***************************************************************************)
EXTENDS Integers, Sequences, FiniteSets, TLC

CONSTANTS Null, Bad,
          Settings  \* the settings of a run

VARIABLES setting, s1, s2, s3, s4, s5, s6, s7, s8

vars == <<setting, s1, s2, s3, s4, s5, s6, s7, s8>>

Off == "off"
No8 == s8 = Off
No7 == s7 = Off /\ No8
No6 == s6 = Off /\ No7
No5 == s5 = Off /\ No6
No4 == s4 = Off /\ No5
Rest8 == <<s8>>
Rest4 == <<s4, s5, s6, s7, s8>>
Rest5 == <<s5, s6, s7, s8>>
Rest6 == <<s6, s7, s8>>
Rest7 == <<s7, s8>>

----------------------------------------------------------------------------
(* Tabula: numbers, cells that count on from others, a sum over two; and    *)
(* two rows with the autosave beside the edits.                             *)
At(r) == [r |-> r, abs |-> FALSE]
Formula(body) == [k |-> "formula", body |-> body]
Plus(r) == Formula([op |-> "inc", lo |-> At(r)])
SumOf(r, q) == Formula([op |-> "sum", lo |-> At(r), hi |-> At(q)])
Typed(n) == [k |-> "num", v |-> n]
SheetTexts == {Typed(5), Plus(0), Plus(2), SumOf(0, 1)}
SheetSample == (0 :> Typed(1)) @@ (1 :> Plus(0)) @@ (2 :> SumOf(0, 1))
Sheet == INSTANCE TabulaSheet WITH
  Rows <- 4, Texts <- SheetTexts, Sample <- SheetSample, UndoMax <- 1,
  MaxEdits <- 2, MaxSaves <- 0,
  heap <- s1, cells <- s2, values <- s3, undo <- s4, shown <- s5, clip <- s6,
  store <- s7, edits <- s8
Saves == INSTANCE TabulaSheet WITH
  Rows <- 2, Texts <- {Typed(5), Plus(0)}, Sample <- (0 :> Typed(1)), UndoMax <- 1,
  MaxEdits <- 2, MaxSaves <- 2,
  heap <- s1, cells <- s2, values <- s3, undo <- s4, shown <- s5, clip <- s6,
  store <- s7, edits <- s8

(* Halcyon: seventeen programs plain and optimized, sources to print and read *)
(* back, graphs of imports.                                                 *)
H == INSTANCE HalcyonSamples
Vm == INSTANCE HalcyonVm WITH
  Programs <- H!Programs, Joined <- {"joint"}, Arity <- H!Arity, Schemes <- H!Schemes,
  job <- s1, stack <- s2, frames <- s3, ctxs <- s4, result <- s5
Syntax == INSTANCE HalcyonParse WITH
  Sources <- H!Sources, UserOps <- H!UserOps,
  source <- s1, tokens <- s2, program <- s3
Imports == INSTANCE HalcyonModules WITH
  Files <- {"a", "b", "p"}, Prelude <- "p", Main <- "m",
  Graphs <- H!Graphs, Defines <- H!Defines,
  imports <- s1, work <- s2, completed <- s3, pre <- s4, merged <- s5, verdict <- s6

(* Meridian: four documents over four words.                                *)
Car == <<"c", "a", "r">>
Cat == <<"c", "a", "t">>
Coat == <<"c", "o", "a", "t">>
Dog == <<"d", "o", "g">>
Tok(k, w, n) == [k |-> k, w |-> w, n |-> n]
Search == INSTANCE Meridian WITH
  Vocab <- <<Car, Cat, Coat, Dog>>,
  Docs <- <<<<Car, Cat, Car>>, <<Cat, Dog, Coat, Car>>, <<Dog, Dog, Cat>>, <<Coat>>>>,
  Tokens <- {Tok("term", Car, 0), Tok("term", Dog, 0), Tok("term", <<"c", "o", "t">>, 0),
             Tok("fuzzy", Cat, 1), Tok("wildcard", <<"?", "*", "a", "*">>, 0),
             Tok("phrase", <<Cat, Car>>, 0), Tok("phrase", <<Dog, Car>>, 1),
             Tok("and", <<>>, 0), Tok("or", <<>>, 0), Tok("not", <<>>, 0),
             Tok("(", <<>>, 0), Tok(")", <<>>, 0), Tok("boost", <<>>, 0)},
  MaxToks <- 3,
  toks <- s1, answer <- s2, index <- s3

(* Its reading of text: queries by character and by token; documents.       *)
Word(k, w, n) == [k |-> k, w |-> w, n |-> n]
Read(chars, tokens, most, terms) == [chars |-> chars, tokens |-> tokens, most |-> most, terms |-> terms]
Text == INSTANCE MeridianText WITH
  SnippetMin <- 3, SnippetLen <- 5,
  Uses <- {Read({"a", "'", "*", "~", "1", " "}, {}, 4, {}),
           Read({"a", "\"", "~", "2", "0", " "}, {}, 4, {}),
           Read({"A", "^", "0", "1", ".", "(", "?"}, {}, 4, {}),
           Read({"a", "e2", "'", " "}, {}, 6, {<<"a">>, <<"e2">>, <<"a", "'", "e2">>}),
           Read({"a", "cjk", "smile", " "}, {}, 5, {<<"a">>, <<"cjk">>}),
           Read({}, {Word("term", <<"a">>, 0), Word("fuzzy", <<"a", "b">>, 2),
                     Word("wildcard", <<"?", "*">>, 0), Word("phrase", <<<<"b">>, <<"a">>>>, 9),
                     Word("title:term", <<"a">>, 0), Word("title:wildcard", <<"*">>, 0),
                     Word("title:fuzzy", <<"b">>, 1), Word("boost", <<>>, 0), Word("and", <<"a", "n", "d">>, 0),
                     Word("or", <<"o", "r">>, 0), Word("not", <<"n", "o", "t">>, 0), Word("(", <<>>, 0),
                     Word(")", <<>>, 0)}, 3, {})},
  made <- s1, text <- s2, seen <- s3

(* Its page: a long answer, a short one, a misspelt word, one that is bad.   *)
Asking(word, hits, stemmed, near) ==
  <<word>> :> [parses |-> hits # <<0>>, hits |-> hits, stemmed |-> stemmed, near |-> near]
Page(offers, most, failures) == [offers |-> offers, most |-> most, failures |-> failures]
Finder == INSTANCE MeridianPage WITH
  Queries <- Asking(Car, <<1, 2, 3, 4, 5, 6, 7>>, <<1>>, <<>>) @@ Asking(Cat, <<2, 3>>, <<2, 3>>, <<>>)
             @@ Asking(Dog, <<>>, <<1>>, <<<<Cat>>>>) @@ Asking(<<"'">>, <<0>>, <<0>>, <<>>),
  Terms <- <<[word |-> Car, df |-> 5], [word |-> Cat, df |-> 2], [word |-> Coat, df |-> 1]>>,
  Documents <- 1..7, pageSize <- 2,
  Uses <- {Page({"search", "turn"}, 4, FALSE), Page({"type", "search"}, 3, FALSE),
           Page({"search", "open"}, 3, TRUE), Page({"search", "toggle", "turn"}, 3, FALSE)},
  page <- s1, docCache <- s2, fetches <- s3, made <- s4

(* Maze-chase: pause and mute may be bound anew.                             *)
Maze == INSTANCE MazePage WITH
  Bindable <- {"pause", "mute"}, Keys <- {"p", "m", "esc", "space"}, MaxInputs <- 5,
  session <- s1, page <- s2, audio <- s3, stored <- s4, inputs <- s5

(* Netpulse: what may be asked of the page, group by group.                 *)
Asked(offers, most) == [offers |-> offers, most |-> most]
Pulse == INSTANCE NetpulsePage WITH
  Attempts <- 2, HistoryMax <- 1, MaxEvents <- 2, LogMax <- 1, KeptMax <- 2, RowsMax <- 3,
  BufferMax <- 2,
  Uses <- {Asked({"latency", "upload", "clear"}, 4), Asked({"dns", "compare", "identity"}, 4),
           Asked({"latency", "webrtc", "network"}, 4), Asked({"download", "log", "traffic"}, 5)},
  data <- s1, stored <- s2, jobs <- s3, page <- s4, traffic <- s5, inputs <- s6

(* Folio: tools and their undo, plans for documents of several sizes,       *)
(* annotations, sheets and forms, turning pages while a document opens,     *)
(* the bookmark tree.                                                       *)
FD == INSTANCE FolioDoc
Pages(n) == FD!DocOf([i \in 1..n |-> i])
Used(offers, most) == [docs |-> {Pages(3)}, offers |-> offers, most |-> most]
Folio == INSTANCE FolioShell WITH
  Other <- FD!DocOf(<<8, 9>>), UndoMax <- 3, ChainMax <- 4, GridMax <- 4, TreeMax <- 4,
  Uses <- {[docs |-> {Pages(n) : n \in 1..6}, offers |-> {"pages"}, most |-> 1],
           Used({"grid", "undo"}, 5), Used({"marks", "turn"}, 3), Used({"sheets", "forms"}, 3),
           Used({"turn", "crop", "open", "grid"}, 4), Used({"tree"}, 6), Used({"rows", "grid"}, 4)},
  work <- s1, view <- s2, ui <- s3, tree <- s4, job <- s5, inputs <- s6

(* Doom: files staged and removed, with a torn, a partial and a Hexen one;   *)
(* handlers that overlap; map list, renderer, pause and music.  Saves on     *)
(* each provider.  Playing: keys, mouse and touch, remapping, sounds.        *)
W == INSTANCE DoomWad
L(name, n) == [name |-> name, size |-> IF n = 0 THEN 0 ELSE 4, n |-> n, pos |-> 0]
LevelOf(map, lines, vertexes) ==
  <<L(map, 0), L("THINGS", 1), L("LINEDEFS", lines), L("VERTEXES", vertexes), L("NODES", 1)>>
File(name, magic, lumps) == [name |-> name, wad |-> W!assembleWad(lumps, magic)]
DoomFiles ==
  {File("base", "IWAD", LevelOf("E1M1", 2, 3) \o LevelOf("E1M2", 3, 2)
                        \o <<L("D_E1M1", 1), L("PLAYPAL", 1)>>),
   File("patch", "PWAD", <<L("PLAYPAL", 2)>> \o LevelOf("E1M2", 4, 4) \o LevelOf("E2M1", 2, 2)
                         \o <<L("D_E2M1", 1)>>),
   File("part", "PWAD", <<L("E1M1", 0), L("THINGS", 2)>>),
   File("hexen", "PWAD", LevelOf("E1M1", 5, 5) \o <<L("BEHAVIOR", 1)>>),
   File("torn", "PWAD", LevelOf("MAP01", W!Torn, 3)),
   [File("none", "PWAD", LevelOf("MAP01", 1, 1)) EXCEPT !.wad.total = 50]}
Staged(names, offers, most, busy) ==
  [names |-> names, offers |-> offers, most |-> most, jobs |-> busy]
Shell == INSTANCE DoomShell WITH
  Files <- DoomFiles, Demo <- W!assembleWad(LevelOf("E1M1", 1, 1) \o LevelOf("E1M2", 1, 1), "IWAD"),
  Uses <- {Staged({"base", "patch", "part"}, {"ingest", "remove"}, 3, 1),
           Staged({"base", "hexen", "torn", "none"}, {"ingest"}, 2, 1),
           Staged({"base"}, {"ingest", "remove", "sample", "reload", "slot"}, 3, 2),
           Staged({"base"}, {"ingest", "tier", "map"}, 2, 2),
           Staged({"base"}, {"ingest", "pause", "resume", "key", "hide", "audio"}, 3, 1)},
  page <- s1, kept <- s2, jobs <- s3, inputs <- s4
Kept(opfs, idb, local, offers, most) ==
  [ladder |-> [opfs |-> opfs, idb |-> idb, local |-> local], offers |-> offers, most |-> most,
   bundles |-> {LET settings == [config |-> 9, bindings |-> 9, progression |-> 2]
                IN  IF "volume" \in offers THEN settings ELSE settings @@ [data |-> 2]}]
Slots == INSTANCE DoomSaves WITH
  Uses <- {Kept("ok", "ok", "ok", {"volume", "remap", "reload"}, 2),
           Kept("ok", "ok", "ok", {"slot"}, 2),
           Kept("hang", "ok", "ok", {"import", "volume"}, 2),
           Kept("hang", "ok", "ok", {"slot", "map", "reload"}, 3),
           Kept("absent", "throw", "ok", {"import"}, 1),
           Kept("throw", "absent", "absent", {"slot", "remap", "reload"}, 2)},
  tier <- s1, disk <- s2, tmp <- s3, live <- s4, ops <- s5, past <- s6, use <- s7
Played(offers, most) == [offers |-> offers, most |-> most]
Play == INSTANCE DoomPlay WITH
  Actions <- <<"forward", "fire", "use">>,
  defaultBindings <- [forward |-> <<"w", "up">>, fire |-> <<"space">>, use |-> <<"f">>],
  SFX_VOICES <- 2, SoundFrames <- 2,
  Uses <- {Played({"keys", "blur", "frame"}, 4), Played({"mouse", "touch", "frame", "pause"}, 4),
           Played({"remap", "reset", "keys"}, 4), Played({"touch", "audio", "frame"}, 6),
           Played({"video"}, 3)},
  hand <- s1, pad <- s2, game <- s3, remap <- s4, video <- s5, made <- s6

(* Film and mythduel: two shots or beats, a trailer of two cuts, one that is *)
(* refused; thunderline: two stems.                                         *)
Caption(t, dur) == [t |-> t, dur |-> dur]
FilmLine(voice, bpn, to) == [voice |-> voice, bpn |-> bpn, to |-> to]
FilmShots ==
  <<[dur |-> 4, wind |-> 1, captions |-> <<Caption(0, 3), Caption(2, 2)>>,
     lines |-> <<FilmLine("woodwind", 2, 3), FilmLine("shaker", 1, 3)>>],
    [dur |-> 6, wind |-> 2, captions |-> <<Caption(2, 2)>>,
     lines |-> <<FilmLine("cello", 4, 3), FilmLine("bells", 8, 3), FilmLine("pad", 8, 3),
                 FilmLine("strings", 2, 3)>>]>>
Sequel(shot, in, dur) == [shot |-> shot, in |-> in, dur |-> dur]
Session(offers, most) == [offers |-> offers, most |-> most, damaged |-> {}, audio |-> TRUE]
Film == INSTANCE FilmPlayer WITH
  Shots <- FilmShots, Acts <- <<[start |-> 0, dur |-> 4], [start |-> 4, dur |-> 6]>>,
  Trailers <- {<<Sequel(2, 2, 4), Sequel(1, 0, 2)>>, <<Sequel(2, 4, 4)>>},
  Deltas <- {1, 3}, Skip <- 4,
  Uses <- {Session({"play", "mode", "card"}, 3), Session({"play", "seek"}, 3),
           Session({"play", "look"}, 3), Session({"sound", "play"}, 3),
           [Session({"play", "seek"}, 3) EXCEPT !.damaged = {2}],
           [Session({"play", "card"}, 2) EXCEPT !.audio = FALSE]},
  show <- s1, perf <- s2, made <- s3
DuelBeat(dur, captions, motif, cue, hot, total) ==
  [dur |-> dur, captions |-> captions, motif |-> motif, cue |-> cue, hot |-> hot, total |-> total]
Cut(beat, tIn, tOut) == [beat |-> beat, tIn |-> tIn, tOut |-> tOut]
Staged2(offers, most, reduced, audio) ==
  [offers |-> offers, most |-> most, reduced |-> reduced, audio |-> audio]
Duel == INSTANCE DuelPlayer WITH
  Beats <- <<DuelBeat(2, <<>>, "thor-row", "terms", FALSE, 3),
             DuelBeat(4, <<Caption(0, 2)>>, "zeus-row", "ranging", FALSE, 9),
             DuelBeat(2, <<Caption(0, 1)>>, "thor-row", "body-blows", TRUE, 4),
             DuelBeat(2, <<>>, "clash-ostinato", "thrown-sky", TRUE, 2),
             DuelBeat(4, <<Caption(1, 2), Caption(2, 2)>>, "resolution-hymn", "storm-answers", TRUE, 5)>>,
  RowLen <- [m \in {"thor-row", "zeus-row", "clash-ostinato", "resolution-hymn"} |-> 8],
  Trailers <- {<<Cut(2, 3, 6), Cut(5, 11, 14)>>, <<Cut(5, 10, 14), Cut(2, 2, 6)>>, <<Cut(1, 0, 2)>>},
  TRAILER_MIN <- 6, TRAILER_MAX <- 8, Deltas <- {1, 3},
  Uses <- {Staged2({"play", "mode", "card"}, 3, FALSE, TRUE), Staged2({"play", "seek", "look"}, 2, FALSE, TRUE),
           Staged2({"play", "sound"}, 3, FALSE, TRUE), Staged2({"play", "seek"}, 2, TRUE, TRUE),
           Staged2({"play", "mode"}, 2, FALSE, FALSE)},
  stage <- s1, perf <- s2, made <- s3
Stems == INSTANCE StemPlayer WITH
  STEMS <- {"vocals", "drums"}, StemTimes <- [vocals |-> 8, drums |-> 7], MasterTime <- 9,
  lyrics <- <<[startSec |-> 1, endSec |-> 2], [startSec |-> 3, endSec |-> 4]>>, LineHold <- 1,
  form <- <<0, 2, 5>>, Widths <- {0, 2, 6}, Deltas <- {1, 2}, Seeks <- {0, 4, 7},
  Uses <- {[offers |-> {"play", "seek"}, most |-> 4, selftest |-> FALSE],
           [offers |-> {"play", "mix", "size"}, most |-> 4, selftest |-> TRUE]},
  song <- s1, graph <- s2, page <- s3, made <- s4

(* Redline Rush: a run on its own, steering, screens, sizes of the window.  *)
Run(offers, most, ticks) ==
  [offers |-> offers, most |-> most, ticks |-> ticks, storage |-> "ok", audio |-> TRUE,
   disks |-> {[best |-> -1, muted |-> "none"]}]
Rush == INSTANCE RushGame WITH
  Worlds <- {[roadWidth |-> 12, height |-> 8, row |-> 4, w |-> 2, h |-> 3, near |-> 2],
             [roadWidth |-> 18, height |-> 10, row |-> 5, w |-> 3, h |-> 4, near |-> 3]},
  Drivers <- {[factor |-> 1, behind |-> 0], [factor |-> 3, behind |-> 1]},
  Uses <- {Run({"run"}, 1, 7), Run({"run", "keys"}, 2, 3), Run({"run", "pads", "drag"}, 4, 1),
           Run({"run", "resize", "keys"}, 2, 3),
           [Run({"run", "pause", "blur", "mute", "reload"}, 4, 2) EXCEPT
              !.disks = {[best |-> b, muted |-> m] : b \in {-1, 1}, m \in {"none", "1", "0"}}],
           [Run({"run", "mute", "pause"}, 3, 1) EXCEPT !.storage = "throws", !.audio = FALSE]},
  game <- s1, desk <- s2, hand <- s3, made <- s4

----------------------------------------------------------------------------
Everything ==
  {"sheet", "saves", "vm", "syntax", "imports", "search", "text", "page", "maze", "netpulse",
   "folio", "shell", "slots", "play", "film", "duel", "stems", "rush"}
ASSUME Settings \subseteq Everything
ASSUME Vm!JoinedAssumption

Initially ==
  \/ setting = "sheet" /\ Sheet!Init
  \/ setting = "saves" /\ Saves!Init
  \/ setting = "vm" /\ Vm!Init /\ No6
  \/ setting = "syntax" /\ Syntax!Init /\ No4
  \/ setting = "imports" /\ Imports!Init /\ No7
  \/ setting = "search" /\ Search!Init /\ No4
  \/ setting = "text" /\ Text!Init /\ No4
  \/ setting = "page" /\ Finder!Init /\ No5
  \/ setting = "maze" /\ Maze!Init /\ No6
  \/ setting = "netpulse" /\ Pulse!Init /\ No7
  \/ setting = "folio" /\ Folio!Init /\ No7
  \/ setting = "shell" /\ Shell!Init /\ No5
  \/ setting = "slots" /\ Slots!Init /\ No8
  \/ setting = "play" /\ Play!Init /\ No7
  \/ setting = "film" /\ Film!Init /\ No4
  \/ setting = "duel" /\ Duel!Init /\ No4
  \/ setting = "stems" /\ Stems!Init /\ No5
  \/ setting = "rush" /\ Rush!Init /\ No5
Init == setting \in Settings /\ Initially

Next ==
  /\ \/ setting = "sheet" /\ Sheet!Next
     \/ setting = "saves" /\ Saves!Next
     \/ setting = "vm" /\ Vm!Next /\ UNCHANGED Rest6
     \/ setting = "syntax" /\ Syntax!Next /\ UNCHANGED Rest4
     \/ setting = "imports" /\ Imports!Next /\ UNCHANGED Rest7
     \/ setting = "search" /\ Search!Next /\ UNCHANGED Rest4
     \/ setting = "text" /\ Text!Next /\ UNCHANGED Rest4
     \/ setting = "page" /\ Finder!Next /\ UNCHANGED Rest5
     \/ setting = "maze" /\ Maze!Next /\ UNCHANGED Rest6
     \/ setting = "netpulse" /\ Pulse!Next /\ UNCHANGED Rest7
     \/ setting = "folio" /\ Folio!Next /\ UNCHANGED Rest7
     \/ setting = "shell" /\ Shell!Next /\ UNCHANGED Rest5
     \/ setting = "slots" /\ Slots!Next /\ UNCHANGED s8
     \/ setting = "play" /\ Play!Next /\ UNCHANGED Rest7
     \/ setting = "film" /\ Film!Next /\ UNCHANGED Rest4
     \/ setting = "duel" /\ Duel!Next /\ UNCHANGED Rest4
     \/ setting = "stems" /\ Stems!Next /\ UNCHANGED Rest5
     \/ setting = "rush" /\ Rush!Next /\ UNCHANGED Rest5
  /\ UNCHANGED setting

(* A program that can go on does: the machine's steps and the resolver's.   *)
RunVm == setting = "vm" /\ Vm!Next /\ UNCHANGED Rest6 /\ UNCHANGED setting
Resolve == setting = "imports" /\ Imports!Next /\ UNCHANGED Rest7 /\ UNCHANGED setting
Spec == Init /\ [][Next]_vars /\ WF_vars(RunVm) /\ WF_vars(Resolve)

----------------------------------------------------------------------------
(* The type invariants of the settings.                                     *)
TypeOK ==
  /\ setting = "sheet" => Sheet!TypeOK
  /\ setting = "saves" => Saves!TypeOK
  /\ setting = "vm" => Vm!TypeOK
  /\ setting = "syntax" => Syntax!TypeOK
  /\ setting = "imports" => Imports!TypeOK
  /\ setting = "search" => Search!TypeOK
  /\ setting = "text" => Text!TypeOK
  /\ setting = "page" => Finder!TypeOK
  /\ setting = "maze" => Maze!TypeOK
  /\ setting = "netpulse" => Pulse!TypeOK
  /\ setting = "folio" => Folio!TypeOK
  /\ setting = "shell" => Shell!TypeOK
  /\ setting = "slots" => Slots!TypeOK
  /\ setting = "play" => Play!TypeOK
  /\ setting = "film" => Film!TypeOK
  /\ setting = "duel" => Duel!TypeOK
  /\ setting = "stems" => Stems!TypeOK
  /\ setting = "rush" => Rush!TypeOK
(* A translation keeps what was meant: a formula copied and read again, a   *)
(* program compiled and optimized (unless a jump lands inside what is       *)
(* folded, see FoldsKeepMeaning), a source printed and parsed, modules put  *)
(* in one row, a query answered from the index, pages put in another order,  *)
(* files staged in one load order.                                          *)
MeaningKept ==
  /\ setting = "sheet" => Sheet!CopiesMeanTheSame
  /\ setting = "vm" => Vm!AgreesUnlessJumpedInto /\ Vm!FramesBalance /\ Vm!TypeIsKept
  /\ setting = "syntax" => Syntax!ParsesBack
  /\ setting = "imports" => Imports!ImportsFirst /\ Imports!CyclesAreFound
  /\ setting = "search" =>
       Search!AnswersQuery /\ Search!DistanceIsLeast /\ Search!SuggestsNearest
  /\ setting = "text" => Text!QueriesAreRead /\ Text!SnippetsAreTrue
  /\ setting = "folio" =>
       Folio!ChainExplainsFile /\ Folio!ToolsAreSound /\ Folio!PartsCover
       /\ Folio!RowsAreTree
  /\ setting = "shell" => Shell!LoadOrderMeans
  /\ setting = "film" => Film!PhrasesAreWhole
  /\ setting = "duel" => Duel!LiveIsOffline
(* What is derived follows what it is derived from: the values of a sheet   *)
(* and what is painted of them; the page of a game and the session behind;   *)
(* what plays and what is staged.                                           *)
DerivedIsFresh ==
  /\ setting \in {"sheet"} => Sheet!ValuesSolveSheet /\ Sheet!PaintedIsCurrent
  /\ setting = "saves" => Saves!ValuesSolveSheet /\ Saves!PaintedIsCurrent
  /\ setting = "page" => Finder!ResultsAreFilled /\ Finder!PagesAreInRange
  /\ setting = "maze" =>
       Maze!CaptureIsShown /\ Maze!KeysArePartitioned /\ Maze!MusicFollowsSession
       /\ Maze!QuietWhenMuted
  /\ setting = "netpulse" =>
       Pulse!PanelsFollowStore /\ Pulse!BannerTellsOffline /\ Pulse!RowsAreDistinct
  /\ setting = "folio" => Folio!ShownIsFile /\ Folio!CropOnItsPixels
  /\ setting = "shell" => Shell!PlaysWhatIsStaged
  /\ setting = "play" => Play!UsedOnce /\ Play!KeysAreShown /\ Play!SaverIsKept
  /\ setting = "film" => Film!PageShowsClock /\ Film!CardAtEnd
  /\ setting = "duel" => Duel!PageShowsClock /\ Duel!CardAtEnd
  /\ setting = "stems" => Stems!PageShowsSong
  /\ setting = "rush" => Rush!RunsAreAlive
(* What is stored is what there is, once all timers and writes are through  *)
(* (of a sheet, the texts typed, where no write overtook another).          *)
SavedIsCurrent ==
  /\ setting = "saves" => Saves!SettledIsSaved
  /\ setting = "maze" => Maze!ScoresAreStored
  /\ setting = "netpulse" => Pulse!StoredIsSession
  /\ setting = "slots" =>
       Slots!SettingsAreSaved /\ Slots!SlotIsOneSave /\ Slots!RefusedChangesNothing
       /\ Slots!SavedSlotLoads
  /\ setting = "rush" => Rush!StoredIsPage
(* Who waits for an answer waits for one: nothing is asked twice at a time.  *)
(* One loop runs a game, one sound follows one shot, one key one finger.     *)
OneAtATime ==
  /\ setting = "netpulse" => Pulse!OneAtATime
  /\ setting = "shell" => Shell!OneLoop
  /\ setting = "play" => Play!ShotsSound /\ Play!NoKeySticks
  /\ setting = "film" => Film!MusicFollowsPlay
  /\ setting = "duel" => Duel!MusicFollowsPlay
  /\ setting = "stems" => Stems!SourcesInStep
  /\ setting = "rush" => Rush!EngineFollowsRun
(* An inserted row moves the values of a sheet and changes none, a deleted  *)
(* one changes only what depended on it; moved bookmarks are all there.     *)
EditsMoveValues ==
  [][/\ setting = "sheet" => Sheet!MovesValues
     /\ setting = "folio" => Folio!KeepsBookmarks
     /\ setting = "rush" => Rush!BestOnlyRises]_vars
(* The rewrites of Halcyon's optimizer preserve the meaning of every program *)
(* (halcyon.js:4493), also where a jump lands inside a folded run.          *)
FoldsKeepMeaning == setting = "vm" => Vm!AgreesWithInterpreter
(* Saving a workbook and loading it preserves its values                    *)
(* (ideas/2026-09-03-tabula-spreadsheet-engine.md:89), also of the formulas *)
(* that an inserted or deleted row has moved.                               *)
SaveLoadPreserves == setting = "sheet" => Sheet!SaveLoadPreserves
(* What was started ends: a program, and the resolution of its imports.     *)
WorkEnds ==
  <>CASE setting = "vm" -> Vm!Ended
      [] setting = "imports" -> Imports!Ended
      [] OTHER -> TRUE
================================================================================
