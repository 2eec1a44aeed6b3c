------------------------------ MODULE StemPlayer ------------------------------
(***************************************************************************)
(* thunderline: the page that plays a song from four stems, or from its      *)
(* master when a stem is missing, and shows lyric, section and playhead.     *)
(* Time is in steps of 0.05 s, the slack the player has at the end.          *)
(***************************************************************************)
EXTENDS Integers, Sequences, SequencesExt, FiniteSets, FiniteSetsExt

CONSTANTS
  STEMS,
  StemTimes,    \* how long each stem is
  MasterTime,   \* how long the master is
  lyrics,       \* <<[startSec, endSec], ...>>
  LineHold,     \* how long a line stays lit
  form,         \* where each section begins
  Widths,       \* widths of the overview, 0 for hidden
  Deltas,       \* time from one frame to the next
  Seeks,        \* where the listener seeks to
  Uses          \* [offers, most, selftest]

VARIABLES
  song,   \* what was loaded, and the transport
  graph,  \* the audio graph: where each source is, gains
  page,   \* what is shown
  made    \* inputs made, of which session

stemVars == <<song, graph, page, made>>

----------------------------------------------------------------------------
(* Lines are lit from their start until a while after their end.            *)
findLine(t) ==
  LET begun == {i \in DOMAIN lyrics : lyrics[i].startSec <= t}
  IN  IF begun = {} \/ t > lyrics[Max(begun)].endSec + LineHold THEN 0 ELSE Max(begun)
sectionAt(t) == Max({1} \cup {i \in DOMAIN form : form[i] <= t})
effectiveGains(mute, solo) ==
  [n \in STEMS |-> IF n \notin mute /\ (solo = {} \/ n \in solo) THEN 1 ELSE 0]
now(s) == IF s.playing THEN Min({s.offset + s.elapsed, s.duration}) ELSE s.offset
Sounding(s) == IF s.mode = "stems" THEN STEMS ELSE {"master"}
Columns(w) == Max({2, w \div 2})

----------------------------------------------------------------------------
(* The player works on w: song, graph and page together.                    *)
drawOverview(p) ==
  IF p.width = 0 THEN p ELSE [p EXCEPT !.drawn = p.width, !.peaks = Columns(p.width)]
updateTransport(w) ==
  LET t == now(w.s)
  IN  [w EXCEPT !.p = drawOverview([w.p EXCEPT !.label = t, !.line = findLine(t),
                                               !.section = sectionAt(t)])]
(* Every source is stopped and a new one started where the song is to go on. *)
startSources(w, at) ==
  [w EXCEPT !.g.sources = [n \in Sounding(w.s) |-> at],
            !.s.offset = at, !.s.elapsed = 0]
stopSources(w) == [w EXCEPT !.g.sources = <<>>]
play(w) ==
  IF w.s.duration <= 0 THEN w
  ELSE LET v == startSources(w, IF w.s.offset >= w.s.duration - 1 THEN 0 ELSE w.s.offset)
       IN  [v EXCEPT !.s.playing = TRUE, !.p.button = "Pause", !.p.frames = 1]
pause(w) ==
  IF ~w.s.playing THEN w
  ELSE updateTransport(stopSources([w EXCEPT !.s.offset = now(w.s), !.s.playing = FALSE,
                                             !.p.button = "Play"]))
seekTo(w, to) ==
  LET t == Max({0, Min({to, w.s.duration})})
  IN  updateTransport(IF w.s.playing THEN startSources(w, t) ELSE [w EXCEPT !.s.offset = t])
applyGains(w) == [w EXCEPT !.g.gains = effectiveGains(w.g.mute, w.g.solo)]
(* The page's own check plays, pauses and seeks.                            *)
maybeSelftest(w) ==
  IF made.use.selftest THEN seekTo(seekTo(pause(play(w)), Max(Seeks)), 0) ELSE w

W == [s |-> song, g |-> graph, p |-> page]
Becomes(w) == song' = w.s /\ graph' = w.g /\ page' = w.p
Input(kind) ==
  /\ page.state = "ready"
  /\ kind \in made.use.offers /\ made.count < made.use.most
  /\ made' = [made EXCEPT !.count = @ + 1]

Init ==
  /\ \E use \in Uses : made = [count |-> 0, use |-> use]
  /\ song = [mode |-> "stems", duration |-> 0, offset |-> 0, elapsed |-> 0, playing |-> FALSE]
  /\ graph = [sources |-> <<>>, gains |-> [n \in STEMS |-> 1], mute |-> {}, solo |-> {}]
  /\ page = [state |-> "loading", label |-> 0, line |-> 0, section |-> 1, button |-> "Play",
             frames |-> 0, width |-> Max(Widths), drawn |-> 0, peaks |-> 0, toggles |-> TRUE]

(* The data must be there; of the audio all stems, or else the master.      *)
load ==
  /\ page.state = "loading"
  /\ \/ page' = [page EXCEPT !.state = "empty"] /\ UNCHANGED <<song, graph>>
     \/ \E okStems \in {STEMS, {}, {CHOOSE n \in STEMS : TRUE}}, master \in BOOLEAN :
          LET stems == okStems = STEMS
              w == [W EXCEPT !.s.mode = IF stems THEN "stems" ELSE "master",
                             !.s.duration = IF stems THEN Min({StemTimes[n] : n \in STEMS}) ELSE MasterTime,
                             !.p.toggles = stems, !.p.state = "ready"]
          IN  IF ~stems /\ ~master
              THEN page' = [page EXCEPT !.state = "error"] /\ UNCHANGED <<song, graph>>
              ELSE Becomes(maybeSelftest(updateTransport(applyGains(w))))
  /\ UNCHANGED made

(* Time passes for the audio; a frame finds the song where it is, and stops  *)
(* it short of its end.                                                     *)
AudioTime(dt) ==
  /\ song.playing /\ song.offset + song.elapsed < song.duration
  /\ song' = [song EXCEPT !.elapsed = @ + dt]
  /\ graph' = [graph EXCEPT !.sources = [n \in DOMAIN @ |-> @[n] + dt]]
  /\ UNCHANGED <<page, made>>
Tick ==
  /\ page.frames > 0
  /\ Becomes(
       IF ~song.playing THEN [W EXCEPT !.p.frames = @ - 1]
       ELSE IF now(song) < song.duration - 1 THEN updateTransport(W)
       ELSE LET v == updateTransport([pause(W) EXCEPT !.s.offset = 0])
            IN  [v EXCEPT !.p.button = "Replay", !.p.frames = @ - 1])
  /\ UNCHANGED made

playBtn == Input("play") /\ Becomes(IF song.playing THEN pause(W) ELSE play(W))
Seek(t) == Input("seek") /\ t <= song.duration /\ Becomes(seekTo(W, t))
LyricButton(i) == Input("seek") /\ Becomes(seekTo(W, lyrics[i].startSec))
(* The toggles are there for stems only.                                    *)
Flip(set, n) == IF n \in set THEN set \ {n} ELSE set \cup {n}
MuteButton(n) ==
  /\ page.toggles /\ Input("mix")
  /\ Becomes(applyGains([W EXCEPT !.g.mute = Flip(@, n)]))
SoloButton(n) ==
  /\ page.toggles /\ Input("mix")
  /\ Becomes(applyGains([W EXCEPT !.g.solo = Flip(@, n)]))
Resize(w) ==
  /\ Input("size")
  /\ page' = drawOverview([page EXCEPT !.width = w])
  /\ UNCHANGED <<song, graph>>

Next ==
  \/ load \/ Tick \/ playBtn
  \/ \E dt \in Deltas : AudioTime(dt)
  \/ \E t \in Seeks : Seek(t)
  \/ \E i \in DOMAIN lyrics : LyricButton(i)
  \/ \E n \in STEMS : MuteButton(n) \/ SoloButton(n)
  \/ \E w \in Widths : Resize(w)

----------------------------------------------------------------------------
TypeOK ==
  /\ page.state \in {"loading", "ready", "error", "empty"}
  /\ song.mode \in {"stems", "master"} /\ song.playing \in BOOLEAN
  /\ song.offset \in 0..song.duration
  /\ graph.mute \subseteq STEMS /\ graph.solo \subseteq STEMS
  /\ page.line \in 0..Len(lyrics) /\ page.frames \in 0..1
(* While the song plays, all its sources and none else sound, at one place,  *)
(* which is the one the clock tells; a stem is heard as the toggles say.     *)
SourcesInStep ==
  /\ DOMAIN graph.sources = IF song.playing THEN Sounding(song) ELSE {}
  /\ \A n \in DOMAIN graph.sources : Min({graph.sources[n], song.duration}) = now(song)
  /\ graph.gains = effectiveGains(graph.mute, graph.solo)
  /\ page.state # "ready" => ~song.playing
(* One chain of frames runs while it plays, and a button says what it does;  *)
(* lyric and section are those of the time that is shown, the bars of the    *)
(* overview those of its width.                                             *)
PageShowsSong ==
  page.state = "ready" =>
    /\ song.playing => page.frames = 1
    /\ (page.button = "Pause") = song.playing
    /\ page.line = findLine(page.label) /\ page.section = sectionAt(page.label)
    /\ ~song.playing => page.label = song.offset
    /\ page.drawn # 0 => page.peaks = Columns(page.drawn)
================================================================================
