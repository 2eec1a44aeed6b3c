------------------------------ MODULE DuelPlayer ------------------------------
(***************************************************************************)
(* mythduel: the stage's two clocks (the duel and its trailer), what it      *)
(* paints of them, and the live score held against the offline one.  Time    *)
(* is in halves of a frame, a line's rhythm in halves of a beat.             *)
(***************************************************************************)
EXTENDS Integers, Sequences, SequencesExt, FiniteSets, FiniteSetsExt

CONSTANTS
  Null,
  Beats,         \* <<[dur, captions, motif, cue, hot, total], ...>>: hot for a fast tempo,
                 \* total for the musical beats of it
  RowLen,        \* motif to the length of its row
  Trailers,      \* trailers that may arrive: sequences of [beat, tIn, tOut]
  TRAILER_MIN, TRAILER_MAX,
  Deltas,        \* time between two frames
  Uses           \* [offers, most, reduced, audio]

VARIABLES
  stage,   \* state of player.js and what the page shows
  perf,    \* the live performer
  made     \* inputs made, of which session

duelVars == <<stage, perf, made>>

Frame == 2
frameTime(t) == Frame * (Max({0, t}) \div Frame)

----------------------------------------------------------------------------
(* Timeline and trailer plan.                                               *)
Timeline ==
  [i \in DOMAIN Beats |->
     LET start == FoldLeft(LAMBDA acc, b : acc + b.dur, 0, SubSeq(Beats, 1, i - 1))
     IN  [start |-> start, end |-> start + Beats[i].dur]]
DuelTotal == Timeline[Len(Beats)].end
BeatOf(tc) == CHOOSE i \in DOMAIN Beats : Timeline[i].start <= tc /\ tc < Timeline[i].end
beatAt(t) == BeatOf(Min({Max({t, 0}), DuelTotal - 1}))
(* The last caption whose time it is, 0 for none.                           *)
captionAt(beat, local) ==
  Max({0} \cup {c \in DOMAIN Beats[beat].captions :
                  /\ Beats[beat].captions[c].t <= local
                  /\ local < Beats[beat].captions[c].t + Beats[beat].captions[c].dur})

(* Cuts are windows of known beats, in the order of the duel, that are not   *)
(* empty on the grid; together they last as long as a trailer may.           *)
CutIsSound(c) ==
  /\ c.beat \in DOMAIN Beats
  /\ Timeline[c.beat].start <= c.tIn /\ c.tOut <= Timeline[c.beat].end
  /\ frameTime(c.tIn) < frameTime(c.tOut)
CutStart(cuts, i) ==
  FoldLeft(LAMBDA acc, c : acc + frameTime(c.tOut) - frameTime(c.tIn), 0, SubSeq(cuts, 1, i - 1))
buildTrailerPlan(cuts) ==
  LET total == CutStart(cuts, Len(cuts) + 1)
  IN  IF \/ cuts = <<>> \/ \E i \in DOMAIN cuts : ~CutIsSound(cuts[i])
         \/ \E i \in 2..Len(cuts) : cuts[i].beat < cuts[i - 1].beat
         \/ total \notin TRAILER_MIN..TRAILER_MAX
      THEN Null
      ELSE [total |-> total,
            cuts |-> [i \in DOMAIN cuts |->
              [beat |-> cuts[i].beat, tIn |-> frameTime(cuts[i].tIn), tOut |-> frameTime(cuts[i].tOut),
               trailerStart |-> CutStart(cuts, i), trailerEnd |-> CutStart(cuts, i + 1)]]]
InCut(i, cut, t) ==
  [cut |-> i, duelTime |-> frameTime(Min({cut.tIn + (t - cut.trailerStart), cut.tOut - 1}))]
CutOf(plan, t) ==
  Min({Len(plan.cuts)} \cup {i \in DOMAIN plan.cuts : t < plan.cuts[i].trailerEnd})
InCutOf(plan, i, t) == InCut(i, plan.cuts[i], t)
trailerCutAt(plan, t) == InCutOf(plan, CutOf(plan, t), t)

----------------------------------------------------------------------------
(* The score.  Lines by motif and cue.                                      *)
Ln(voice, bpn, offset) == [voice |-> voice, bpn |-> bpn, offset |-> offset]
Shaker(b) == IF b.hot THEN <<Ln("shaker", 1, 0)>> ELSE <<>>
orchestrate(b) ==
  CASE b.motif = "thor-row" /\ b.cue = "terms" ->
         <<Ln("horn", 4, 0), Ln("drum", 8, 0), Ln("deeppad", 8, 0)>>
    [] b.motif = "zeus-row" -> <<Ln("pluck", 2, 1), Ln("bronze", 8, 2), Ln("drum", 8, 0)>>
    [] b.motif = "thor-row" /\ b.cue # "terms" ->
         <<Ln("drum", 2, 0), Ln("horn", 4, 0), Ln("bronze", 4, 2)>> \o Shaker(b)
    [] b.motif = "resolution-hymn" ->
         <<Ln("horn", 4, 0), Ln("deeppad", 8, 0), Ln("bronze", 8, 2), Ln("pluck", 4, 1)>>
         \o (IF b.cue = "storm-answers" THEN <<Ln("drum", 4, 0)>> ELSE <<>>)
    [] OTHER ->
         (IF b.cue = "thrown-sky"
          THEN <<Ln("drum", 2, 0), Ln("bronze", 2, 2), Ln("pluck", 4, 1)>>
          ELSE <<Ln("drum", 2, 0), Ln("bronze", 4, 2), Ln("horn", 4, 4)>>) \o Shaker(b)
Notes(b, ln) == Max({1, (2 * Beats[b].total) \div ln.bpn})
(* A closing note snaps down to the root of its row.                        *)
Resolved(b, deg) == RowLen[Beats[b].motif] * (deg \div RowLen[Beats[b].motif])
(* What the offline master plays: line by line the degrees.                 *)
buildScoreEvents(b) ==
  LET lines == orchestrate(Beats[b])
  IN  [i \in DOMAIN lines |->
         [k \in 1..Notes(b, lines[i]) |->
            LET deg == lines[i].offset + (((b - 1) * 5 + (k - 1)) % 48)
            IN  IF k = Notes(b, lines[i]) THEN Resolved(b, deg) ELSE deg]]

(* The live performer counts steps of a beat.                               *)
OnGrid(ln, step) ==
  IF ln.bpn < 2 THEN [j \in 1..(2 \div ln.bpn) |-> (2 * step) \div ln.bpn + j - 1]
  ELSE IF (2 * step) % ln.bpn = 0 THEN <<(2 * step) \div ln.bpn>> ELSE <<>>
livePhrasesForStep(b, ln, step) ==
  IF step >= Beats[b].total THEN <<>>
  ELSE SelectSeq(OnGrid(ln, step), LAMBDA p : p < Notes(b, ln))
(* Sources a note starts, and those let go of when they have ended.         *)
playVoice(voice) ==
  CASE voice \in {"deeppad", "bronze"} -> [sources |-> 2, released |-> 2]
    [] voice \in {"horn", "pluck", "drum", "shaker"} -> [sources |-> 1, released |-> 1]
    [] OTHER -> [sources |-> 0, released |-> 0]
Degree(b, ln, phrase) == ln.offset + (((b - 1) * 5 + phrase) % 48)
Sounds(b, ln, phrases) ==
  [k \in DOMAIN phrases |->
     [deg |-> IF phrases[k] = Notes(b, ln) - 1 THEN Resolved(b, Degree(b, ln, phrases[k]))
              ELSE Degree(b, ln, phrases[k]),
      voice |-> playVoice(ln.voice)]]
Played(p, ln) == Sounds(p.cue, ln, livePhrasesForStep(p.cue, ln, p.step))
Appended(p, lines) == [i \in DOMAIN lines |-> p.heard[i] \o Played(p, lines[i])]
NoNotes(b) == [i \in DOMAIN orchestrate(Beats[b]) |-> <<>>]

ensure(p) == IF ~made.use.audio \/ p.ctx THEN p
             ELSE [p EXCEPT !.ctx = TRUE, !.gain = IF p.muted THEN 0 ELSE p.volume]
scheduleStep(p) ==
  IF ~p.playing \/ ~p.ctx THEN p
  ELSE [p EXCEPT !.step = @ + 1, !.timer = TRUE,
                 !.heard = Appended(p, orchestrate(Beats[p.cue]))]
setCue(p, b) ==
  IF b = p.cue THEN p ELSE [p EXCEPT !.cue = b, !.step = 0, !.heard = NoNotes(b)]
Going(q) == IF ~q.ctx \/ q.playing THEN q ELSE scheduleStep([q EXCEPT !.playing = TRUE])
startPerformer(p) == Going(ensure(p))
stopPerformer(p) == [p EXCEPT !.playing = FALSE, !.timer = FALSE]
setMuted(p, m) == [p EXCEPT !.muted = m, !.gain = IF ~p.ctx THEN @ ELSE IF m THEN 0 ELSE p.volume]
setVolume(p, v) == [p EXCEPT !.volume = v, !.gain = IF p.ctx /\ ~p.muted THEN v ELSE @]

----------------------------------------------------------------------------
(* The stage works on w, the pair of page and performer.                    *)
InTrailer(s) == s.mode = "trailer"
Total(s) == IF InTrailer(s) THEN s.plan.total ELSE DuelTotal
Clock(s) == IF InTrailer(s) THEN s.trailerT ELSE s.t
WithClock(s, v) == IF InTrailer(s) THEN [s EXCEPT !.trailerT = v] ELSE [s EXCEPT !.t = v]

paintStage(q) == [frame |-> q, beat |-> beatAt(q)]
TrailerPicture(s, mapped, p) ==
  [frame |-> p.frame, beat |-> p.beat, cut |-> mapped.cut, clock |-> s.trailerT,
   caption |-> IF s.captions THEN <<"note", mapped.cut>> ELSE Null]
TrailerPictureAt(s, mapped) == TrailerPicture(s, mapped, paintStage(mapped.duelTime))
drawTrailer(s) == TrailerPictureAt(s, trailerCutAt(s.plan, frameTime(s.trailerT)))
(* A caption that is on is never empty.                                     *)
CaptionText(cap, beat) == IF cap = 0 THEN <<"title", beat>> ELSE <<"line", cap>>
DuelPicture(s, p) ==
  [frame |-> p.frame, beat |-> p.beat, cut |-> Null, clock |-> p.frame,
   caption |-> IF ~s.captions THEN Null
               ELSE CaptionText(captionAt(p.beat, p.frame - Timeline[p.beat].start), p.beat)]
drawDuel(s) == DuelPicture(s, paintStage(frameTime(s.t)))
Picture(s) == IF InTrailer(s) THEN drawTrailer(s) ELSE drawDuel(s)
Drawn(w, p) ==
  [s |-> [w.s EXCEPT !.picture = p, !.cueBeat = p.beat],
   p |-> IF w.s.cueBeat = p.beat THEN w.p ELSE setCue(w.p, p.beat)]
draw(w) == Drawn(w, Picture(w.s))
setT(w, v) ==
  draw([w EXCEPT !.s = WithClock([w.s EXCEPT !.endCard = FALSE],
                                 Min({Max({v, 0}), Total(w.s) - 1}))])
stepFrame(w, dir) == setT(w, frameTime(Clock(w.s)) + dir * Frame)
setMode(w, mode) ==
  draw([s |-> [w.s EXCEPT !.mode = mode, !.playing = FALSE, !.timed = FALSE, !.cueBeat = Null,
                          !.endCard = FALSE, !.bigPlay = TRUE,
                          !.trailerT = IF mode = "trailer" THEN 0 ELSE @],
        p |-> stopPerformer(w.p)])
playOrPause(w, on) ==
  [s |-> [w.s EXCEPT !.playing = on, !.timed = FALSE, !.bigPlay = ~on],
   p |-> IF on THEN startPerformer(ensure(w.p)) ELSE stopPerformer(w.p)]
play(w) == playOrPause(w, ~w.s.playing)
InDuel(w) == IF InTrailer(w.s) THEN setMode(w, "duel") ELSE w

W == [s |-> stage, p |-> perf]
Becomes(w) == stage' = w.s /\ perf' = w.p
Input(kind) ==
  /\ stage.phase = "ready"
  /\ kind \in made.use.offers /\ made.count < made.use.most
  /\ made' = [made EXCEPT !.count = @ + 1]

----------------------------------------------------------------------------
Init ==
  /\ \E use \in Uses : made = [count |-> 0, use |-> use]
  /\ stage = [phase |-> "loading", t |-> 0, trailerT |-> 0, mode |-> "duel", plan |-> Null,
              playing |-> FALSE, timed |-> FALSE, captions |-> TRUE, bigPlay |-> FALSE,
              endCard |-> FALSE, cueBeat |-> Null, picture |-> Null]
  /\ perf = [ctx |-> FALSE, step |-> 0, timer |-> FALSE, cue |-> 1, playing |-> FALSE,
             volume |-> 2, muted |-> FALSE, gain |-> 0, heard |-> NoNotes(1)]

(* All three files or nothing: without a trailer there is no duel.          *)
bootPlayer ==
  /\ stage.phase = "loading"
  /\ \E cuts \in Trailers \cup {<<>>} :
       LET plan == buildTrailerPlan(cuts)
       IN  IF plan = Null
           THEN stage' = [stage EXCEPT !.phase = "failed"] /\ UNCHANGED perf
           ELSE Becomes(draw([W EXCEPT !.s.phase = "ready", !.s.plan = plan, !.s.bigPlay = TRUE]))
  /\ UNCHANGED made
(* The first frame after a press of play only takes the time.  With reduced  *)
(* motion the clock stands.                                                 *)
Later(dt) == Clock(stage) + IF stage.timed THEN dt ELSE 0
Timed == [stage EXCEPT !.timed = TRUE]
Over == [WithClock(Timed, Total(stage) - 1) EXCEPT !.playing = FALSE, !.bigPlay = FALSE, !.endCard = TRUE]
Tick(dt) ==
  /\ stage.playing
  /\ Becomes(draw(
       IF made.use.reduced THEN [W EXCEPT !.s = Timed]
       ELSE IF Later(dt) < Total(stage) THEN [W EXCEPT !.s = WithClock(Timed, Later(dt))]
       ELSE [s |-> Over, p |-> stopPerformer(perf)]))
  /\ UNCHANGED made
(* The beat's timer; past its cue it plays nothing.                         *)
Beat ==
  /\ perf.timer /\ perf.step <= Beats[perf.cue].total
  /\ perf' = scheduleStep([perf EXCEPT !.timer = FALSE])
  /\ UNCHANGED <<stage, made>>

btnPlay == Input("play") /\ Becomes(play(W))
bigPlay == stage.bigPlay /\ Input("play") /\ Becomes(play(W))
btnRestart == Input("play") /\ Becomes(setT(InDuel(W), 0))
btnTrailer ==
  Input("mode") /\ Becomes(setMode(W, IF InTrailer(stage) THEN "duel" ELSE "trailer"))
endReplay == stage.endCard /\ Input("card") /\ Becomes(play(setT(setMode(W, "duel"), 0)))
endTrailer == stage.endCard /\ Input("card") /\ Becomes(play(setMode(W, "trailer")))
Step(dir) == Input("seek") /\ Becomes(stepFrame(W, dir))
Seek(v) == Input("seek") /\ v <= Total(stage) /\ Becomes(setT(W, v))
BeatButton(b) == Input("seek") /\ Becomes(setT(InDuel(W), Timeline[b].start))
btnCaption == Input("look") /\ Becomes(draw([W EXCEPT !.s.captions = ~@]))
btnMute == Input("sound") /\ perf' = setMuted(ensure(perf), ~perf.muted) /\ UNCHANGED stage
Volume(v) == Input("sound") /\ perf' = setVolume(ensure(perf), v) /\ UNCHANGED stage

Next ==
  \/ bootPlayer \/ Beat \/ btnPlay \/ bigPlay \/ btnRestart \/ btnTrailer \/ endReplay
  \/ endTrailer \/ btnCaption \/ btnMute
  \/ \E dt \in Deltas : Tick(dt)
  \/ \E dir \in {-1, 1} : Step(dir)
  \/ \E v \in {0, DuelTotal \div 2, DuelTotal} : Seek(v)
  \/ \E b \in DOMAIN Beats : BeatButton(b)
  \/ \E v \in {0, 1} : Volume(v)

----------------------------------------------------------------------------
TypeOK ==
  /\ stage.phase \in {"loading", "ready", "failed"} /\ stage.mode \in {"duel", "trailer"}
  /\ stage.t \in 0..(DuelTotal - 1) /\ Clock(stage) < Total(stage)
  /\ {stage.playing, stage.timed, stage.captions, stage.bigPlay, stage.endCard,
      perf.ctx, perf.timer, perf.playing, perf.muted} \subseteq BOOLEAN
  /\ perf.cue \in DOMAIN Beats /\ perf.volume \in 0..2 /\ perf.gain \in 0..2

(* The score runs exactly while the stage does, on one chain of timers, in   *)
(* whatever order play, trailer, end card and the end of a clock come.       *)
MusicFollowsPlay ==
  /\ made.use.audio => perf.playing = stage.playing
  /\ perf.timer = perf.playing
  /\ perf.ctx => perf.gain = IF perf.muted THEN 0 ELSE perf.volume
(* The page shows the frame of the clock that counts, with the score of its  *)
(* beat; a cut of the trailer shows frames of its own window.                *)
PageShowsClock ==
  stage.phase = "ready" =>
    /\ stage.picture = Picture(stage)
    /\ perf.cue = stage.picture.beat
    /\ InTrailer(stage) =>
         LET cut == stage.plan.cuts[stage.picture.cut]
         IN  stage.picture.beat = cut.beat /\ stage.picture.frame \in cut.tIn..(cut.tOut - 1)
(* The card is up at the end of its clock only; no button covers a picture   *)
(* that runs.                                                               *)
CardAtEnd ==
  /\ stage.endCard => Clock(stage) = Total(stage) - 1
  /\ stage.playing => ~stage.bigPlay
(* What has sounded of a cue are the opening degrees of the offline master,  *)
(* all of them once its beats are through, each source released.            *)
LiveIsOffline ==
  LET score == buildScoreEvents(perf.cue)
  IN  \A i \in DOMAIN perf.heard :
        /\ IsPrefix([k \in DOMAIN perf.heard[i] |-> perf.heard[i][k].deg], score[i])
        /\ perf.step >= Beats[perf.cue].total => Len(perf.heard[i]) = Len(score[i])
        /\ \A note \in Range(perf.heard[i]) :
             note.voice.sources > 0 /\ note.voice.released = note.voice.sources
================================================================================
