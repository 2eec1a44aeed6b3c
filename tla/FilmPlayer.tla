------------------------------ MODULE FilmPlayer ------------------------------
(***************************************************************************)
(* film: the theatre's transport over its timeline and trailer, and the     *)
(* performer that plays the score beside the picture.  Time is in halves of  *)
(* a frame; beats in halves of a beat.                                      *)
(***************************************************************************)
EXTENDS Integers, Sequences, SequencesExt, FiniteSets, FiniteSetsExt

CONSTANTS
  Null,
  Shots,      \* <<[dur, wind, captions, lines], ...>>: captions are [t, dur], lines are
              \* [voice, bpn, to]
  Acts,       \* <<[start, dur], ...>>
  Trailers,   \* trailer specifications that may arrive: sequences of [shot, in, dur]
  Deltas,     \* time from one frame painted to the next
  Skip,       \* what an arrow key moves
  Uses        \* [offers, most, damaged, audio]: kinds of input, how many at most, the shots
              \* that cannot be drawn, whether the browser has WebAudio

VARIABLES
  show,   \* state of player.js and what the page shows
  perf,   \* the performer
  made    \* inputs made, of which session

filmVars == <<show, perf, made>>

Frame == 2
frameTime(t) == Frame * (Max({0, t}) \div Frame)

----------------------------------------------------------------------------
(* Timeline and trailer.  The code's epsilon below the end is half a frame.  *)
Timeline ==
  [i \in DOMAIN Shots |->
     LET start == FoldLeft(LAMBDA acc, s : acc + s.dur, 0, SubSeq(Shots, 1, i - 1))
     IN  [start |-> start, end |-> start + Shots[i].dur]]
FilmTotal == Timeline[Len(Shots)].end
Clamped(t, total) == Min({Max({t, 0}), Max({total - 1, 0})})
ShotOf(tc) == CHOOSE i \in DOMAIN Shots : Timeline[i].start <= tc /\ tc < Timeline[i].end
shotAt(t) == ShotOf(Clamped(t, FilmTotal))
ActOf(tc) ==
  Min({Len(Acts)} \cup {a \in DOMAIN Acts : Acts[a].start <= tc /\ tc < Acts[a].start + Acts[a].dur})
actAt(t) == ActOf(Clamped(t, FilmTotal))
(* The last caption whose time it is.                                       *)
IsDue(cap, local) == cap.t <= local /\ local < cap.t + cap.dur
captionAt(shot, local) ==
  IF \A c \in DOMAIN Shots[shot].captions : ~IsDue(Shots[shot].captions[c], local) THEN Null
  ELSE Max({c \in DOMAIN Shots[shot].captions : IsDue(Shots[shot].captions[c], local)})

(* Segments one after the other; one that names no shot or leaves its shot   *)
(* makes the whole trailer fail.                                            *)
SegmentIsSound(seg) ==
  seg.shot \in DOMAIN Shots /\ seg.dur > 0 /\ seg.in >= 0 /\ seg.in + seg.dur <= Shots[seg.shot].dur
buildTrailer(spec) ==
  LET From(i) == FoldLeft(LAMBDA acc, s : acc + s.dur, 0, SubSeq(spec, 1, i - 1))
      At(i) == Timeline[spec[i].shot].start + spec[i].in
  IN  IF spec = <<>> \/ \E i \in DOMAIN spec : ~SegmentIsSound(spec[i]) THEN Null
      ELSE [total |-> frameTime(From(Len(spec) + 1)),
            segments |-> [i \in DOMAIN spec |->
              [shot |-> spec[i].shot, start |-> frameTime(From(i)),
               end |-> frameTime(From(i) + spec[i].dur), filmStart |-> frameTime(At(i)),
               filmEnd |-> frameTime(At(i) + spec[i].dur)]]]
SegmentsAt(trailer, t) ==
  {i \in DOMAIN trailer.segments :
     trailer.segments[i].start <= t /\ t < trailer.segments[i].end}
trailerSegAt(trailer, t) ==
  IF SegmentsAt(trailer, t) = {} THEN Len(trailer.segments) ELSE Min(SegmentsAt(trailer, t))
Within(seg, tc) == seg.filmStart + (tc - seg.start)
FilmTimeAt(trailer, tc) ==
  IF SegmentsAt(trailer, tc) = {} THEN Last(trailer.segments).filmEnd - 1
  ELSE Within(trailer.segments[Min(SegmentsAt(trailer, tc))], tc)
trailerToFilmTime(trailer, t) == FilmTimeAt(trailer, Clamped(t, trailer.total))

----------------------------------------------------------------------------
(* The performer.  A line plays a phrase every bpn half beats; a step is a   *)
(* beat, in which a line of less than a beat plays twice.                   *)
Span(ln) == Max({1, (2 * ln.to) \div ln.bpn})
OnGrid(ln, step) ==
  IF ln.bpn < 2 THEN [j \in 1..(2 \div ln.bpn) |-> (2 * step) \div ln.bpn + j - 1]
  ELSE IF (2 * step) % ln.bpn = 0 THEN <<(2 * step) \div ln.bpn>> ELSE <<>>
livePhrasesForStep(ln, step) ==
  IF step >= ln.to THEN <<>> ELSE SelectSeq(OnGrid(ln, step), LAMBDA p : p < Span(ln))
(* Oscillators and noise sources a phrase starts; each is told when to stop. *)
playVoice(voice) ==
  CASE voice \in {"pad", "strings", "violin", "cello", "bells"} -> 2
    [] voice \in {"woodwind", "bass", "brass", "timpani", "shaker"} -> 1
    [] OTHER -> 0
Sounds(ln, phrases) ==
  [k \in DOMAIN phrases |->
     [phrase |-> phrases[k], isLast |-> phrases[k] = Span(ln) - 1, sources |-> playVoice(ln.voice)]]

ensure(p) == IF made.use.audio
             THEN [p EXCEPT !.ctx = TRUE, !.gain = IF p.ctx THEN @ ELSE IF p.muted THEN 0 ELSE p.volume]
             ELSE p
Heard(cue, step) ==
  [i \in DOMAIN Shots[cue].lines |->
     Sounds(Shots[cue].lines[i], livePhrasesForStep(Shots[cue].lines[i], step))]
Appended(heard, now) == [i \in DOMAIN heard |-> heard[i] \o now[i]]
scheduleStep(p) ==
  IF ~p.playing \/ ~p.ctx THEN p
  ELSE [p EXCEPT !.step = @ + 1, !.timer = TRUE, !.wind = Shots[p.cue].wind,
                 !.heard = Appended(@, Heard(p.cue, p.step))]
(* The bed is set whether it plays or not.                                  *)
setCue(p, shot) ==
  [p EXCEPT !.cue = shot, !.step = IF shot = p.cue THEN @ ELSE 0,
            !.heard = IF shot = p.cue THEN @ ELSE [i \in DOMAIN Shots[shot].lines |-> <<>>],
            !.wind = IF p.ctx THEN Shots[shot].wind ELSE @]
Going(q) == IF ~q.ctx \/ q.playing THEN q ELSE scheduleStep([q EXCEPT !.playing = TRUE])
startPerformer(p) == Going(ensure(p))
stopPerformer(p) == [p EXCEPT !.playing = FALSE, !.timer = FALSE, !.wind = 0]
setMuted(p, m) == [p EXCEPT !.muted = m, !.gain = IF ~p.ctx THEN @ ELSE IF m THEN 0 ELSE p.volume]
setVolume(p, v) == [p EXCEPT !.volume = v, !.gain = IF p.ctx /\ ~p.muted THEN v ELSE @]

----------------------------------------------------------------------------
(* The transport works on w, the pair of page and performer.                *)
InTrailer(s) == s.mode = "trailer" /\ s.trailer # Null
modeTotal(s) == IF InTrailer(s) THEN s.trailer.total ELSE FilmTotal
filmTimeOf(s, t) == IF InTrailer(s) THEN trailerToFilmTime(s.trailer, t) ELSE t

(* What one frame shows.  A shot that cannot be drawn ends the playing, not  *)
(* the music.                                                               *)
PictureOf(s, ft, shot) ==
  [frame |-> frameTime(ft), shot |-> shot, act |-> actAt(ft),
   caption |-> IF s.captions
               THEN captionAt(shot, Clamped(frameTime(ft), FilmTotal) - Timeline[shot].start) ELSE Null,
   seg |-> IF InTrailer(s) THEN trailerSegAt(s.trailer, s.t) ELSE Null, clock |-> s.t]
PictureAt(s, ft) == PictureOf(s, ft, shotAt(frameTime(ft)))
Picture(s) == PictureAt(s, filmTimeOf(s, s.t))
Rendered(w, p) ==
  IF p.shot \in made.use.damaged
  THEN [w EXCEPT !.s.playing = FALSE, !.s.overlay = "damaged", !.s.bigPlay = FALSE, !.s.broke = TRUE]
  ELSE [s |-> [w.s EXCEPT !.picture = p],
        p |-> setCue(w.p, p.shot)]
renderFrame(w) == Rendered(w, Picture(w.s))
hideEndCard(w) == [w EXCEPT !.s.endCard = FALSE]
showEndCard(w) == [w EXCEPT !.s.endCard = TRUE, !.s.bigPlay = FALSE]
Started(s) ==
  [s EXCEPT !.t = IF @ >= modeTotal(s) THEN 0 ELSE @, !.playing = TRUE, !.broke = FALSE,
            !.endCard = FALSE, !.unlocked = TRUE, !.bigPlay = FALSE, !.silent = @ \/ ~made.use.audio]
Stopped(s) == [s EXCEPT !.playing = FALSE, !.broke = FALSE, !.bigPlay = @ \/ s.unlocked]
setPlaying(w, on) ==
  renderFrame(IF on THEN [s |-> Started(w.s), p |-> startPerformer(ensure(w.p))]
              ELSE [s |-> Stopped(w.s), p |-> stopPerformer(w.p)])
seekTo(w, t) ==
  renderFrame(hideEndCard([w EXCEPT !.s.t = frameTime(Min({Max({t, 0}), modeTotal(w.s)}))]))
setMode(w, mode) ==
  IF mode = "trailer" /\ w.s.trailer = Null THEN w
  ELSE renderFrame(hideEndCard(setPlaying([w EXCEPT !.s.mode = mode, !.s.t = 0], FALSE)))

W == [s |-> show, p |-> perf]
Becomes(w) == show' = w.s /\ perf' = w.p
Input(kind) ==
  /\ show.phase = "ready"
  /\ kind \in made.use.offers /\ made.count < made.use.most
  /\ made' = [made EXCEPT !.count = @ + 1]

----------------------------------------------------------------------------
Init ==
  /\ \E use \in Uses : made = [count |-> 0, use |-> use]
  /\ show = [phase |-> "loading", t |-> 0, playing |-> FALSE, mode |-> "film", trailer |-> Null,
             captions |-> TRUE, unlocked |-> FALSE, silent |-> FALSE, bigPlay |-> FALSE,
             endCard |-> FALSE, overlay |-> "none", picture |-> Null, broke |-> FALSE]
  /\ perf = [ctx |-> FALSE, step |-> 0, timer |-> FALSE, cue |-> 1, playing |-> FALSE,
             volume |-> 2, muted |-> FALSE, gain |-> 0, wind |-> 0,
             heard |-> [i \in DOMAIN Shots[1].lines |-> <<>>]]

(* The screenplay may not arrive or not be sound; a trailer that fails only  *)
(* takes its buttons away.                                                  *)
Load ==
  /\ show.phase = "loading"
  /\ \/ show' = [show EXCEPT !.phase = "failed", !.overlay = "damaged"] /\ UNCHANGED perf
     \/ \E spec \in Trailers \cup {<<>>} :
          LET w == renderFrame([W EXCEPT !.s.phase = "ready", !.s.trailer = buildTrailer(spec)])
          IN  Becomes([w EXCEPT !.s.bigPlay = TRUE])
  /\ UNCHANGED made

(* A frame of the page.  At the end the card comes up, and the last frame is *)
(* painted once more.                                                       *)
Tick(dt) ==
  /\ show.phase = "ready" /\ show.playing
  /\ Becomes(renderFrame(
       IF show.t + dt >= modeTotal(show)
       THEN showEndCard(setPlaying([W EXCEPT !.s.t = modeTotal(show)], FALSE))
       ELSE [W EXCEPT !.s.t = @ + dt]))
  /\ UNCHANGED made
(* The beat's timer; later ones of a cue play nothing new.                   *)
Longest(cue) == Max({0} \cup {Shots[cue].lines[i].to : i \in DOMAIN Shots[cue].lines})
Beat ==
  /\ perf.timer /\ perf.step <= Longest(perf.cue)
  /\ perf' = scheduleStep([perf EXCEPT !.timer = FALSE])
  /\ UNCHANGED <<show, made>>

btnPlay == Input("play") /\ Becomes(setPlaying(W, ~show.playing))
bigPlay == show.bigPlay /\ Input("play") /\ Becomes(setPlaying(W, TRUE))
btnRestart == Input("play") /\ Becomes(setPlaying(seekTo(W, 0), TRUE))
btnTrailer ==
  /\ show.mode = "film" /\ show.trailer # Null
  /\ Input("mode") /\ Becomes(setPlaying(setMode(W, "trailer"), TRUE))
btnFilm == show.mode = "trailer" /\ Input("mode") /\ Becomes(setMode(W, "film"))
(* On the end card.                                                         *)
btnModeSwap ==
  /\ show.endCard /\ Input("card")
  /\ Becomes(IF show.mode = "trailer" THEN setPlaying(setMode(W, "film"), TRUE)
             ELSE IF show.trailer # Null THEN setPlaying(setMode(W, "trailer"), TRUE)
             ELSE setPlaying(seekTo(hideEndCard(W), 0), TRUE))
btnDismiss ==
  /\ show.endCard /\ Input("card")
  /\ Becomes([hideEndCard(W) EXCEPT !.s.bigPlay = ~show.playing])
ChapterButton(a) ==
  /\ Input("seek")
  /\ Becomes(setPlaying(seekTo(IF show.mode = "trailer" THEN setMode(W, "film") ELSE W,
                               Acts[a].start), TRUE))
Seek(t) == Input("seek") /\ t <= modeTotal(show) /\ Becomes(seekTo(W, t))
Arrow(d) == Input("seek") /\ Becomes(seekTo(W, show.t + d))
btnCaption ==
  Input("look") /\ Becomes(renderFrame([W EXCEPT !.s.captions = ~@]))
btnMute == Input("sound") /\ perf' = setMuted(ensure(perf), ~perf.muted) /\ UNCHANGED show
Volume(v) ==
  /\ Input("sound")
  /\ perf' = IF v > 0 /\ perf.muted THEN setMuted(setVolume(ensure(perf), v), FALSE)
             ELSE setVolume(ensure(perf), v)
  /\ UNCHANGED show
(* Fullscreen that is refused puts a message over the picture.               *)
btnFull ==
  /\ Input("look")
  /\ \/ show' = show
     \/ show' = [show EXCEPT !.overlay = "keep", !.bigPlay = FALSE]
  /\ UNCHANGED perf
KeepWatching ==
  /\ show.overlay = "keep"
  /\ show' = [show EXCEPT !.overlay = "none", !.bigPlay = ~show.playing]
  /\ UNCHANGED <<perf, made>>

Next ==
  \/ Load \/ Beat \/ KeepWatching
  \/ btnPlay \/ bigPlay \/ btnRestart \/ btnTrailer \/ btnFilm \/ btnModeSwap \/ btnDismiss
  \/ btnCaption \/ btnMute \/ btnFull
  \/ \E dt \in Deltas : Tick(dt)
  \/ \E a \in DOMAIN Acts : ChapterButton(a)
  \/ \E t \in {0, FilmTotal \div 2, FilmTotal} : Seek(t)
  \/ \E d \in {Skip, -Skip} : Arrow(d)
  \/ \E v \in {0, 1} : Volume(v)

----------------------------------------------------------------------------
TypeOK ==
  /\ show.phase \in {"loading", "ready", "failed"} /\ show.mode \in {"film", "trailer"}
  /\ show.t \in 0..modeTotal(show)
  /\ {show.playing, show.captions, show.unlocked, show.silent, show.bigPlay, show.endCard,
      show.broke, perf.ctx, perf.timer, perf.playing, perf.muted} \subseteq BOOLEAN
  /\ show.overlay \in {"none", "damaged", "keep"}
  /\ perf.cue \in DOMAIN Shots /\ perf.volume \in 0..2 /\ perf.gain \in 0..2

(* The music runs exactly while the picture does, on one chain of timers,    *)
(* whatever was pressed in whatever order (a damaged shot stops only the     *)
(* picture, until the next use of the transport).                           *)
MusicFollowsPlay ==
  /\ made.use.audio /\ ~show.broke => perf.playing = show.playing
  /\ perf.timer = perf.playing
  /\ perf.playing => perf.wind = Shots[perf.cue].wind
  /\ perf.ctx => perf.gain = IF perf.muted THEN 0 ELSE perf.volume
(* What the page shows is the frame of its clock, with the score of the shot *)
(* that is seen; in the trailer, a frame of the very segment it names.       *)
PageShowsClock ==
  show.phase = "ready" /\ ~show.broke /\ made.use.damaged = {} =>
    /\ show.picture = Picture(show)
    /\ perf.cue = show.picture.shot
    /\ InTrailer(show) =>
         LET seg == show.trailer.segments[show.picture.seg]
         IN  /\ show.picture.shot = seg.shot
             /\ show.picture.frame \in seg.filmStart..(seg.filmEnd - 1)
(* The end card is up at the end only, and nothing covers a running picture. *)
CardAtEnd ==
  /\ show.endCard => show.t = modeTotal(show) /\ ~show.playing
  /\ show.playing => ~show.bigPlay
(* Of every line the phrases of the offline score have sounded, each once    *)
(* and in order, up to the beat reached; the last one, and no other,         *)
(* resolves.  Every voice of the registry sounds.                           *)
PhrasesAreWhole ==
  \A i \in DOMAIN perf.heard :
    LET ln == Shots[perf.cue].lines[i]
        due == {k \in 0..(Span(ln) - 1) : k * ln.bpn < 2 * perf.step}
    IN  /\ Len(perf.heard[i]) = Cardinality(due)
        /\ \A k \in DOMAIN perf.heard[i] :
             LET one == perf.heard[i][k]
             IN  one.phrase = k - 1 /\ one.isLast = (k = Span(ln)) /\ one.sources > 0
================================================================================
