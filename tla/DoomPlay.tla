------------------------------- MODULE DoomPlay -------------------------------
(***************************************************************************)
(* Playing archive/doom: what keys, mouse and touch leave behind between    *)
(* two frames, the tics of a frame that use it up, the voices a shot sounds *)
(* on, the table that binds keys anew, and the ladder of resolutions.       *)
(***************************************************************************)
EXTENDS Integers, Sequences, SequencesExt, FiniteSets, FiniteSetsExt

CONSTANTS
  Null,
  Actions,          \* the actions in their order; "fire" is one
  defaultBindings,  \* action to its keys, the primary one first
  SFX_VOICES,       \* how many sounds there are at a time
  SoundFrames,      \* how many frames a shot is heard
  Uses              \* the sessions looked at: [offers, most] gives the kinds of input and
                    \* how many are made at most

VARIABLES
  hand,   \* the outside: keys and button that are down, whether the page has the focus
  pad,    \* keyState, mouse and touch: what the next tic finds
  game,   \* the engine, the clock of its loop and the sounds
  remap,  \* the bindings and the remap tables that listen
  video,  \* the resolution governor
  made    \* inputs made, of which session

playVars == <<hand, pad, game, remap, video, made>>

(* Half tics: a tic is two, a frame brings seven at most and runs three tics.*)
TIC_STEP == 2
MAX_DT == 7
MAX_STEPS == 3
ESCAPE == "Escape"
Silent == [busy |-> FALSE, node |-> FALSE, started |-> 0, left |-> 0]
Init ==
  /\ \E use \in Uses : made = [count |-> 0, use |-> use]
  /\ hand = [fingers |-> {}, button |-> FALSE, focus |-> TRUE]
  /\ pad = [down |-> {}, buttons |-> {}, locked |-> FALSE, dragging |-> FALSE, touched |-> {},
            moved |-> 0, tapped |-> Null]
  /\ game = [acc |-> 0, paused |-> FALSE, unlocked |-> FALSE, dx |-> 0, angle |-> 0,
             weapon |-> 2, tap |-> Null, attacks |-> 0, prev |-> FALSE, played |-> 0,
             voices |-> [i \in 1..SFX_VOICES |-> Silent], now |-> 0]
  /\ remap = [bindings |-> defaultBindings, shown |-> 1, crossed |-> FALSE,
              tables |-> <<[current |-> defaultBindings, capturing |-> Null]>>]
  /\ video = [index |-> 0, manual |-> FALSE, saver |-> FALSE, rested |-> TRUE]

Input(kind) ==
  /\ kind \in made.use.offers /\ made.count < made.use.most
  /\ made' = [made EXCEPT !.count = @ + 1]
Keys == UNION {Range(defaultBindings[a]) : a \in Range(Actions)} \cup {ESCAPE}

----------------------------------------------------------------------------
(* The remap table.                                                         *)
findConflict(bindings, code, except) ==
  LET held == SelectSeq(Actions, LAMBDA a : a # except /\ code \in Range(bindings[a]))
  IN  IF held = <<>> THEN Null ELSE held[1]
First3(s) == SubSeq(s, 1, Min({3, Len(s)}))
(* The key becomes the first one of the action; the action that had it gets  *)
(* the one it takes the place of, which stays here as well.                  *)
assignBinding(bindings, action, code) ==
  LET conflict == findConflict(bindings, code, action)
      row == bindings[action]
      new == [bindings EXCEPT ![action] = First3(<<code>> \o SelectSeq(row, LAMBDA k : k # code))]
      freed == SelectSeq(new[conflict], LAMBDA k : k \notin {code, row[1]})
  IN  IF conflict = Null \/ row = <<>> THEN new
      ELSE [new EXCEPT ![conflict] = First3(<<row[1]>> \o freed)]
(* A table that captures takes the key, assigns it in its own copy of the    *)
(* bindings, hands those on, and draws itself; Escape only draws it.         *)
finishCapture(r, i, code) ==
  LET t == r.tables[i]
      next == assignBinding(t.current, t.capturing, code)
  IN  IF t.capturing = Null THEN r
      ELSE IF code = ESCAPE
      THEN [r EXCEPT !.tables[i].capturing = Null, !.shown = i]
      ELSE [r EXCEPT !.tables[i] = [current |-> next, capturing |-> Null],
                     !.bindings = next, !.shown = i]
Capturing == \E t \in Range(remap.tables) : t.capturing # Null

(* The row of the table that is drawn.                                       *)
RemapRow(action) ==
  /\ Input("remap")
  /\ remap' = [remap EXCEPT !.tables[remap.shown].capturing = action]
  /\ UNCHANGED <<hand, pad, game, video>>
(* A new table is drawn in the place of the old one, which goes on listening.*)
resetBindings ==
  /\ Input("reset")
  /\ remap' = [remap EXCEPT !.bindings = defaultBindings, !.shown = Len(remap.tables) + 1,
                 !.crossed = @ \/ Capturing,
                 !.tables = Append(@, [current |-> defaultBindings, capturing |-> Null])]
  /\ UNCHANGED <<hand, pad, game, video>>

----------------------------------------------------------------------------
(* Keyboard, mouse, touch.                                                  *)
KeyDown(key, typing) ==
  /\ key \notin hand.fingers
  /\ Input("keys")
  /\ hand' = [hand EXCEPT !.fingers = @ \cup {key}]
  /\ IF ~hand.focus THEN UNCHANGED <<pad, remap>>
     ELSE IF Capturing
     THEN /\ remap' = FoldLeft(LAMBDA r, i : finishCapture(r, i, key), remap,
                               [i \in DOMAIN remap.tables |-> i])
          /\ UNCHANGED pad
     ELSE /\ pad' = IF typing THEN pad ELSE [pad EXCEPT !.down = @ \cup {key}]
          /\ UNCHANGED remap
  /\ UNCHANGED <<game, video>>
KeyUp(key) ==
  /\ key \in hand.fingers
  /\ hand' = [hand EXCEPT !.fingers = @ \ {key}]
  /\ pad' = IF hand.focus THEN [pad EXCEPT !.down = @ \ {key}] ELSE pad
  /\ UNCHANGED <<game, remap, video, made>>
Blur ==
  /\ hand.focus
  /\ Input("blur")
  /\ hand' = [hand EXCEPT !.focus = FALSE]
  /\ pad' = [pad EXCEPT !.down = {}]
  /\ UNCHANGED <<game, remap, video>>
Focus ==
  /\ ~hand.focus
  /\ hand' = [hand EXCEPT !.focus = TRUE]
  /\ UNCHANGED <<pad, game, remap, video, made>>

(* The first click takes the pointer; until then the button drags the view   *)
(* and does not fire.                                                       *)
MouseDown ==
  /\ ~hand.button
  /\ Input("mouse")
  /\ hand' = [hand EXCEPT !.button = TRUE]
  /\ pad' = IF pad.locked THEN [pad EXCEPT !.buttons = @ \cup {0}] ELSE [pad EXCEPT !.dragging = TRUE]
  /\ UNCHANGED <<game, remap, video>>
MouseUp ==
  /\ hand.button
  /\ hand' = [hand EXCEPT !.button = FALSE]
  /\ \E taken \in BOOLEAN :
       pad' = [pad EXCEPT !.buttons = @ \ {0}, !.dragging = FALSE, !.locked = @ \/ taken]
  /\ UNCHANGED <<game, remap, video, made>>
(* The pointer is let go, which pauses the game.                             *)
PointerLost ==
  /\ pad.locked
  /\ pad' = [pad EXCEPT !.locked = FALSE]
  /\ game' = [game EXCEPT !.paused = TRUE]
  /\ UNCHANGED <<hand, remap, video, made>>
MouseMove(n) ==
  /\ pad.locked \/ pad.dragging
  /\ Input("mouse")
  /\ game' = [game EXCEPT !.dx = @ + n]
  /\ pad' = [pad EXCEPT !.moved = @ + n]
  /\ UNCHANGED <<hand, remap, video>>
TouchFire ==
  /\ Input("touch")
  /\ pad' = [pad EXCEPT !.touched = {"fire"} \ @]
  /\ UNCHANGED <<hand, game, remap, video>>
setWeapon(n) ==
  /\ Input("touch")
  /\ game' = [game EXCEPT !.tap = n]
  /\ pad' = [pad EXCEPT !.tapped = n]
  /\ UNCHANGED <<hand, remap, video>>
(* A gesture unlocks the sound; Pause and Resume, with a new clock.          *)
UnlockAudio ==
  /\ ~game.unlocked /\ Input("audio")
  /\ game' = [game EXCEPT !.unlocked = TRUE]
  /\ UNCHANGED <<hand, pad, remap, video>>
Pause ==
  /\ Input("pause")
  /\ game' = [game EXCEPT !.paused = ~@, !.acc = 0]
  /\ UNCHANGED <<hand, pad, remap, video>>

----------------------------------------------------------------------------
(* A frame: tics, then the sounds.                                          *)
actions == {a \in Range(Actions) : Range(remap.bindings[a]) \cap pad.down # {}}
sampleAttack == "fire" \in actions \/ "fire" \in pad.touched \/ 0 \in pad.buttons
(* A free voice, else the first one with the name, which all shots have.     *)
VoiceFor(voices) ==
  LET free == {i \in DOMAIN voices : ~voices[i].busy}
  IN  IF free # {} THEN Min(free) ELSE 1
play(g) ==
  [g EXCEPT !.played = @ + 1,
            !.voices[VoiceFor(g.voices)] =
              [busy |-> TRUE, node |-> FALSE, started |-> g.now, left |-> SoundFrames]]
(* pumpInput and tickOnce: the motion is used up, the weapon tapped too, a    *)
(* shot sounds when the trigger goes down.                                   *)
Tick(g) ==
  LET edge == sampleAttack /\ ~g.prev
      next == [g EXCEPT !.angle = @ + g.dx, !.dx = 0,
                 !.weapon = IF g.tap = Null THEN @ ELSE g.tap, !.tap = Null,
                 !.attacks = IF sampleAttack THEN @ + 1 ELSE @, !.prev = sampleAttack]
  IN  IF edge /\ g.unlocked THEN play(next) ELSE next
(* Voices whose time is up are free; each new one gets its node, once.       *)
pumpAudioFrame(g) ==
  LET aged(v) == IF v.busy /\ v.left > 0 THEN [v EXCEPT !.left = @ - 1] ELSE [v EXCEPT !.busy = FALSE]
      live == [i \in DOMAIN g.voices |-> aged(g.voices[i])]
  IN  [g EXCEPT !.now = @ + 1,
                !.voices = [i \in DOMAIN live |-> [live[i] EXCEPT !.node = live[i].busy]]]
accumulatorStep(acc, dt) ==
  LET full == acc + Min({dt, MAX_DT})
      steps == Min({MAX_STEPS, full \div TIC_STEP})
  IN  [acc |-> full - TIC_STEP * steps, steps |-> steps]
Frame(dt) ==
  /\ ~game.paused
  /\ Input("frame")
  /\ LET a == accumulatorStep(game.acc, dt)
         ticked == FoldLeft(LAMBDA g, i : Tick(g), [game EXCEPT !.acc = a.acc],
                            [i \in 1..a.steps |-> i])
     IN  game' = pumpAudioFrame(ticked)
  /\ UNCHANGED <<hand, pad, remap, video>>

----------------------------------------------------------------------------
(* The governor: a step down when frames are slow and up when they are fast, *)
(* not soon after another; the battery saver keeps it low.                   *)
Lowest == 3
SaverStep == 2
setIndex(v, next) ==
  LET low == Min({Lowest, Max({next, IF v.saver THEN SaverStep ELSE 0})})
  IN  IF low = v.index THEN v ELSE [v EXCEPT !.index = low, !.rested = FALSE]
size(v) == IF v.saver THEN Max({v.index, SaverStep}) ELSE v.index
setManual(i) ==
  Input("video") /\ video' = setIndex([video EXCEPT !.manual = TRUE], i)
  /\ UNCHANGED <<hand, pad, game, remap>>
setAuto ==
  Input("video") /\ video' = [video EXCEPT !.manual = FALSE] /\ UNCHANGED <<hand, pad, game, remap>>
setBatterySaver(on) ==
  /\ Input("video")
  /\ LET v == [video EXCEPT !.saver = on]
     IN  video' = IF on /\ v.index < SaverStep THEN setIndex(v, SaverStep) ELSE v
  /\ UNCHANGED <<hand, pad, game, remap>>
observe(step) ==
  /\ "video" \in made.use.offers
  /\ ~video.manual /\ video.rested
  /\ video.index + step \in 0..Lowest
  /\ video' = setIndex(video, video.index + step)
  /\ UNCHANGED <<hand, pad, game, remap, made>>
Rest ==
  /\ ~video.rested
  /\ video' = [video EXCEPT !.rested = TRUE]
  /\ UNCHANGED <<hand, pad, game, remap, made>>

Next ==
  \/ \E action \in Range(Actions) : RemapRow(action)
  \/ resetBindings
  \/ \E key \in Keys, typing \in BOOLEAN : KeyDown(key, typing)
  \/ \E key \in Keys : KeyUp(key)
  \/ Blur
  \/ Focus
  \/ MouseDown
  \/ MouseUp
  \/ PointerLost
  \/ \E n \in {1, 3} : MouseMove(n)
  \/ TouchFire
  \/ \E n \in {1, 3} : setWeapon(n)
  \/ UnlockAudio
  \/ Pause
  \/ \E dt \in {1, 4, 9} : Frame(dt)
  \/ \E i \in 0..Lowest : setManual(i)
  \/ setAuto
  \/ \E on \in BOOLEAN : setBatterySaver(on)
  \/ \E step \in {-1, 1} : observe(step)
  \/ Rest

----------------------------------------------------------------------------
TypeOK ==
  /\ pad.down \subseteq Keys /\ hand.fingers \subseteq Keys
  /\ game.acc >= 0 /\ game.angle >= 0 /\ game.weapon \in 1..7
  /\ remap.shown \in DOMAIN remap.tables
  /\ video.index \in 0..Lowest
  /\ made.count <= made.use.most

(* Every pixel the mouse moved turns the player once, a weapon tapped on the *)
(* strip arrives, however tics and frames fall (tic.js:2-3).                 *)
UsedOnce ==
  /\ game.angle + game.dx = pad.moved
  /\ game.tap = Null /\ pad.tapped # Null => game.weapon = pad.tapped
(* No key acts that no finger holds: the page that loses the focus misses    *)
(* what comes up, so it lets go of all.                                      *)
NoKeySticks ==
  /\ hand.focus => pad.down \subseteq hand.fingers
  /\ 0 \in pad.buttons => hand.button
(* A trigger pulled sounds once, however many tics it is held in a frame, on  *)
(* a voice that has its node when the frame is over.                         *)
ShotsSound ==
  LET busy == {i \in DOMAIN game.voices : game.voices[i].busy}
  IN  /\ game.played <= game.attacks
      /\ \A i \in busy : game.voices[i].node
      /\ \A i, j \in busy : game.voices[i].started = game.voices[j].started => i = j
(* Whatever is bound anew, in whatever order, no action is left without a    *)
(* key; the table that is drawn shows the bindings the game uses, unless     *)
(* they were reset while a key was awaited.                                  *)
KeysAreShown ==
  /\ \A a \in Range(Actions) :
       Len(remap.bindings[a]) \in 1..3 /\ IsInjective(remap.bindings[a])
  /\ remap.crossed \/ remap.tables[remap.shown].current = remap.bindings
(* The battery saver never draws above its step, by hand or not.             *)
SaverIsKept == video.saver => video.index >= SaverStep /\ size(video) = video.index
================================================================================
