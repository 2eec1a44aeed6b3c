-------------------------------- MODULE MazePage --------------------------------
(* The browser page of maze-chase (web/maze-chase.js) over its session      *)
(* (crates/web/src/session.rs): two sides that keep the screen, the armed   *)
(* rebinding, the mute switch and the music apart and must agree.  The game *)
(* itself, what is drawn and the shape of the sounds are left out.          *)
EXTENDS Integers, Sequences, FiniteSets, SequencesExt

CONSTANTS Bindable,  \* actions a player rebinds in this run
          Keys,      \* keys that are pressed
          MaxInputs, \* bound on what the user does
          Null

VARIABLES session,   \* the Rust side
          page,      \* [shown: lastScreen, armed, timer: a late save, hidden]
          audio,     \* [on, quiet, music: musicState, tune: the job that plays]
          stored,    \* localStorage: settings blob and score rows
          inputs     \* what the user has done so far

vars == <<session, page, audio, stored, inputs>>

Menus == {"help", "scores", "settings"}
Actions == <<"pause", "confirm", "back", "mute">>
Defaults == [pause |-> {"p"}, confirm |-> {"enter", "space"}, back |-> {"esc"},
             mute |-> {"m"}]

----------------------------------------------------------------------------
(* The session.  A change of the wanted loop waits to be polled.            *)
WantMusic(s, m) == IF s.want = m THEN s ELSE [s EXCEPT !.want = m, !.pending = m]
Reset(s) == WantMusic([s EXCEPT !.screen = "playing", !.over = Null], "stop")
ShowTitle(s) ==
  WantMusic([s EXCEPT !.screen = "title", !.return = "title", !.over = Null], "title")
TogglePause(s) ==
  CASE s.screen = "playing" -> WantMusic([s EXCEPT !.screen = "paused"], "stop")
    [] s.screen = "paused" -> [s EXCEPT !.screen = "playing"]
    [] OTHER -> s
ToggleMute(s) == [s EXCEPT !.muted = ~@, !.cue = TRUE]
Back(s) ==
  CASE s.screen \in Menus -> [s EXCEPT !.screen = s.return]
    [] s.screen \in {"playing", "paused"} -> TogglePause(s)
    [] s.screen = "over" -> ShowTitle(s)
    [] OTHER -> s
Confirm(s) ==
  CASE s.screen \in {"title", "over"} -> Reset(s)
    [] s.screen = "paused" -> [s EXCEPT !.screen = "playing"]
    [] OTHER -> s
(* A slip to notice: a menu is opened from wherever the session is.         *)
GotoAnywhere(s, target) == [s EXCEPT !.screen = target, !.return = s.screen]
Goto(s, target) ==
  IF s.screen \notin {"title", "paused"} THEN s
  ELSE [s EXCEPT !.screen = target, !.return = s.screen]
Press(s, button) ==
  CASE button = "back" -> Back(s)
    [] button = "pause" -> TogglePause(s)
    [] button = "mute" -> ToggleMute(s)
    [] button = "resume" -> IF s.screen = "paused" THEN TogglePause(s) ELSE s
    [] button = "restart" -> IF s.screen \in {"over", "paused"} THEN Reset(s) ELSE s
    [] button = "quit" -> ShowTitle(s)
(* A step of the engine while a run goes on: fright, or its end.            *)
Step(s, fright, score) ==
  IF s.screen # "playing" THEN s
  ELSE LET t == WantMusic(s, IF fright THEN "fright" ELSE "stop")
       IN  IF score = Null THEN t
           ELSE WantMusic([t EXCEPT !.screen = "over", !.over = score], "stop")

(* The saved text has one line per action, read in that order into the      *)
(* defaults; a key that another action still has at that point makes the    *)
(* whole text worthless.                                                    *)
Loads(keymap) ==
  LET upTo[n \in 0 .. Len(Actions)] ==
        IF n = 0 THEN Defaults
        ELSE [upTo[n - 1] EXCEPT ![Actions[n]] = keymap[Actions[n]]]
  IN  \A n \in DOMAIN Actions : \A b \in ToSet(Actions) \ {Actions[n]} :
        upTo[n - 1][b] \cap keymap[Actions[n]] = {}
(* A captured key moves from its owner, which must keep one; the new map is *)
(* written out and read back with the owner and then the action last.       *)
CompleteRebind(s, action, key) ==
  LET owners == {b \in ToSet(Actions) \ {action} : key \in s.keymap[b]}
      moved == [b \in ToSet(Actions) |->
                  IF b = action THEN {key} ELSE s.keymap[b] \ {key}]
      others == {n \in DOMAIN Actions : Actions[n] \notin owners \cup {action}}
      reads == \A n \in others : \A b \in ToSet(Actions) \ {Actions[n]} :
        s.keymap[Actions[n]] \cap
          (IF \E m \in others : m < n /\ Actions[m] = b THEN s.keymap[b] ELSE Defaults[b])
        = {}
  IN  IF key \in s.keymap[action] THEN s
      ELSE IF owners = {} THEN [s EXCEPT !.keymap[action] = {key}]
      ELSE IF (\E b \in owners : moved[b] = {}) \/ ~reads THEN s
      ELSE [s EXCEPT !.keymap = moved]
Key(s, key) ==
  IF s.capture # Null
  THEN CompleteRebind([s EXCEPT !.capture = Null], s.capture, key)
  ELSE LET bound == {b \in ToSet(Actions) : key \in s.keymap[b]}
       IN  CASE bound = {"pause"} -> TogglePause(s)
             [] bound = {"mute"} -> ToggleMute(s)
             [] bound = {"back"} -> Back(s)
             [] bound = {"confirm"} -> Confirm(s)
             [] OTHER -> s

----------------------------------------------------------------------------
(* The page.  The mix is set at once when the context is made and when a    *)
(* mute cue is drained; the HUD timer ramps to it.                          *)
Poll(s, a) ==
  IF ~a.on \/ s.pending \in {Null, a.music} THEN a
  ELSE [a EXCEPT !.music = s.pending,
                 !.tune = IF s.pending = "stop" THEN Null ELSE s.pending]
(* A slip to notice: the poll is drained before there is a context.         *)
PolledEarly(s, a) == [s EXCEPT !.pending = Null]
Polled(s, a) == IF a.on THEN [s EXCEPT !.pending = Null] ELSE s
Unlock(s, a) ==
  IF a.on THEN [s |-> s, a |-> a]
  ELSE LET b == [a EXCEPT !.on = TRUE, !.quiet = s.muted]
       IN  [s |-> Polled(s, b), a |-> Poll(s, b)]

Blob(s) == [muted |-> s.muted, keymap |-> s.keymap]
SaveSettings(s) == stored' = [stored EXCEPT !.settings = Blob(s)]
Act == inputs < MaxInputs /\ ~page.hidden /\ inputs' = inputs + 1
(* What a gesture does first.                                               *)
Woken == Unlock(session, audio)

(* A slip to notice: the prompt goes and the session goes on capturing.     *)
CancelRebindHalf(s) == s
(* Both sides of an armed capture are given up.                             *)
CancelRebind(s) == IF page.armed = Null THEN s ELSE [s EXCEPT !.capture = Null]

(* One turn of the loop: step, cues, music, and the panel of the screen.    *)
Frame(fright, score) ==
  LET stepped == Step(session, fright, score)
      mixed == IF stepped.cue /\ audio.on THEN [audio EXCEPT !.quiet = stepped.muted] ELSE audio
      heard == Polled([stepped EXCEPT !.cue = FALSE], mixed)
      leaves == heard.screen # page.shown /\ heard.screen # "settings"
  IN  /\ ~page.hidden
      /\ session' = IF leaves THEN CancelRebind(heard) ELSE heard
      /\ audio' = Poll(stepped, mixed)
      /\ page' = [page EXCEPT !.shown = heard.screen,
                              !.armed = IF leaves THEN Null ELSE @]
      /\ UNCHANGED <<stored, inputs>>
ApplyVolumes ==
  /\ audio' = [audio EXCEPT !.quiet = audio.on /\ session.muted]
  /\ UNCHANGED <<session, page, stored, inputs>>

(* The buttons of the panel that is shown, and the header's.                *)
Buttons ==
  CASE page.shown \in Menus -> {"back", "mute"}
    [] page.shown = "playing" -> {"pause", "mute"}
    [] page.shown = "paused" -> {"resume", "restart", "quit", "back", "mute"}
    [] page.shown = "over" -> {"restart", "quit", "mute"}
    [] OTHER -> {"mute"}
Click(button) ==
  /\ Act /\ button \in Buttons
  /\ session' = Press(Woken.s, button) /\ audio' = Woken.a
  /\ page' = [page EXCEPT !.timer = @ \/ button = "mute"]
  /\ UNCHANGED stored
Open(menu) ==
  /\ Act /\ page.shown = "title"
  /\ session' = Goto(Woken.s, menu) /\ audio' = Woken.a
  /\ UNCHANGED <<page, stored>>
DoStart ==
  /\ Act /\ page.shown \in {"title", "over"}
  /\ session' = Reset(Woken.s) /\ audio' = Woken.a
  /\ UNCHANGED <<page, stored>>
(* 60 ms after a button of the settings.                                    *)
LateSave ==
  /\ page.timer
  /\ page' = [page EXCEPT !.timer = FALSE]
  /\ SaveSettings(session)
  /\ UNCHANGED <<session, audio, inputs>>
SaveScore ==
  /\ Act /\ page.shown = "over"
  /\ LET adds == session.over # Null /\ session.over # 0
         s == IF adds THEN [session EXCEPT !.scores = @ + 1, !.over = Null] ELSE session
     IN  /\ session' = Unlock(s, audio).s
         /\ stored' = [stored EXCEPT !.scores = s.scores]
  /\ audio' = Woken.a
  /\ UNCHANGED page
ClearScores ==
  /\ Act /\ page.shown = "scores"
  /\ session' = [Woken.s EXCEPT !.scores = 0] /\ audio' = Woken.a
  /\ stored' = [stored EXCEPT !.scores = 0]
  /\ UNCHANGED page
Arm(action) ==
  /\ Act /\ page.shown = "settings"
  /\ session' = [Woken.s EXCEPT !.capture = action] /\ audio' = Woken.a
  /\ page' = [page EXCEPT !.armed = action]
  /\ UNCHANGED stored

(* A key while a rebinding is armed: Escape gives it up, also from a field, *)
(* any other completes it unless a field has the focus.                     *)
KeyArmed(key, inField) ==
  /\ Act /\ page.armed # Null
  /\ audio' = Woken.a
  /\ IF key # "esc" /\ inField
     THEN session' = Woken.s /\ UNCHANGED <<page, stored>>
     ELSE /\ page' = [page EXCEPT !.armed = Null]
          /\ IF key = "esc" THEN session' = CancelRebind(Woken.s) /\ UNCHANGED stored
             ELSE session' = Key(Woken.s, key) /\ SaveSettings(session')
(* A key in a menu: p and Escape go back, m mutes whatever it is bound to,   *)
(* the others click what has the focus.  In play p and Escape pause.        *)
KeyDown(key) ==
  /\ Act /\ page.armed = Null
  /\ audio' = Woken.a
  /\ LET playing == page.shown = "playing"
         forward == Key(Woken.s, key)
     IN  /\ session' = CASE key \in {"p", "esc"} ->
                              Press(Woken.s, IF playing THEN "pause" ELSE "back")
                         [] key = "m" \/ (playing /\ key \notin {"p", "esc"}) -> forward
                         [] OTHER -> Woken.s
         /\ IF key = "m" THEN SaveSettings(session') ELSE UNCHANGED stored
  /\ UNCHANGED page
(* The pads give up an armed capture instead of completing it.              *)
PadDown ==
  /\ Act /\ page.armed # Null
  /\ session' = CancelRebind(Woken.s) /\ audio' = Woken.a
  /\ page' = [page EXCEPT !.armed = Null]
  /\ UNCHANGED stored

Visibility ==
  /\ page' = [page EXCEPT !.hidden = ~@]
  /\ session' = IF ~page.hidden /\ page.shown = "playing" THEN TogglePause(session)
                ELSE session
  /\ UNCHANGED <<audio, stored>>
  /\ inputs < MaxInputs /\ inputs' = inputs + 1

(* A reload: a saved text that does not read back is no text.               *)
Fresh == [screen |-> "title", return |-> "title", capture |-> Null,
          keymap |-> Defaults, muted |-> FALSE, want |-> "title",
          pending |-> "title", cue |-> FALSE, scores |-> 0, over |-> Null]
Booted(st) ==
  LET s == [Fresh EXCEPT !.scores = st.scores]
  IN  IF st.settings = Null THEN s
      ELSE IF ~Loads(st.settings.keymap) THEN s
      ELSE [s EXCEPT !.muted = st.settings.muted, !.keymap = st.settings.keymap]
Silence == [on |-> FALSE, quiet |-> FALSE, music |-> "stop", tune |-> Null]
Reload ==
  /\ Act
  /\ session' = Booted(stored)
  /\ page' = [shown |-> "none", armed |-> Null, timer |-> FALSE, hidden |-> FALSE]
  /\ audio' = Silence
  /\ UNCHANGED stored

Init ==
  /\ session = Fresh /\ audio = Silence /\ inputs = 0
  /\ page = [shown |-> "none", armed |-> Null, timer |-> FALSE, hidden |-> FALSE]
  /\ stored = [settings |-> Null, scores |-> 0]
Next ==
  \/ \E fright \in BOOLEAN, score \in {Null, 0, 1} : Frame(fright, score)
  \/ \E b \in Buttons : Click(b)
  \/ \E m \in Menus : Open(m)
  \/ \E x \in Bindable : Arm(x)
  \/ \E k \in Keys : KeyDown(k) \/ \E inField \in BOOLEAN : KeyArmed(k, inField)
  \/ ApplyVolumes \/ DoStart \/ LateSave \/ SaveScore \/ ClearScores
  \/ PadDown \/ Visibility \/ Reload
Spec == Init /\ [][Next]_vars

----------------------------------------------------------------------------
TypeOK ==
  /\ session.screen \in Menus \cup {"title", "playing", "paused", "over"}
  /\ session.return \in {"title", "paused"}
  /\ session.capture \in Bindable \cup {Null}
  /\ audio.tune \in {"title", "fright", Null}
  /\ stored.scores \in 0 .. MaxInputs
(* The prompt and the session's capture never diverge (maze-chase.js:18-22), *)
(* and a capture lives only where it is shown.                              *)
CaptureIsShown ==
  page.armed = session.capture /\ (page.armed # Null => page.shown = "settings")
(* Every key stays with one action, and every action has a key.             *)
KeysArePartitioned ==
  \A b \in ToSet(Actions) :
    /\ session.keymap[b] # {}
    /\ \A c \in ToSet(Actions) \ {b} : session.keymap[b] \cap session.keymap[c] = {}
(* Once a loop is polled, what plays is what the session wants.             *)
MusicFollowsSession ==
  audio.on /\ session.pending = Null =>
    /\ audio.music = session.want
    /\ audio.tune = IF session.want = "stop" THEN Null ELSE session.want
(* A muted session is silent once its cue is heard.                         *)
QuietWhenMuted == audio.on /\ ~session.cue => audio.quiet = session.muted
(* Scores are stored as they are shown.                                     *)
ScoresAreStored == stored.scores = session.scores
(* What is saved reads back as it was (persist.rs:55, "Parse `save` output  *)
(* back into settings and keymap").                                         *)
SavedReadsBack == Loads(session.keymap)
================================================================================
