----------------------------- MODULE UmbraShell -----------------------------
(***************************************************************************)
(* The shell of umbra around a bout: the renderer and its fallback chain,   *)
(* the resolution ladder and the audio engine (app.js, src/render/tiers.js, *)
(* src/render/resolution.js, src/audio/engine.js).                          *)
(*                                                                         *)
(* A renderer is made by an async job that may be overtaken by another one  *)
(* and may fail at each await.  A canvas keeps the first kind of context it *)
(* was asked for: getContext of another kind answers null.                  *)
(***************************************************************************)
EXTENDS Integers, TLAPS

CONSTANTS
  Jobs,          (* Ids of renderer initialisations; 1 is that of the boot. *)
  Failing,       (* The awaits that may fail: "import", "device", "shaders".*)
  Stored,        (* config.tier and config.muted as they were saved.        *)
  Cooldown       (* SWITCH_COOLDOWN_MS, in frames.                          *)

VARIABLES
  phase,         (* bootApp: "boot", "ready", or "dead".                    *)
  canvas,        (* The kind of context the canvas has: a tier, or NoTier.  *)
  job,           (* Each job: its tier and the await it is at.              *)
  renderer,      (* boot.renderer: the job that made it, or 0.              *)
  tier,          (* boot.tier                                               *)
  made,          (* The tier of each renderer made; NoTier if none was.     *)
  disposed,      (* Renderers that were disposed of.                        *)
  config,        (* boot.profile.config: tier, muted, battery.              *)
  ladder, calm,  (* boot.ladderIndex; frames until it may step again.       *)
  audio,         (* boot.audio: mute flag, loop playing, intensity.         *)
  key,           (* boot.musicKey                                           *)
  screen

vars == <<phase, canvas, job, renderer, tier, made, disposed, config, ladder,
          calm, audio, key, screen>>
drawing == <<phase, canvas, job, renderer, tier, made, disposed>>
sound == <<audio, key>>

Tiers == 0..2        (* WebGPU, WebGL2, Canvas2D.                           *)
NoTier == 3
AutoTier == 3            (* config.tier "auto".                                 *)
Rungs == 0..3
Idle == [tier |-> NoTier, at |-> "idle"]
Silent == "silent"   (* No engine, or nothing plays.                        *)
Loops == {"menu", "bout", "boss"}
NoAudio == [on |-> FALSE, muted |-> FALSE, loop |-> Silent, intensity |-> 1]

---------------------------------------------------------------------------
(* The renderer.                                                            *)

(* resolveTier *)
ResolveTier(override, cached) == IF override # AutoTier THEN override ELSE cached

(* Mutant: the old renderer stays in place until the new one is there.      *)
BeginKeeping(j, t) ==
  /\ disposed' = disposed \cup ({renderer} \ {0}) /\ UNCHANGED renderer
  /\ job' = [job EXCEPT ![j] = [tier |-> t, at |-> "import"]]

(* initRenderer up to its first await.                                      *)
Begin(j, t) ==
  /\ disposed' = disposed \cup ({renderer} \ {0}) /\ renderer' = 0
  /\ job' = [job EXCEPT ![j] = [tier |-> t, at |-> "import"]]

(* The catch of initRendererWithFallback: tierForFailure.                   *)
Fallback(j) ==
  /\ IF job[j].tier < 2 THEN Begin(j, job[j].tier + 1)
     ELSE job' = [job EXCEPT ![j].at = "failed"] /\ UNCHANGED <<renderer, disposed>>
  /\ phase' = IF j = 1 /\ job[j].tier = 2 THEN "dead" ELSE phase
  /\ UNCHANGED <<tier, made>>

Install(j) ==
  /\ renderer' = j /\ tier' = job[j].tier
  /\ made' = [made EXCEPT ![j] = job[j].tier]
  /\ job' = [job EXCEPT ![j].at = "done"]
  /\ phase' = IF j = 1 THEN "ready" ELSE phase
  /\ UNCHANGED disposed

(* canvas.getContext *)
Granted(t) == canvas \in {NoTier, t}

(* The module arrives; WebGL2 and Canvas2D are then made at once.           *)
Imported(j) ==
  /\ job[j].at = "import"
  /\ IF job[j].tier = 0
     THEN /\ job' = [job EXCEPT ![j].at = "device"]
          /\ UNCHANGED <<phase, canvas, renderer, tier, made, disposed>>
     ELSE IF Granted(job[j].tier)
     THEN canvas' = job[j].tier /\ Install(j)
     ELSE Fallback(j) /\ UNCHANGED canvas

(* createWebGPURenderer has its device and asks for the context.            *)
DeviceReady(j) ==
  /\ job[j].at = "device"
  /\ IF Granted(0)
     THEN /\ canvas' = 0
          /\ job' = [job EXCEPT ![j].at = "shaders"]
          /\ UNCHANGED <<phase, renderer, tier, made, disposed>>
     ELSE Fallback(j) /\ UNCHANGED canvas

ShadersReady(j) ==
  /\ job[j].at = "shaders"
  /\ Install(j) /\ UNCHANGED canvas

AwaitFails(j) ==
  /\ job[j].at \in Failing
  /\ Fallback(j) /\ UNCHANGED canvas

(* applySettingsAndRender up to its await: the form is read, saveProfile is *)
(* under way.                                                               *)
SubmitSettings(j, t, mute, saver) ==
  /\ screen = "settings" /\ job[j] = Idle /\ \A i \in 1..j - 1 : job[i] # Idle
  /\ config' = [tier |-> t, muted |-> mute, battery |-> saver]
  /\ job' = [job EXCEPT ![j].at = "save"]
  /\ UNCHANGED <<phase, canvas, renderer, tier, made, disposed, ladder, calm, sound, screen>>

(* The profile is saved: a renderer is begun for the settings as they are   *)
(* by now.                                                                  *)
Saved(j) ==
  /\ job[j].at = "save"
  /\ Begin(j, ResolveTier(config.tier, tier))
  /\ UNCHANGED <<phase, canvas, tier, made>>

(* The save fails, and with it the submission.                              *)
SaveFails(j) ==
  /\ job[j].at = "save"
  /\ job' = [job EXCEPT ![j] = Idle]
  /\ UNCHANGED <<phase, canvas, renderer, tier, made, disposed>>

---------------------------------------------------------------------------
(* The ladder: each frame, by the mean frame time, one rung at a time and   *)
(* not before the cooldown; nextLadderIndex.                                *)
NextRung(pace) ==
  IF config.battery THEN 2
  ELSE IF calm > 0 THEN ladder
  ELSE IF pace = "slow" /\ ladder < 3 THEN ladder + 1
  ELSE IF pace = "fast" /\ ladder > 0 THEN ladder - 1
  ELSE ladder

Frame(pace) ==
  /\ phase = "ready"
  /\ ladder' = NextRung(pace)
  /\ calm' = IF ladder' # ladder THEN Cooldown ELSE IF calm > 0 THEN calm - 1 ELSE 0
  /\ UNCHANGED <<drawing, config, sound, screen>>

---------------------------------------------------------------------------
(* Sound.                                                                   *)

(* ensureAudio: the engine asks for the mute flag once.                     *)
Ensured == IF audio.on THEN audio ELSE [NoAudio EXCEPT !.on = TRUE, !.muted = config.muted]

(* startMusic and menuMusic: nothing to do if this loop is the last begun.  *)
Playing(a, loop) == IF key = loop THEN a ELSE [a EXCEPT !.loop = loop]

(* A click on any button.                                                   *)
Click ==
  /\ audio' = Ensured
  /\ UNCHANGED <<drawing, config, ladder, calm, key, screen>>

(* startFight *)
EnterFight(loop) ==
  /\ screen' = "fight"
  /\ audio' = Playing(Ensured, loop) /\ key' = loop
  /\ UNCHANGED <<drawing, config, ladder, calm>>

(* A boss enters its next phase: setIntensity(2).                           *)
BossPhase ==
  /\ screen = "fight" /\ key = "boss"
  /\ audio' = IF audio.on THEN [audio EXCEPT !.intensity = 2] ELSE audio
  /\ UNCHANGED <<drawing, config, ladder, calm, key, screen>>

(* showScreen of a menu: menuMusic, once there is an engine.                *)
EnterMenu(s) ==
  /\ screen' = s /\ s # screen
  /\ IF audio.on THEN audio' = Playing(audio, "menu") /\ key' = "menu"
     ELSE UNCHANGED sound
  /\ UNCHANGED <<drawing, config, ladder, calm>>

---------------------------------------------------------------------------
Init ==
  /\ phase = "boot" /\ canvas = NoTier
  /\ config \in Stored
  /\ \E probed \in Tiers :
       job = [j \in Jobs |-> IF j = 1
                             THEN [tier |-> ResolveTier(config.tier, probed), at |-> "import"]
                             ELSE Idle]
  /\ renderer = 0 /\ tier = 2
  /\ made = [j \in Jobs |-> NoTier] /\ disposed = {}
  /\ ladder = 1 /\ calm = 0
  /\ audio = NoAudio /\ key = Silent /\ screen = "title"

Next ==
  \/ /\ \E j \in Jobs : \/ Imported(j) \/ DeviceReady(j) \/ ShadersReady(j)
                       \/ AwaitFails(j) \/ Saved(j) \/ SaveFails(j)
     /\ UNCHANGED <<config, ladder, calm, sound, screen>>
  \/ \E j \in Jobs, t \in Tiers \cup {AutoTier}, mute, saver \in BOOLEAN :
       SubmitSettings(j, t, mute, saver)
  \/ \E pace \in {"slow", "even", "fast"} : Frame(pace)
  \/ Click \/ BossPhase
  \/ \E loop \in {"bout", "boss"} : EnterFight(loop)
  \/ \E s \in {"title", "settings"} : EnterMenu(s)

Spec == Init /\ [][Next]_vars

---------------------------------------------------------------------------
(* Properties.                                                              *)

TypeOK ==
  /\ phase \in {"boot", "ready", "dead"}
  /\ canvas \in Tiers \cup {NoTier} /\ tier \in Tiers
  /\ renderer \in Jobs \cup {0} /\ disposed \subseteq Jobs
  /\ ladder \in Rungs /\ calm \in 0..Cooldown
  /\ audio.loop \in Loops \cup {Silent} /\ key \in Loops \cup {Silent}

(* No frame is drawn by a renderer that was disposed of, or by one of a     *)
(* tier other than the HUD shows and the canvas has, however the settings   *)
(* are submitted while earlier renderers are still being made.              *)
DrawsOnLive ==
  renderer # 0 => /\ renderer \notin disposed
                  /\ made[renderer] = tier /\ canvas = tier

(* "Initialize with fallback chain: requested tier, then lower tiers"       *)
(* (app.js): Canvas2D needs nothing that may fail, so when the modules load *)
(* a chain that has ended leaves a renderer to draw with.                   *)
ChainEndsDrawing ==
  (\A j \in Jobs : job[j].at \in {"idle", "done", "failed"}) => renderer # 0

(* "Lazy audio engine bound to the persisted mute flag" (app.js): once      *)
(* there is an engine, it is muted when the setting says so.                *)
MuteFollowsSetting == audio.on => audio.muted = config.muted

---------------------------------------------------------------------------
(* Why frames are drawn by a living renderer, for any number of submissions.*)

RealTiers == Tiers \cup {NoTier}
Typed ==
  /\ canvas \in RealTiers /\ tier \in Tiers
  /\ job \in [Jobs -> [tier : RealTiers,
                       at : {"idle", "save", "import", "device", "shaders", "done", "failed"}]]
  /\ renderer \in Jobs \cup {0} /\ disposed \subseteq Jobs
  /\ made \in [Jobs -> RealTiers]

(* A job under way has a tier; the canvas has its kind from the context on; *)
(* what was disposed of had been made, and what is in place has.            *)
UnderWay ==
  \A j \in Jobs :
    /\ job[j].at \notin {"idle", "save"} => job[j].tier \in Tiers
    /\ job[j].at = "device" => job[j].tier = 0
    /\ job[j].at = "shaders" => job[j].tier = 0 /\ canvas = 0
Finished == \A j \in disposed \cup ({renderer} \ {0}) : job[j].at = "done"

Drawn == Typed /\ UnderWay /\ Finished /\ DrawsOnLive

(* The tier that a saved submission reads is one of the form.               *)
Chosen == config.tier \in Tiers \cup {AutoTier}

StageInv == Drawn /\ Chosen

LEMMA StageInit ==
  ASSUME 0 \notin Jobs, \A c \in Stored : c.tier \in Tiers \cup {AutoTier}
  PROVE  Init => StageInv
BY DEF Init, StageInv, Chosen, Drawn, Typed, UnderWay, Finished, DrawsOnLive, ResolveTier, RealTiers,
       Tiers, NoTier, AutoTier, Idle

LEMMA BeginStep ==
  ASSUME 0 \notin Jobs, Drawn, NEW j \in Jobs, NEW t \in Tiers, Begin(j, t),
         job[j].at # "done", UNCHANGED <<canvas, tier, made>>
  PROVE  Drawn'
<1>1. /\ job' \in [Jobs -> [tier : RealTiers,
                       at : {"idle", "save", "import", "device", "shaders", "done", "failed"}]]
      /\ job'[j] = [tier |-> t, at |-> "import"]
      /\ \A i \in Jobs \ {j} : job'[i] = job[i]
  BY DEF Begin, Drawn, Typed, RealTiers
<1>2. disposed' = disposed \cup ({renderer} \ {0}) /\ renderer' = 0
  BY DEF Begin
<1> QED
  BY <1>1, <1>2 DEF Drawn, Typed, UnderWay, Finished, DrawsOnLive, Tiers

LEMMA FallbackStep ==
  ASSUME 0 \notin Jobs, Drawn, NEW j \in Jobs, Fallback(j),
         job[j].at \in {"import", "device", "shaders"}, UNCHANGED canvas
  PROVE  Drawn'
<1>1. UNCHANGED <<tier, made>>
  BY DEF Fallback
<1>2. CASE job[j].tier < 2
  <2>a. Begin(j, job[j].tier + 1)
    BY <1>2 DEF Fallback
  <2>b. job[j].tier + 1 \in Tiers
    BY <1>2 DEF Drawn, UnderWay, Tiers
  <2> QED
    BY <1>1, <2>a, <2>b, BeginStep
<1>3. CASE ~(job[j].tier < 2)
  <2>a. /\ job' \in [Jobs -> [tier : RealTiers,
                       at : {"idle", "save", "import", "device", "shaders", "done", "failed"}]]
        /\ job'[j].tier = job[j].tier /\ job'[j].at = "failed"
        /\ \A i \in Jobs \ {j} : job'[i] = job[i]
        /\ UNCHANGED <<renderer, disposed>>
    BY <1>3 DEF Fallback, Drawn, Typed
  <2> QED
    BY <1>1, <2>a DEF Drawn, Typed, UnderWay, Finished, DrawsOnLive
<1> QED
  BY <1>2, <1>3

(* What is put in place is of the kind the canvas has.                      *)
LEMMA InstallStep ==
  ASSUME 0 \notin Jobs, Drawn, NEW j \in Jobs, Install(j),
         job[j].at \in {"import", "device", "shaders"},
         canvas \in {NoTier, job[j].tier}, canvas' = job[j].tier
  PROVE  Drawn'
<1>1. /\ job' \in [Jobs -> [tier : RealTiers,
                       at : {"idle", "save", "import", "device", "shaders", "done", "failed"}]]
      /\ job'[j].tier = job[j].tier /\ job'[j].at = "done"
      /\ \A i \in Jobs \ {j} : job'[i] = job[i]
  BY DEF Install, Drawn, Typed
<1>2. /\ renderer' = j /\ tier' = job[j].tier /\ made'[j] = job[j].tier
      /\ made' \in [Jobs -> RealTiers] /\ UNCHANGED disposed /\ j # 0
      /\ job[j].tier \in Tiers
  BY DEF Install, Drawn, Typed, UnderWay
<1>3. Typed' /\ Finished' /\ DrawsOnLive'
  BY <1>1, <1>2 DEF Drawn, Typed, Finished, DrawsOnLive, RealTiers
<1>4. UnderWay'
  BY <1>1, <1>2 DEF Drawn, UnderWay, Typed, Tiers, NoTier
<1> QED
  BY <1>3, <1>4 DEF Drawn

LEMMA StageStep ==
  ASSUME 0 \notin Jobs, Failing \subseteq {"import", "device", "shaders"}
  PROVE  StageInv /\ [Next]_vars => StageInv'
<1> SUFFICES ASSUME Drawn, Chosen, [Next]_vars PROVE Drawn' /\ Chosen'
  BY DEF StageInv
<1>1. ASSUME NEW j \in Jobs, Imported(j) PROVE Drawn'
  <2>a. job[j].at = "import" /\ job[j].tier \in Tiers
    BY <1>1 DEF Imported, Drawn, UnderWay
  <2>b. CASE job[j].tier = 0
    <3>1. /\ job' \in [Jobs -> [tier : RealTiers,
                       at : {"idle", "save", "import", "device", "shaders", "done", "failed"}]]
          /\ job'[j].tier = 0 /\ job'[j].at = "device"
          /\ \A i \in Jobs \ {j} : job'[i] = job[i]
          /\ UNCHANGED <<canvas, renderer, tier, made, disposed>>
      BY <1>1, <2>b DEF Imported, Drawn, Typed
    <3> QED
      BY <2>a, <3>1 DEF Drawn, Typed, UnderWay, Finished, DrawsOnLive, Tiers
  <2>c. CASE job[j].tier # 0 /\ Granted(job[j].tier)
    BY <1>1, <2>a, <2>c, InstallStep DEF Imported, Granted
  <2>d. CASE job[j].tier # 0 /\ ~Granted(job[j].tier)
    BY <1>1, <2>a, <2>d, FallbackStep DEF Imported
  <2> QED
    BY <2>b, <2>c, <2>d
<1>2. ASSUME NEW j \in Jobs, DeviceReady(j) PROVE Drawn'
  <2>a. job[j].at = "device" /\ job[j].tier = 0
    BY <1>2 DEF DeviceReady, Drawn, UnderWay
  <2>b. CASE Granted(0)
    <3>1. /\ job' \in [Jobs -> [tier : RealTiers,
                       at : {"idle", "save", "import", "device", "shaders", "done", "failed"}]]
          /\ job'[j].tier = 0 /\ job'[j].at = "shaders"
          /\ \A i \in Jobs \ {j} : job'[i] = job[i]
          /\ canvas' = 0 /\ canvas \in {NoTier, 0}
          /\ UNCHANGED <<renderer, tier, made, disposed>>
      BY <1>2, <2>a, <2>b DEF DeviceReady, Granted, Drawn, Typed
    <3> QED
      BY <2>a, <3>1 DEF Drawn, Typed, UnderWay, Finished, DrawsOnLive, RealTiers, Tiers,
         NoTier
  <2>c. CASE ~Granted(0)
    BY <1>2, <2>a, <2>c, FallbackStep DEF DeviceReady
  <2> QED
    BY <2>b, <2>c
<1>3. ASSUME NEW j \in Jobs, ShadersReady(j) PROVE Drawn'
  BY <1>3, InstallStep DEF ShadersReady, Drawn, UnderWay
<1>4. ASSUME NEW j \in Jobs, AwaitFails(j) PROVE Drawn'
  BY <1>4, FallbackStep DEF AwaitFails
<1>5. ASSUME NEW j \in Jobs, Saved(j) PROVE Drawn'
  <2>a. ResolveTier(config.tier, tier) \in Tiers
    BY DEF ResolveTier, Chosen, Drawn, Typed
  <2>b. job[j].at # "done"
    BY <1>5 DEF Saved
  <2> QED
    BY <1>5, <2>a, <2>b, BeginStep DEF Saved
<1>6. ASSUME NEW j \in Jobs,
             \/ SaveFails(j)
             \/ \E t \in Tiers \cup {AutoTier}, mute, saver \in BOOLEAN :
                  SubmitSettings(j, t, mute, saver)
      PROVE  Drawn'
  <2>a. /\ UNCHANGED <<phase, canvas, renderer, tier, made, disposed>>
        /\ job[j].at \in {"idle", "save"} /\ job'[j].at \in {"idle", "save"}
        /\ job' \in [Jobs -> [tier : RealTiers,
                 at : {"idle", "save", "import", "device", "shaders", "done", "failed"}]]
        /\ \A i \in Jobs \ {j} : job'[i] = job[i]
    BY <1>6 DEF SaveFails, SubmitSettings, Idle, Drawn, Typed, RealTiers
  <2> QED
    BY <2>a DEF Drawn, Typed, UnderWay, Finished, DrawsOnLive
<1>7. ASSUME \/ \E pace \in {"slow", "even", "fast"} : Frame(pace)
             \/ Click \/ BossPhase
             \/ \E loop \in {"bout", "boss"} : EnterFight(loop)
             \/ \E s \in {"title", "settings"} : EnterMenu(s)
             \/ UNCHANGED vars
      PROVE  Drawn'
  <2>a. UNCHANGED drawing
    BY <1>7 DEF Frame, Click, BossPhase, EnterFight, EnterMenu, vars, drawing
  <2> QED
    BY <2>a DEF drawing, Drawn, Typed, UnderWay, Finished, DrawsOnLive
<1>8. Chosen'
  <2>a. \/ config' = config
        \/ \E j \in Jobs, t \in Tiers \cup {AutoTier}, mute, saver \in BOOLEAN :
             SubmitSettings(j, t, mute, saver)
    BY DEF Next, Frame, Click, BossPhase, EnterFight, EnterMenu, vars
  <2> QED
    BY <2>a DEF SubmitSettings, Chosen
<1> QED
  BY <1>1, <1>2, <1>3, <1>4, <1>5, <1>6, <1>7, <1>8 DEF Next

(* No frame is drawn by a renderer that was disposed of, or by one of       *)
(* another tier (initRenderer, initRendererWithFallback), however many      *)
(* settings are submitted and whichever awaits fail.                        *)
THEOREM FramesHaveARenderer ==
  ASSUME 0 \notin Jobs, \A c \in Stored : c.tier \in Tiers \cup {AutoTier},
         Failing \subseteq {"import", "device", "shaders"}
  PROVE  Spec => []DrawsOnLive
<1>1. StageInv => DrawsOnLive
  BY DEF StageInv, Drawn
<1> QED
  BY StageInit, StageStep, <1>1, PTL DEF Spec

---------------------------------------------------------------------------
(* What the other variables hold: the settings that are stored and          *)
(* submitted, a rung of the ladder, a loop that there is.                   *)
Configs == [tier : Tiers \cup {AutoTier}, muted : BOOLEAN, battery : BOOLEAN]
Sounds == [on : BOOLEAN, muted : BOOLEAN, loop : Loops \cup {Silent}, intensity : {1, 2}]
RestInv ==
  /\ phase \in {"boot", "ready", "dead"} /\ config \in Configs
  /\ ladder \in Rungs /\ calm \in 0..Cooldown
  /\ audio \in Sounds /\ key \in Loops \cup {Silent}

LEMMA RestInit ==
  ASSUME Stored \subseteq Configs, Cooldown \in Nat
  PROVE  Init => RestInv
<1> SUFFICES ASSUME Init PROVE RestInv
  OBVIOUS
<1>1. audio \in Sounds
  BY DEF Init, NoAudio, Sounds
<1>2. config \in Configs
  BY DEF Init
<1> QED
  BY <1>1, <1>2 DEF Init, RestInv, Rungs

LEMMA SoundsFit ==
  ASSUME RestInv
  PROVE  /\ Ensured \in Sounds
         /\ \A a \in Sounds, loop \in Loops : Playing(a, loop) \in Sounds
<1>1. Ensured \in Sounds
  BY DEF Ensured, RestInv, Sounds, Configs, NoAudio
<1>2. \A a \in Sounds, loop \in Loops : Playing(a, loop) \in Sounds
  BY DEF Playing, Sounds
<1> QED
  BY <1>1, <1>2

LEMMA RestStep ==
  ASSUME Cooldown \in Nat, RestInv, [Next]_vars
  PROVE  RestInv'
<1>1. ASSUME UNCHANGED <<config, ladder, calm, sound>>, phase' \in {"boot", "ready", "dead"}
      PROVE  RestInv'
  BY <1>1 DEF RestInv, sound
<1>2. ASSUME NEW j \in Jobs, \/ Imported(j) \/ DeviceReady(j) \/ ShadersReady(j)
                              \/ AwaitFails(j) \/ Saved(j) \/ SaveFails(j)
      PROVE  phase' \in {"boot", "ready", "dead"}
  BY <1>2
  DEF Imported, DeviceReady, ShadersReady, AwaitFails, Saved, SaveFails, Install,
      Fallback, RestInv
<1>3. ASSUME NEW j \in Jobs, NEW t \in Tiers \cup {AutoTier}, NEW mute \in BOOLEAN,
             NEW saver \in BOOLEAN, SubmitSettings(j, t, mute, saver)
      PROVE  RestInv'
  BY <1>3 DEF SubmitSettings, RestInv, Configs, sound
<1>4. ASSUME NEW pace \in {"slow", "even", "fast"}, Frame(pace) PROVE RestInv'
  <2>a. ladder' = NextRung(pace) /\ NextRung(pace) \in Rungs
    BY <1>4 DEF Frame, NextRung, RestInv, Rungs
  <2>b. calm' \in 0..Cooldown
    BY <1>4 DEF Frame, RestInv
  <2> QED
    BY <1>4, <2>a, <2>b DEF Frame, RestInv, drawing, sound
<1>5. CASE Click
  BY <1>5, SoundsFit DEF Click, RestInv, drawing
<1>6. CASE BossPhase
  BY <1>6 DEF BossPhase, RestInv, Sounds, drawing
<1>7. ASSUME NEW loop \in {"bout", "boss"}, EnterFight(loop) PROVE RestInv'
  BY <1>7, SoundsFit DEF EnterFight, RestInv, Loops, drawing
<1>8. ASSUME NEW s, EnterMenu(s) PROVE RestInv'
  BY <1>8, SoundsFit DEF EnterMenu, RestInv, Loops, drawing, sound
<1>9. CASE UNCHANGED vars
  BY <1>9 DEF vars, RestInv
<1>10. ASSUME \E j \in Jobs : \/ Imported(j) \/ DeviceReady(j) \/ ShadersReady(j)
                             \/ AwaitFails(j) \/ Saved(j) \/ SaveFails(j),
              UNCHANGED <<config, ladder, calm, sound, screen>>
       PROVE  RestInv'
  BY <1>1, <1>2, <1>10
<1>11. CASE Next
  BY <1>3, <1>4, <1>5, <1>6, <1>7, <1>8, <1>10, <1>11 DEF Next
<1> QED
  BY <1>9, <1>11

LEMMA StageTyped == StageInv /\ RestInv => TypeOK
BY DEF StageInv, Drawn, Typed, RestInv, Sounds, TypeOK, RealTiers

(* Every variable keeps its type, whatever is submitted and whichever       *)
(* awaits fail (initRenderer, nextLadderIndex, startMusic).                 *)
THEOREM TypeCorrect ==
  ASSUME 0 \notin Jobs, Stored \subseteq Configs, Cooldown \in Nat,
         Failing \subseteq {"import", "device", "shaders"}
  PROVE  Spec => []TypeOK
<1>1. \A c \in Stored : c.tier \in Tiers \cup {AutoTier}
  BY DEF Configs
<1> QED
  BY <1>1, StageInit, StageStep, RestInit, RestStep, StageTyped, PTL DEF Spec
=============================================================================
