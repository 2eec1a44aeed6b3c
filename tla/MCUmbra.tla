------------------------------- MODULE MCUmbra -------------------------------
(***************************************************************************)
(* The parts of umbra, each on its own: a behaviour picks a setting and     *)
(* keeps it; the variables of the other parts stay at Off.                  *)
(***************************************************************************)
EXTENDS Integers, Sequences, FiniteSets, TLC, UmbraStory, UmbraMoves

CONSTANTS
  Settings,                 (* The settings a run chooses from.             *)
  Reach, FistReach,         (* The opponent's tables of ranges.             *)
  Distances, Reaction,
  MaxLog,                   (* Bound: events of a lesson or a dojo bout.    *)
  Imports, Chapters, Foes,  (* Bounds of the whole tale: see UmbraTale.     *)
  LineTicks

VARIABLES
  setting,
  profile, stored, synced, screen, returnTo, bout, fight, paused, dialogue,
  claimed, lesson, capture, reading, backups, bouts, swapped,
  bindings, finger, held, edges, tap, guard, thumb, focused, fresh,
  phase, canvas, job, renderer, tier, made, disposed, config, ladder, calm,
  audio, key,
  server, online, caches, content, installing, active, waiting, activating, puts, swept,
  archetype, fsm, wait, dist, foe, out,
  weapon, move, swing, struck, condition, daze, combo, hurt,
  mode, log, away, winner, stepIndex, signature, seen,
  links, told, open, selectMode, storyP0, versusP0, versusFoe, versusArena,
  talk, match, imports, late,
  phaseTick, timer, hitstop, round, wins, fighters, prev, boss, events

progress == <<profile, stored, synced, returnTo, bout, fight, dialogue, lesson,
              capture, reading, backups, bouts, swapped>>
input == <<bindings, finger, held, edges, tap, guard, thumb, focused, fresh>>
shell == <<canvas, job, renderer, tier, made, disposed, config, ladder,
           calm, audio, key>>
offline ==
  <<server, online, caches, content, installing, active, waiting, activating, puts,
    swept>>
ai == <<archetype, fsm, wait, dist, foe, out>>
chain == <<weapon, move, swing, struck, condition, daze, combo, hurt>>
drill == <<mode, log, away, stepIndex, signature, seen>>
tale == <<links, told, open, selectMode, storyP0, versusP0, versusFoe,
          versusArena, talk, match, imports, late>>
ring == <<phaseTick, timer, hitstop, round, wins, fighters, prev, boss, events>>
vars == <<setting, screen, paused, claimed, phase, winner, progress, input, shell,
          offline, ai, chain, drill, tale, ring>>

Off == "off"
NoProgress ==
  /\ profile = Off /\ stored = Off /\ synced = Off /\ returnTo = Off
  /\ bout = Off /\ fight = Off /\ dialogue = Off
  /\ lesson = Off /\ capture = Off /\ reading = Off /\ backups = Off
  /\ bouts = Off /\ swapped = Off
NoInput ==
  /\ bindings = Off /\ finger = Off /\ held = Off /\ edges = Off
  /\ tap = Off /\ guard = Off /\ thumb = Off /\ focused = Off /\ fresh = Off
NoShell ==
  /\ canvas = Off /\ job = Off /\ renderer = Off /\ tier = Off
  /\ made = Off /\ disposed = Off /\ config = Off /\ ladder = Off
  /\ calm = Off /\ audio = Off /\ key = Off
NoOffline ==
  /\ server = Off /\ online = Off /\ caches = Off /\ content = Off
  /\ installing = Off /\ active = Off /\ waiting = Off /\ activating = Off
  /\ puts = Off /\ swept = Off
NoAi ==
  /\ archetype = Off /\ fsm = Off /\ wait = Off /\ dist = Off
  /\ foe = Off /\ out = Off
NoChain ==
  /\ weapon = Off /\ move = Off /\ swing = Off /\ struck = Off
  /\ condition = Off /\ daze = Off /\ combo = Off /\ hurt = Off
NoDrill ==
  /\ mode = Off /\ log = Off /\ away = Off
  /\ stepIndex = Off /\ signature = Off /\ seen = Off
NoTale ==
  /\ links = Off /\ told = Off /\ open = Off /\ selectMode = Off
  /\ storyP0 = Off /\ versusP0 = Off /\ versusFoe = Off /\ versusArena = Off
  /\ talk = Off /\ match = Off /\ imports = Off /\ late = Off
NoRing ==
  /\ phaseTick = Off /\ timer = Off /\ hitstop = Off /\ round = Off /\ wins = Off
  /\ fighters = Off /\ prev = Off /\ boss = Off /\ events = Off

---------------------------------------------------------------------------
Scene(k) == [kind |-> k, boss |-> FALSE, arenas |-> {}, fighters |-> {}]
Chain == <<Scene("talk"),
           [Scene("fight") EXCEPT !.boss = TRUE, !.arenas = {1}],
           [Scene("talk") EXCEPT !.fighters = {"mira"}]>>

(* A short tale with a boss, on a storage that may refuse to write.         *)
Story == INSTANCE UmbraProgressProofs WITH
  Nodes <- Chain, Weapons <- <<>>, Trials <- <<>>, WinPay <- 1, OtherPay <- 0,
  BossPay <- 1, JackpotEvery <- 9, JackpotPay <- 1, Stipend <- 0,
  Tracks <- {}, TrainingCost <- 1, MaxLevel <- 0, MaxEmber <- 3, Refusals <- TRUE,
  Opponents <- {FALSE},
  MaxBouts <- 2, MaxBackups <- 1

(* Ember: awards, a trial, a weapon, a level, a backup.                     *)
Purse == INSTANCE UmbraProgressProofs WITH
  Nodes <- <<>>, Weapons <- [blade |-> 2], Trials <- [jab |-> 1], WinPay <- 2,
  OtherPay <- 1, BossPay <- 1, JackpotEvery <- 2, JackpotPay <- 1, Stipend <- 1,
  Tracks <- {"dmg"}, TrainingCost <- 1, MaxLevel <- 1, MaxEmber <- 3, Refusals <- FALSE,
  Opponents <- {TRUE},
  MaxBouts <- 2, MaxBackups <- 1

(* An attack with one key and a guard with two.                             *)
Keys == [punch |-> <<"j">>, block |-> <<"l", "m">>]
Input == INSTANCE UmbraInput WITH
  Actions <- DOMAIN Keys, Codes <- {"j", "l", "m"}, DefaultCodes <- Keys,
  Levels <- {"block"}, MaxQueue <- 2

(* The renderer of the boot, and one of the settings that overtakes it.     *)
Stage == INSTANCE UmbraShell WITH
  Jobs <- 1..2, Failing <- {"device", "shaders"}, Cooldown <- 1,
  Stored <- {[tier |-> 3, muted |-> FALSE, battery |-> FALSE]}

Offline == INSTANCE UmbraOffline WITH
  Shell <- {"app", "lib"}, Others <- {"extra"}, MaxRelease <- 3, MaxPending <- 1

(* Any table of ranges; TLC's has a longer jab and a shorter kick than the   *)
(* fists.                                                                   *)
Ai == INSTANCE UmbraAI WITH Fists <- FistReach
LongJab == [jab |-> 36, kick |-> 30, sweep |-> 30, uppercut |-> 20]
BareFists == [jab |-> 30, kick |-> 40, sweep |-> 34, uppercut |-> 28]

(* The real weapons against the frailest fighter, by the strongest.         *)
Combos == INSTANCE UmbraChain WITH Power <- 132, Rolls <- {1}, LeastHp <- 90

(* Any number of events; TLC's bouts have three or four.                    *)
Drill == INSTANCE UmbraDrill WITH Modes <- {"tutorial", "dojo"}
ShortLogs == [tutorial |-> 3, dojo |-> 4]

(* The whole tale, with profiles imported from anywhere in it: in TLC one,  *)
(* from its start or its end.                                               *)
Tale == INSTANCE UmbraTale

(* Three bouts: a single round long enough for blows to be parried, blocked *)
(* and cancelled, a round in which only a string of punches is thrown, and a *)
(* match of three short rounds.                                             *)
FrameData(id, damage, chip, stun) ==
  [id |-> id, startup |-> 1, active |-> 1, recovery |-> 1, damage |-> damage,
   chip |-> chip, stun |-> stun, heavy |-> FALSE, launches |-> FALSE,
   cancelInto |-> {}]
Buttons == {{}, {"punch"}, {"kick", "crouch"}, {"block"}}
ShortJab == [FrameData("jab", 1, 0, 2) EXCEPT !.cancelInto = {"sweep"}]
HeavyKick == [FrameData("kick", 1, 1, 1) EXCEPT !.heavy = TRUE]
LongSweep == [FrameData("sweep", 2, 1, 1) EXCEPT !.launches = TRUE]
RoundMoves == [jab |-> ShortJab, sweep |-> LongSweep]
PunchMoves ==
  [jab |-> [FrameData("jab", 1, 0, 3) EXCEPT !.cancelInto = {"cross"}],
   cross |-> FrameData("cross", 1, 1, 3)]
MatchMoves == [jab |-> [ShortJab EXCEPT !.cancelInto = {}], kick |-> HeavyKick]

Round == INSTANCE UmbraBoutProofs WITH
  Moves <- RoundMoves,
  Inputs <- Buttons,
  Bosses <- {"none", "summoner"}, Rolls <- {0},
  Rounds <- 1, RoundTicks <- 5, IntroTicks <- 1, RoundEndTicks <- 1,
  MaxHp <- 2, MaxStamina <- 2, ParryTicks <- 1, Daze <- 1,
  SummonEvery <- 1, Fuse <- 4, MaxAdds <- 2, StanceEvery <- 2

Punches == INSTANCE UmbraBoutProofs WITH
  Moves <- PunchMoves,
  Inputs <- {{}, {"punch"}},
  Bosses <- {"none"}, Rolls <- {0},
  Rounds <- 1, RoundTicks <- 8, IntroTicks <- 1, RoundEndTicks <- 1,
  MaxHp <- 3, MaxStamina <- 2, ParryTicks <- 1, Daze <- 1,
  SummonEvery <- 1, Fuse <- 1, MaxAdds <- 1, StanceEvery <- 1

Match == INSTANCE UmbraBoutProofs WITH
  Moves <- MatchMoves,
  Inputs <- {{}, {"punch"}, {"kick"}, {"jump"}},
  Bosses <- {"duelist", "eclipse"}, Rolls <- {0, 1},
  Rounds <- 3, RoundTicks <- 2, IntroTicks <- 2, RoundEndTicks <- 2,
  MaxHp <- 1, MaxStamina <- 1, ParryTicks <- 1, Daze <- 1,
  SummonEvery <- 1, Fuse <- 1, MaxAdds <- 1, StanceEvery <- 1

(* The content is what validateWeapons, validateStory, validateRoster,      *)
(* validateDojo and validateMoves accept.                                   *)
ASSUME ValidContent ==
  /\ ValidWeapons /\ ValidReferences /\ ValidRoster /\ Drill!ValidDojo
  /\ Round!ValidMoves /\ Punches!ValidMoves /\ Match!ValidMoves

(* Ranges and distances are whole numbers, a decision lasts at least a      *)
(* tick, and the bounds are what they bound.                                *)
Blows == {"jab", "kick", "sweep", "uppercut"}
ASSUME ValidReach ==
  /\ Reach \in [Blows -> Int] /\ FistReach \in [Blows -> Int]
  /\ Distances \subseteq Int /\ Reaction \in Nat \ {0}
ASSUME LogsEnd == MaxLog \in [{"tutorial", "dojo"} -> Nat]
ASSUME TalesEnd ==
  /\ Imports \in Nat /\ Chapters \subseteq 0..Len(StoryNodes)
  /\ Foes \subseteq DOMAIN Enemies /\ LineTicks \in Nat

---------------------------------------------------------------------------
Fights == {"round", "punches", "match"}
ASSUME KnownSettings ==
  Settings \subseteq
    Fights \cup {"story", "purse", "input", "shell", "offline", "ai", "combos", "drill",
                "tale"}

Init ==
  /\ setting \in Settings
  /\ CASE setting = "story" -> Story!Init [] setting = "purse" -> Purse!Init
       [] OTHER -> NoProgress
  /\ IF setting = "input" THEN Input!Init ELSE NoInput
  /\ IF setting = "shell" THEN Stage!Init ELSE NoShell
  /\ IF setting = "offline" THEN Offline!Init ELSE NoOffline
  /\ IF setting = "ai" THEN Ai!Init ELSE NoAi
  /\ IF setting = "combos" THEN Combos!Init ELSE NoChain
  /\ IF setting = "drill" THEN Drill!Init ELSE NoDrill
  /\ IF setting = "tale" THEN Tale!Init ELSE NoTale
  /\ CASE setting = "round" -> Round!Init [] setting = "punches" -> Punches!Init
       [] setting = "match" -> Match!Init [] OTHER -> NoRing
  /\ setting \in {"offline", "ai", "combos", "drill"} \cup Fights => screen = Off
  /\ setting \notin {"story", "purse", "input"} => paused = Off
  /\ setting \notin {"story", "purse", "drill"} => claimed = Off
  /\ setting \notin {"shell"} \cup Fights => phase = Off
  /\ setting \notin {"drill"} \cup Fights => winner = Off

InBout(f, part) ==
  /\ setting = f /\ part
  /\ UNCHANGED <<screen, paused, claimed, progress, input, shell, offline, ai, chain,
                 drill, tale>>

Next ==
  /\ \/ /\ setting = "story" /\ Story!Next
        /\ UNCHANGED <<phase, winner, input, shell, offline, ai, chain, drill, tale, ring>>
     \/ /\ setting = "purse" /\ Purse!Next
        /\ UNCHANGED <<phase, winner, input, shell, offline, ai, chain, drill, tale, ring>>
     \/ /\ setting = "input" /\ Input!Next
        /\ UNCHANGED <<claimed, phase, winner, progress, shell, offline, ai, chain, drill,
                       tale, ring>>
     \/ /\ setting = "shell" /\ Stage!Next
        /\ UNCHANGED <<paused, claimed, winner, progress, input, offline, ai, chain, drill,
                       tale, ring>>
     \/ /\ setting = "offline" /\ Offline!Next
        /\ UNCHANGED <<screen, paused, claimed, phase, winner, progress, input, shell, ai,
                       chain, drill, tale, ring>>
     \/ /\ setting = "ai" /\ Ai!Next
        /\ UNCHANGED <<screen, paused, claimed, phase, winner, progress, input, shell,
                       offline, chain, drill, tale, ring>>
     \/ /\ setting = "combos" /\ Combos!Next
        /\ UNCHANGED <<screen, paused, claimed, phase, winner, progress, input, shell,
                       offline, ai, drill, tale, ring>>
     \/ /\ setting = "drill" /\ Drill!Next
        /\ UNCHANGED <<screen, paused, phase, progress, input, shell, offline, ai, chain,
                       tale, ring>>
     \/ /\ setting = "tale" /\ Tale!Next
        /\ UNCHANGED <<paused, claimed, phase, winner, progress, input, shell, offline, ai,
                       chain, drill, ring>>
     \/ InBout("round", Round!Next)
     \/ InBout("punches", Punches!Next)
     \/ InBout("match", Match!Next)
  /\ UNCHANGED setting

Spec == Init /\ [][Next]_vars

---------------------------------------------------------------------------
(* The properties of the modules, each in its settings.                     *)

(* The type invariants of the settings.                                     *)
TypeOK ==
  /\ (setting = "story" => Story!TypeOK) /\ (setting = "purse" => Purse!TypeOK)
  /\ (setting = "input" => Input!TypeOK) /\ (setting = "shell" => Stage!TypeOK)
  /\ (setting = "offline" => Offline!TypeOK) /\ (setting = "ai" => Ai!TypeOK)
  /\ (setting = "combos" => Combos!TypeOK) /\ (setting = "drill" => Drill!TypeOK)
  /\ (setting = "tale" => Tale!TypeOK) /\ (setting = "round" => Round!TypeOK)
  /\ (setting = "punches" => Punches!TypeOK) /\ (setting = "match" => Match!TypeOK)

Told(s, p) == (setting = "story" => s) /\ (setting = "purse" => p)

(* Completed nodes are a prefix of the tale and unlock what is open.  Of    *)
(* the real tale: only chains that can be told to their end are accepted,   *)
(* cards and fights are open when it says so, and every fight is.           *)
StoryInOrder ==
  /\ Told(Story!StoryInOrder, Purse!StoryInOrder)
  /\ setting = "tale" =>
       Tale!ValidTalesAreTold /\ Tale!CardsKeepTheirWord /\ Tale!FightsAreOpen

(* After every handler the stored profile is the one that is played.        *)
EarnedIsStored == Told(Story!EarnedIsStored, Purse!EarnedIsStored)

(* A one-time reward is paid once; lessons and trials are cleared by what   *)
(* the student has done, and whenever it was done.                          *)
RewardsEarned ==
  /\ Told(Story!RewardsPaidOnce, Purse!RewardsPaidOnce)
  /\ setting = "drill" => Drill!LessonsWereShown /\ Drill!TrialsAreFound

(* No string of blows knocks a fresh fighter out before it can act again,   *)
(* but for the nunchaku's.                                                  *)
EscapeBeforeKo == setting = "combos" => Combos!EscapeBeforeKo

TurnStep ==
  /\ setting = "story" => Story!VictoryStep
  /\ setting = "tale" => Tale!SceneStep
(* A fight of the tale is completed by winning that very bout, a scene by   *)
(* its last line, each in its turn.                                         *)
OnlyVictoryCounts == [][TurnStep]_vars

(* No key and no button sticks.                                             *)
HeldIsReal == setting = "input" => Input!HeldIsReal

(* No press fires later than the first tick after it.                       *)
PressIsFresh == setting = "input" => Input!PressIsFresh

(* Frames are drawn by a living renderer of the tier that is shown.         *)
DrawsOnLive == setting = "shell" => Stage!DrawsOnLive

(* A fallback chain that ended left a renderer.                             *)
ChainEndsDrawing == setting = "shell" => Stage!ChainEndsDrawing

(* The engine is muted when the setting says so.                            *)
MuteFollowsSetting == setting = "shell" => Stage!MuteFollowsSetting

(* The active worker's shell is whole and not older than the worker.        *)
OfflineIsWhole == setting = "offline" => Offline!OfflineIsWhole

(* The opponent strikes only at a foe within reach of its table.            *)
PlansInReach == setting = "ai" => Ai!PlansInReach

(* The properties of the bout, in the setting the run is in.                *)
Fought(r, p, m) ==
  (setting = "round" => r) /\ (setting = "punches" => p) /\ (setting = "match" => m)

(* No tick of a running round leaves a fighter without health on its feet.  *)
KoEndsRound == Fought(Round!KoEndsRound, Punches!KoEndsRound, Match!KoEndsRound)

(* Neither side has the advantage of stepping first.                        *)
SidesAreEqual == Fought(Round!SidesAreEqual, Punches!SidesAreEqual, Match!SidesAreEqual)

(* The bout runs while nobody has the majority and ends with who leads.     *)
ScoreSettled == Fought(Round!ScoreSettled, Punches!ScoreSettled, Match!ScoreSettled)

HitStep ==
  Fought(Round!EveryHitCountsStep, Punches!EveryHitCountsStep, Match!EveryHitCountsStep)
(* A clean blow costs its victim health in the tick it lands.               *)
EveryHitCounts == [][HitStep]_vars

ShorterStep == Fought(Round!Shorter, Punches!Shorter, Match!Shorter)
(* Every tick uses up some of what is left of the bout.                     *)
BoutShortens == [][ShorterStep]_vars

StunStep == Fought(Round!StunAppliedStep, Punches!StunAppliedStep, Match!StunAppliedStep)
(* types.js: the stun of a move is applied to whoever it hits clean.        *)
StunApplied == [][StunStep]_vars
=============================================================================
