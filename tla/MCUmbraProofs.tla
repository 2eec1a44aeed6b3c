---------------------------- MODULE MCUmbraProofs ----------------------------
(***************************************************************************)
(* What the theorems of umbra's parts say of the instances that TLC checks: *)
(* a behaviour keeps to its setting, and a step of a setting is a step of   *)
(* its part.  The opponent, the lessons and the tale, whose constants the   *)
(* instances leave open, are proved about here.                             *)
(***************************************************************************)
EXTENDS MCUmbra, FiniteSetTheorems, SequenceTheorems, TLAPS

(* The parts take turns by the setting: only the one that was chosen moves. *)
LEMMA SettingStays ==
  ASSUME [Next]_vars
  PROVE  setting' = setting
BY DEF Next, vars

LEMMA InputSteps ==
  ASSUME [Next]_vars, setting = "input"
  PROVE  [Input!Next]_(Input!vars)
BY DEF Next, InBout, vars, input, Input!vars

LEMMA OfflineSteps ==
  ASSUME [Next]_vars, setting = "offline"
  PROVE  [Offline!Next]_(Offline!vars)
BY DEF Next, InBout, vars, offline, Offline!vars, Offline!workers

LEMMA StageSteps ==
  ASSUME [Next]_vars, setting = "shell"
  PROVE  [Stage!Next]_(Stage!vars)
BY DEF Next, InBout, vars, shell, Stage!vars

LEMMA StorySteps ==
  ASSUME [Next]_vars, setting = "story"
  PROVE  [Story!Next]_(Story!vars)
BY DEF Next, InBout, vars, progress, Story!vars

LEMMA TaleSteps ==
  ASSUME [Next]_vars, setting = "tale"
  PROVE  [Tale!Next]_(Tale!vars)
BY DEF Next, InBout, vars, tale, Tale!vars

LEMMA PurseSteps ==
  ASSUME [Next]_vars, setting = "purse"
  PROVE  [Purse!Next]_(Purse!vars)
BY DEF Next, InBout, vars, progress, Purse!vars

(* In the setting of the keyboard no key and no button sticks.              *)
THEOREM KeysAreReal == Spec => []HeldIsReal
<1> DEFINE Inv == setting = "input" => Input!HandInv
<1>1. Init => Inv
  BY Input!HandInit DEF Init
<1>2. Inv /\ [Next]_vars => Inv'
  BY InputSteps, SettingStays, Input!HandStep
<1>3. Inv => HeldIsReal
  BY DEF HeldIsReal, Input!HandInv
<1> QED
  BY <1>1, <1>2, <1>3, PTL DEF Spec

(* In the setting of the keyboard no press outlives the tick after it.      *)
THEOREM PressesAreFresh == Spec => []PressIsFresh
<1> DEFINE Inv == setting = "input" => Input!PressInv
<1>1. Init => Inv
  BY Input!PressInit DEF Init
<1>2. Inv /\ [Next]_vars => Inv'
  BY InputSteps, SettingStays, Input!PressStep
<1>3. Inv => PressIsFresh
  BY Input!FreshIsGiven DEF PressIsFresh
<1> QED
  BY <1>1, <1>2, <1>3, PTL DEF Spec

(* In the setting of the worker the active shell is whole.                  *)
THEOREM ShellIsWhole == Spec => []OfflineIsWhole
<1> DEFINE Inv == setting = "offline" => Offline!ShellInv
<1> USE 3 \in Nat \ {0}
<1>1. Init => Inv
  BY Offline!ShellInit DEF Init
<1>2. Inv /\ [Next]_vars => Inv'
  BY OfflineSteps, SettingStays, Offline!ShellStep
<1>3. Inv => OfflineIsWhole
  BY Offline!WholeOffline DEF OfflineIsWhole
<1> QED
  BY <1>1, <1>2, <1>3, PTL DEF Spec

(* In the setting of the stage frames are drawn by a living renderer.       *)
THEOREM StageDraws == Spec => []DrawsOnLive
<1> DEFINE Inv == setting = "shell" => Stage!StageInv
<1>1. Init => Inv
  BY Stage!StageInit DEF Init, Stage!Tiers, Stage!AutoTier
<1>2. Inv /\ [Next]_vars => Inv'
  BY StageSteps, SettingStays, Stage!StageStep
<1>3. Inv => DrawsOnLive
  BY DEF DrawsOnLive, Stage!StageInv, Stage!Drawn
<1> QED
  BY <1>1, <1>2, <1>3, PTL DEF Spec

(* In the settings of the profile what is played is what is stored.         *)
THEOREM NothingUnsaved == Spec => []EarnedIsStored
<1> DEFINE Inv == /\ setting = "story" => Story!BankInv /\ Story!PayInv
                  /\ setting = "purse" => Purse!BankInv /\ Purse!PayInv
<1>0. /\ Len(Chain) \in Nat /\ Len(<<>>) \in Nat /\ {0, 1, 3} \subseteq Nat
      /\ "stipend" \notin DOMAIN <<>> /\ "stipend" \notin DOMAIN [jab |-> 1]
  BY DEF Chain
<1>1. Init => Inv
  BY <1>0, Story!BankInit, Purse!BankInit DEF Init
<1>2. Inv /\ [Next]_vars => Inv'
  BY <1>0, StorySteps, PurseSteps, SettingStays, Story!BankStep, Purse!BankStep
<1>3. Inv => EarnedIsStored
  <2>a. Inv => Told(Story!EarnedIsStored, Purse!EarnedIsStored)
    BY DEF Told, Story!BankInv, Purse!BankInv
  <2> QED
    BY <2>a DEF EarnedIsStored
<1> QED
  BY <1>1, <1>2, <1>3, PTL DEF Spec

(* In the short tale of the instance no two fights follow one another.      *)
LEMMA ChainBetween == Len(Chain) = 3 /\ Story!ScenesBetween
<1>1. /\ Len(Chain) = 3 /\ Chain[1].kind = "talk" /\ Chain[2].kind = "fight"
      /\ Chain[3].kind = "talk"
  BY DEF Chain, Scene
<1> QED
  BY <1>1 DEF Story!ScenesBetween, Story!Chain

(* A node of the whole tale is completed in its turn, by its own last line  *)
(* or by the bout it was, unless the behaviour imports a profile.           *)
LEMMA TaleScenes ==
  ASSUME imports \in Nat, [Tale!Next]_(Tale!vars)
  PROVE  imports' \in Nat /\ Tale!SceneStep
<1>1. CASE told' = told /\ imports' = imports
  BY <1>1 DEF Tale!SceneStep
<1>2. ASSUME NEW n \in Chapters, Tale!Import(n) PROVE imports' \in Nat /\ Tale!SceneStep
  BY <1>2 DEF Tale!Import, Tale!SceneStep
<1>3. CASE Tale!TellOn
  BY <1>3 DEF Tale!TellOn, Tale!arrivals, Tale!SceneStep
<1>4. CASE Tale!StepDialogue
  <2>a. CASE Tale!LineComplete /\ Tale!LastLine /\ Tale!Cursor = talk.node
    BY <1>4, <2>a DEF Tale!StepDialogue, Tale!CompleteNode, Tale!arrivals, Tale!SceneStep
  <2> QED
    BY <1>1, <1>4, <2>a DEF Tale!StepDialogue, Tale!arrivals
<1>5. CASE Tale!ContinueStory
  <2>a. CASE Tale!Cursor = match.node
    BY <1>5, <2>a DEF Tale!ContinueStory, Tale!CompleteNode, Tale!arrivals, Tale!SceneStep
  <2> QED
    BY <1>1, <1>5, <2>a DEF Tale!ContinueStory, Tale!arrivals
<1>6. CASE UNCHANGED Tale!vars
  BY <1>1, <1>6 DEF Tale!vars, Tale!arrivals
<1> QED
  BY <1>1, <1>2, <1>3, <1>4, <1>5, <1>6
  DEF Tale!Next, Tale!ToldOut, Tale!vars, Tale!arrivals, Tale!OpenSelect, Tale!Choose,
      Tale!PickFoe, Tale!PickArena, Tale!Back, Tale!Shop, Tale!VersusFight, Tale!Rematch,
      Tale!BoutEnds, Tale!PlayScene, Tale!TickDialogue

(* Nothing but a victory completes a fight: in the short tale with its      *)
(* storage and its backups, and in the whole tale with its dialogues.       *)
THEOREM VictoriesCount == Spec => OnlyVictoryCounts
<1> DEFINE Inv == /\ setting = "story" => Story!BankInv /\ Story!PayInv /\ Story!SceneInv
                  /\ setting = "tale" => imports \in Nat
<1>0. /\ Len(Chain) \in Nat /\ {0, 1, 3} \subseteq Nat /\ "stipend" \notin DOMAIN <<>>
      /\ Story!ScenesBetween
  BY ChainBetween
<1>1. Init => Inv
  <2>a. Init => (setting = "story" => Story!BankInv /\ Story!PayInv)
    BY <1>0, Story!BankInit DEF Init
  <2>b. Init => (setting = "story" => Story!SceneInv)
    BY <1>0, Story!SceneInit DEF Init
  <2>c. Init => (setting = "tale" => imports \in Nat)
    BY DEF Init, Tale!Init
  <2> QED
    BY <2>a, <2>b, <2>c
<1>2. Inv /\ [Next]_vars => Inv'
  BY <1>0, StorySteps, TaleSteps, SettingStays, Story!BankStep, Story!SceneStep, TaleScenes
<1>3. Inv /\ [Next]_vars => [TurnStep]_vars
  BY <1>0, StorySteps, TaleSteps, Story!VictoryNeeded, TaleScenes DEF TurnStep
<1> QED
  BY <1>1, <1>2, <1>3, PTL DEF Spec, OnlyVictoryCounts

LEMMA RoundSteps ==
  ASSUME [Next]_vars, setting = "round"
  PROVE  [Round!Next]_(Round!vars) /\ (UNCHANGED Round!vars => UNCHANGED vars)
BY DEF Next, InBout, vars, ring, Round!vars

LEMMA PunchSteps ==
  ASSUME [Next]_vars, setting = "punches"
  PROVE  [Punches!Next]_(Punches!vars) /\ (UNCHANGED Punches!vars => UNCHANGED vars)
BY DEF Next, InBout, vars, ring, Punches!vars

LEMMA MatchSteps ==
  ASSUME [Next]_vars, setting = "match"
  PROVE  [Match!Next]_(Match!vars) /\ (UNCHANGED Match!vars => UNCHANGED vars)
BY DEF Next, InBout, vars, ring, Match!vars

(* The three bouts' tables and lengths are as the code requires.            *)
LEMMA BoutsAreMade ==
  /\ Round!Clocks /\ Punches!Clocks /\ Match!Clocks
  /\ Round!Tables /\ Punches!Tables /\ Match!Tables
  /\ Round!Luckless /\ Punches!Luckless /\ Match!Luckless
<1>1. Round!Clocks /\ Punches!Clocks /\ Match!Clocks
  BY DEF Round!Clocks, Punches!Clocks, Match!Clocks
<1>2. Round!Luckless /\ Punches!Luckless /\ Match!Luckless
  BY DEF Round!Luckless, Punches!Luckless, Match!Luckless
<1>3. Round!Tables
  BY DEF Round!Tables, Round!None, RoundMoves, ShortJab, LongSweep, FrameData
<1>4. Punches!Tables
  BY DEF Punches!Tables, Punches!None, PunchMoves, FrameData
<1>5. Match!Tables
  <2>a. /\ DOMAIN MatchMoves = {"jab", "kick"}
        /\ MatchMoves["jab"] = [ShortJab EXCEPT !.cancelInto = {}]
        /\ MatchMoves["kick"] = HeavyKick
    BY DEF MatchMoves
  <2> DEFINE Whole(mv) == /\ mv.damage \in Nat /\ mv.chip \in Nat /\ mv.stun \in Nat
                          /\ mv.cancelInto = {}
  <2>b. Whole([ShortJab EXCEPT !.cancelInto = {}]) /\ Whole(HeavyKick)
    BY DEF ShortJab, HeavyKick, FrameData
  <2> HIDE DEF Whole
  <2>c. \A m \in DOMAIN MatchMoves : Whole(MatchMoves[m])
    BY <2>a, <2>b
  <2> QED
    BY <2>a, <2>c DEF Match!Tables, Match!None, Whole
<1> QED
  BY <1>1, <1>2, <1>3, <1>4, <1>5

LEMMA BoutsBegin ==
  ASSUME Init
  PROVE  /\ setting = "round" => Round!Init
         /\ setting = "punches" => Punches!Init
         /\ setting = "match" => Match!Init
BY Zenon DEF Init

(* In every bout a fighter without health ends the round (checkRoundEnd).   *)
THEOREM KnockoutsEnd == Spec => []KoEndsRound
<1> DEFINE Inv == /\ setting = "round" => Round!KoInv
                  /\ setting = "punches" => Punches!KoInv
                  /\ setting = "match" => Match!KoInv
<1>1. Init => Inv
  BY BoutsBegin, BoutsAreMade, Round!KoInit, Punches!KoInit, Match!KoInit
<1>2. Inv /\ [Next]_vars => Inv'
  BY RoundSteps, PunchSteps, MatchSteps, SettingStays, BoutsAreMade, Round!KoStep,
     Punches!KoStep, Match!KoStep
<1>3. Inv => KoEndsRound
  BY DEF KoEndsRound, Fought, Round!KoInv, Punches!KoInv, Match!KoInv,
         Round!KoEndsRound, Punches!KoEndsRound, Match!KoEndsRound
<1> QED
  BY <1>1, <1>2, <1>3, PTL DEF Spec

(* In every bout a clean blow costs its victim health (mergeDefender).      *)
THEOREM CleanBlowsCost == Spec => EveryHitCounts
<1> DEFINE Inv == /\ setting = "round" => Round!KoInv
                  /\ setting = "punches" => Punches!KoInv
                  /\ setting = "match" => Match!KoInv
<1>1. Init => Inv
  BY BoutsBegin, BoutsAreMade, Round!KoInit, Punches!KoInit, Match!KoInit
<1>2. Inv /\ [Next]_vars => Inv'
  BY RoundSteps, PunchSteps, MatchSteps, SettingStays, BoutsAreMade, Round!KoStep,
     Punches!KoStep, Match!KoStep
<1>3. Inv /\ [Next]_vars => [HitStep]_vars
  BY RoundSteps, PunchSteps, MatchSteps, SettingStays, BoutsAreMade, Round!KoStep,
     Punches!KoStep, Match!KoStep
  DEF HitStep, Fought
<1> QED
  BY <1>1, <1>2, <1>3, PTL DEF Spec, EveryHitCounts

(* In every bout neither side steps first (stepFight).                      *)
THEOREM SidesTradeEvenly == Spec => []SidesAreEqual
<1>1. SidesAreEqual
  BY Round!SidesEqual, Punches!SidesEqual, Match!SidesEqual DEF SidesAreEqual, Fought
<1> QED
  BY <1>1, PTL

(* In every bout the score is settled exactly when the bout is over         *)
(* (endRound).                                                              *)
THEOREM ScoresAreSettled == Spec => []ScoreSettled
<1> DEFINE Inv == /\ setting = "round" => Round!ScoreInv
                  /\ setting = "punches" => Punches!ScoreInv
                  /\ setting = "match" => Match!ScoreInv
<1>1. Init => Inv
  BY BoutsBegin, BoutsAreMade, Round!ScoreInit, Punches!ScoreInit, Match!ScoreInit
<1>2. Inv /\ [Next]_vars => Inv'
  BY RoundSteps, PunchSteps, MatchSteps, SettingStays, BoutsAreMade, Round!ScoreStep,
     Punches!ScoreStep, Match!ScoreStep
<1>3. Inv => ScoreSettled
  BY DEF ScoreSettled, Fought, Round!ScoreInv, Punches!ScoreInv, Match!ScoreInv
<1> QED
  BY <1>1, <1>2, <1>3, PTL DEF Spec

(* In every bout each tick uses up some of what is left (stepFight).        *)
THEOREM TicksRunOut == Spec => BoutShortens
<1> DEFINE Inv == /\ setting = "round" => Round!ScoreInv /\ Round!ClockInv
                  /\ setting = "punches" => Punches!ScoreInv /\ Punches!ClockInv
                  /\ setting = "match" => Match!ScoreInv /\ Match!ClockInv
<1>0. /\ Round!ScoreInv => round \in 1..1
      /\ Punches!ScoreInv => round \in 1..1
      /\ Match!ScoreInv => round \in 1..3
  BY DEF Round!ScoreInv, Punches!ScoreInv, Match!ScoreInv
<1>1. Init => Inv
  BY BoutsBegin, BoutsAreMade, Round!ScoreInit, Punches!ScoreInit, Match!ScoreInit,
     Round!ClockInit, Punches!ClockInit, Match!ClockInit
<1>2. Inv /\ [Next]_vars => Inv' /\ [ShorterStep]_vars
  <2> SUFFICES ASSUME Inv, [Next]_vars PROVE Inv' /\ [ShorterStep]_vars
    OBVIOUS
  <2>a. CASE setting = "round"
    BY <1>0, <2>a, RoundSteps, SettingStays, BoutsAreMade, Round!ScoreStep, Round!ClockStep
    DEF ShorterStep, Fought
  <2>b. CASE setting = "punches"
    BY <1>0, <2>b, PunchSteps, SettingStays, BoutsAreMade, Punches!ScoreStep,
       Punches!ClockStep DEF ShorterStep, Fought
  <2>c. CASE setting = "match"
    BY <1>0, <2>c, MatchSteps, SettingStays, BoutsAreMade, Match!ScoreStep,
       Match!ClockStep DEF ShorterStep, Fought
  <2>d. CASE setting \notin Fights
    BY <2>d, SettingStays DEF Fights, ShorterStep, Fought
  <2> QED
    BY <2>a, <2>b, <2>c, <2>d DEF Fights
<1> QED
  BY <1>1, <1>2, PTL DEF Spec, BoutShortens

-----------------------------------------------------------------------------
(* The opponent.                                                            *)

LEMMA AiSteps ==
  ASSUME [Next]_vars, setting = "ai"
  PROVE  [Ai!Next]_(Ai!vars)
BY DEF Next, InBout, vars, ai, Ai!vars

(* A strike is only thrown at a foe its range covers.                       *)
LEMMA StrikesReach ==
  ASSUME NEW d \in Distances, NEW m \in Ai!Strikes(d), m # "none"
  PROVE  d < Reach[m]
<1>1. d \in Int /\ \A b \in Blows : Reach[b] \in Int
  BY ValidReach
<1>2. m \in Blows /\ d <= Ai!ReachOf(m)
  BY DEF Ai!Strikes, Blows
<1> QED
  BY <1>1, <1>2 DEF Ai!ReachOf

(* Whatever it decided and however long ago, the opponent strikes within    *)
(* the table of its bout (tryStrike).                                       *)
THEOREM StrikesAreInReach == Spec => []PlansInReach
<1> DEFINE Inv == setting = "ai" => dist \in Distances /\ Ai!PlansInReach
<1>1. Init => Inv
  BY DEF Init, Ai!Init, Ai!PlansInReach, Ai!Still
<1>2. Inv /\ [Next]_vars => Inv'
  <2> SUFFICES ASSUME Inv, [Next]_vars, setting = "ai"
               PROVE  dist' \in Distances /\ Ai!PlansInReach'
    BY SettingStays
  <2>a. dist \in Distances /\ Ai!PlansInReach /\ [Ai!Next]_(Ai!vars)
    BY AiSteps
  <2>b. CASE Ai!AiInput
    <3> DEFINE Fair(o) == o.strike \in Ai!Strikes(dist) \cup {"none"} /\ o.at = dist
    <3>1. ASSUME NEW mv, NEW b, NEW s, NEW j, NEW st, st \subseteq Ai!Strikes(dist) \cup {"none"},
                 NEW o \in Ai!Act(mv, st, b, s, j)
          PROVE  Fair(o)
      BY <3>1 DEF Ai!Act
    <3>2. {"none"} \subseteq Ai!Strikes(dist)
      BY DEF Ai!Strikes
    <3> HIDE DEF Fair
    <3>3. \A o \in Ai!Approach : Fair(o)
      BY <3>1, <3>2 DEF Ai!Approach
    <3>4. \A o \in Ai!Punish : Fair(o)
      BY <3>1, <3>2 DEF Ai!Punish
    <3>5. \A o \in Ai!Retreat : Fair(o)
      BY <3>1, <3>2 DEF Ai!Retreat
    <3>6. \A o \in Ai!Neutral : Fair(o)
      BY <3>1, <3>2 DEF Ai!Neutral
    <3>7. Fair(out')
      BY Zenon, <2>b, <3>3, <3>4, <3>5, <3>6 DEF Ai!AiInput
    <3> QED
      BY <2>a, <2>b, <3>7, StrikesReach DEF Ai!AiInput, Ai!PlansInReach, Fair
  <2>c. CASE Ai!Stance \/ UNCHANGED Ai!vars
    BY <2>a, <2>c DEF Ai!Stance, Ai!vars, Ai!PlansInReach
  <2> QED
    BY <2>a, <2>b, <2>c DEF Ai!Next
<1>3. Inv => PlansInReach
  BY DEF PlansInReach
<1> QED
  BY <1>1, <1>2, <1>3, PTL DEF Spec

-----------------------------------------------------------------------------
(* Recursion over the numbers, by induction over sets: what the lessons and *)
(* the tale compute with functions that are defined by recursion.           *)

(* Induction, over sets: a set that has 0 and with each number the next one *)
(* has every number.  Were k missing, adding one would map the members up   *)
(* to k one to one into the members but 0.                                  *)
LEMMA NatSetInduction ==
  ASSUME NEW A, 0 \in A, \A n \in A : n \in Nat => n + 1 \in A
  PROVE  Nat \subseteq A
<1> SUFFICES ASSUME NEW k \in Nat, k \notin A PROVE FALSE
  OBVIOUS
<1> DEFINE Low == {n \in 0..k : n \in A}
           up == [n \in Low |-> n + 1]
<1>1. IsFiniteSet(Low)
  BY FS_BoundedSetOfNaturals
<1>2. up \in [Low -> Low \ {0}]
  OBVIOUS
<1>3. 0 \in Low
  OBVIOUS
<1>4. /\ IsFiniteSet(Low \ {0})
      /\ Cardinality(Low \ {0}) = Cardinality(Low) - 1
  BY <1>1, <1>3, FS_RemoveElement
<1>5. Cardinality(Low) \in Nat
  BY <1>1, FS_CardinalityType
<1>6. \E x, y \in Low : x # y /\ up[x] = up[y]
  <2> HIDE DEF Low, up
  <2> QED
    BY <1>1, <1>2, <1>4, <1>5, FS_PigeonHole
<1> QED
  BY <1>6

(* A function defined from its last value, by the step h from c on.         *)
Recurs(g, c, h, D) ==
  /\ g \in [Nat -> D] /\ g[0] = c
  /\ \A n \in Nat : n # 0 => g[n] = h[<<n, g[n - 1]>>]
StepOn(h, D) == h \in [Nat \X D -> D]

(* There is such a function, whatever the step.                             *)
LEMMA NatRecursion ==
  ASSUME NEW D, NEW c \in D, NEW h, StepOn(h, D)
  PROVE  \E g : Recurs(g, c, h, D)
<1> USE DEF StepOn
<1> DEFINE Upto(g, k) ==
             /\ g \in [Nat -> D]
             /\ g[0] = c
             /\ \A n \in 1..k : g[n] = h[<<n, g[n - 1]>>]
           Agree(k) == \A f, g : Upto(f, k) /\ Upto(g, k) => f[k] = g[k]
           Ok == {k \in Nat : (\E g : Upto(g, k)) /\ Agree(k)}
<1>1. 0 \in Ok
  <2>a. Upto([n \in Nat |-> c], 0)
    OBVIOUS
  <2> QED
    BY <2>a
<1>2. ASSUME NEW k \in Nat, NEW g, Upto(g, k + 1)
      PROVE  Upto(g, k) /\ g[k + 1] = h[<<k + 1, g[k]>>]
  <2>a. g[k + 1] = h[<<k + 1, g[(k + 1) - 1]>>]
    BY <1>2
  <2> QED
    BY <1>2, <2>a
<1>3. ASSUME NEW k \in Nat, NEW g, Upto(g, k)
      PROVE  Upto([g EXCEPT ![k + 1] = h[<<k + 1, g[k]>>]], k + 1)
  <2> DEFINE f == [g EXCEPT ![k + 1] = h[<<k + 1, g[k]>>]]
  <2>a. f \in [Nat -> D] /\ f[0] = c /\ f[k + 1] = h[<<k + 1, f[k]>>]
    BY <1>3
  <2>b. ASSUME NEW n \in 1..k PROVE f[n] = h[<<n, f[n - 1]>>]
    <3>1. f[n] = g[n] /\ f[n - 1] = g[n - 1]
      BY <1>3
    <3> QED
      BY <1>3, <3>1
  <2>c. \A n \in 1..(k + 1) : n \in 1..k \/ n = k + 1
    OBVIOUS
  <2> HIDE DEF f
  <2>d. (k + 1) - 1 = k
    OBVIOUS
  <2> QED
    BY <2>a, <2>b, <2>c, <2>d DEF f
<1>4. ASSUME NEW k \in Ok PROVE k + 1 \in Ok
  <2>a. k \in Nat /\ Agree(k)
    OBVIOUS
  <2>b. \E g : Upto(g, k + 1)
    <3>1. PICK g : Upto(g, k)
      OBVIOUS
    <3> HIDE DEF Upto
    <3> QED
      BY <1>3, <2>a, <3>1
  <2>c. Agree(k + 1)
    <3> HIDE DEF Upto
    <3> SUFFICES ASSUME NEW e, NEW f, Upto(e, k + 1), Upto(f, k + 1)
                 PROVE  e[k + 1] = f[k + 1]
      OBVIOUS
    <3>1. e[k] = f[k]
      BY <1>2, <2>a
    <3>2. e[k + 1] = h[<<k + 1, e[k]>>] /\ f[k + 1] = h[<<k + 1, f[k]>>]
      BY <1>2, <2>a
    <3> QED
      BY <3>1, <3>2
  <2> HIDE DEF Upto, Agree
  <2> QED
    BY <2>a, <2>b, <2>c
<1>5. \A k \in Nat : k \in Ok
  <2> HIDE DEF Ok
  <2> QED
    BY <1>1, <1>4, NatSetInduction
<1> DEFINE part == [k \in Nat |-> CHOOSE g : Upto(g, k)]
           whole == [k \in Nat |-> part[k][k]]
<1>6. \A k \in Nat : Upto(part[k], k) /\ Agree(k)
  <2> HIDE DEF Upto, Agree
  <2> QED
    BY <1>5
<1>7. whole \in [Nat -> D] /\ whole[0] = c
  <2>a. \A k \in Nat : part[k] \in [Nat -> D] /\ part[0][0] = c
    BY <1>6
  <2> HIDE DEF part
  <2> QED
    BY <2>a
<1>8. ASSUME NEW k \in Nat PROVE whole[k + 1] = h[<<k + 1, whole[k]>>]
  <2> HIDE DEF part, Upto
  <2>a. Upto(part[k + 1], k + 1) /\ Upto(part[k], k)
    BY <1>6
  <2>b. Upto(part[k + 1], k) /\ part[k + 1][k + 1] = h[<<k + 1, part[k + 1][k]>>]
    BY <1>2, <2>a
  <2>c. part[k + 1][k] = part[k][k]
    BY <1>6, <2>a, <2>b
  <2> QED
    BY <2>b, <2>c
<1>9. ASSUME NEW n \in Nat, n # 0 PROVE whole[n] = h[<<n, whole[n - 1]>>]
  <2> HIDE DEF whole
  <2>a. n - 1 \in Nat /\ (n - 1) + 1 = n
    BY <1>9
  <2> QED
    BY <1>8, <2>a
<1> HIDE DEF whole
<1> QED
  BY <1>7, <1>9 DEF Recurs

-----------------------------------------------------------------------------
(* Lessons and trials.                                                      *)

(* The function of checkTrial is what its definition says, and grows by at  *)
(* most one an event.                                                       *)
LEMMA MatchingSteps ==
  ASSUME NEW want, NEW evs, Len(want) \in Nat
  PROVE  /\ Drill!Matching(want, evs) \in [Nat -> Nat]
         /\ Drill!Matching(want, evs)[0] = 0
         /\ \A n \in Nat :
              LET k == Drill!Matching(want, evs)[n]
              IN  Drill!Matching(want, evs)[n + 1] =
                    IF k < Len(want) /\ Drill!OwnHit(evs[n + 1], want[k + 1]) THEN k + 1 ELSE k
<1> DEFINE Next1(n, k) == IF k < Len(want) /\ Drill!OwnHit(evs[n], want[k + 1]) THEN k + 1 ELSE k
<1>1. PICK h \in [Nat \X Nat -> Nat] : \A n, k \in Nat : h[<<n, k>>] = Next1(n, k)
  <2> DEFINE f == [p \in Nat \X Nat |-> Next1(p[1], p[2])]
  <2>a. f \in [Nat \X Nat -> Nat] /\ \A n, k \in Nat : f[<<n, k>>] = Next1(n, k)
    OBVIOUS
  <2> HIDE DEF f, Next1
  <2> QED
    BY <2>a
<1> HIDE DEF Next1
<1>2. PICK g : Recurs(g, 0, h, Nat)
  <2>a. 0 \in Nat /\ StepOn(h, Nat)
    BY DEF StepOn
  <2> QED
    BY <2>a, NatRecursion
<1>3. \A n \in Nat : g[n] = IF n = 0 THEN 0 ELSE Next1(n, g[n - 1])
  <2>a. ASSUME NEW n \in Nat, n # 0 PROVE g[n] = Next1(n, g[n - 1])
    <3>1. n - 1 \in Nat /\ g[n - 1] \in Nat
      BY <1>2, <2>a DEF Recurs
    <3> QED
      BY <1>1, <1>2, <2>a, <3>1 DEF Recurs
  <2> QED
    BY <1>2, <2>a DEF Recurs
<1>4. g = [n \in Nat |-> IF n = 0 THEN 0
           ELSE IF g[n - 1] < Len(want) /\ Drill!OwnHit(evs[n], want[g[n - 1] + 1])
                THEN g[n - 1] + 1 ELSE g[n - 1]]
  BY <1>2, <1>3 DEF Next1, Recurs
<1> DEFINE m == Drill!Matching(want, evs)
<1>5. m = [n \in Nat |-> IF n = 0 THEN 0
           ELSE IF m[n - 1] < Len(want) /\ Drill!OwnHit(evs[n], want[m[n - 1] + 1])
                THEN m[n - 1] + 1 ELSE m[n - 1]]
  BY <1>4 DEF Drill!Matching
<1> HIDE DEF m
<1>6. DOMAIN m = Nat /\ m[0] = 0
  BY <1>5
<1>7. ASSUME NEW n \in Nat
      PROVE  m[n + 1] = IF m[n] < Len(want) /\ Drill!OwnHit(evs[n + 1], want[m[n] + 1])
                        THEN m[n] + 1 ELSE m[n]
  <2>a. n + 1 \in Nat /\ n + 1 # 0 /\ (n + 1) - 1 = n
    OBVIOUS
  <2> QED
    BY <1>5, <2>a
<1>8. \A n \in Nat : m[n] \in Nat
  <2> DEFINE A == {y \in Nat : m[y] \in Nat}
  <2>a. 0 \in A
    BY <1>6
  <2>b. ASSUME NEW x \in A PROVE x + 1 \in A
    <3>1. PICK k \in Nat : k = m[x]
      OBVIOUS
    <3>2. m[x + 1] = k + 1 \/ m[x + 1] = k
      BY <1>7, <3>1
    <3> QED
      BY <3>2
  <2> HIDE DEF A
  <2>c. Nat \subseteq A
    BY <2>a, <2>b, NatSetInduction
  <2> QED
    BY <2>c DEF A
<1>9. m = [n \in Nat |-> m[n]]
  BY <1>5, <1>6
<1> QED
  BY <1>6, <1>7, <1>8, <1>9 DEF m

(* The first k wanted blows can be found among the first n events.          *)
Fits(want, evs, k, n) ==
  \E at \in [1..k -> 1..n] :
    /\ \A i \in 1..k : Drill!OwnHit(evs[at[i]], want[i])
    /\ \A i, j \in 1..k : i < j => at[i] < at[j]

(* Reading greedily, as checkTrial does, misses no way of finding the blows *)
(* of a trial.                                                              *)
THEOREM GreedyIsBest ==
  ASSUME NEW want, NEW evs, Len(want) \in Nat, NEW n \in Nat
  PROVE  LET k == Drill!Matching(want, evs)[n]
         IN  /\ k <= Len(want) /\ Fits(want, evs, k, n)
             /\ \A j \in 0..Len(want) : Fits(want, evs, j, n) => j <= k
<1> DEFINE m == Drill!Matching(want, evs)
           Best(x) == /\ m[x] <= Len(want) /\ Fits(want, evs, m[x], x)
                      /\ \A j \in 0..Len(want) : Fits(want, evs, j, x) => j <= m[x]
           A == {x \in Nat : Best(x)}
<1>0. /\ m \in [Nat -> Nat] /\ m[0] = 0
      /\ \A x \in Nat : m[x + 1] = IF m[x] < Len(want) /\ Drill!OwnHit(evs[x + 1], want[m[x] + 1])
                                   THEN m[x] + 1 ELSE m[x]
  BY MatchingSteps
<1> HIDE DEF m
<1>1. 0 \in A
  <2>a. Fits(want, evs, 0, 0)
    <3>1. [i \in 1..0 |-> i] \in [1..0 -> 1..0]
      OBVIOUS
    <3>2. \A i \in 1..0 : FALSE
      OBVIOUS
    <3> QED
      BY <3>1, <3>2 DEF Fits
  <2>b. ASSUME NEW j \in 0..Len(want), Fits(want, evs, j, 0) PROVE j <= 0
    BY <2>b DEF Fits
  <2> QED
    BY <1>0, <2>a, <2>b
<1>2. ASSUME NEW x \in A PROVE x + 1 \in A
  <2>a. x \in Nat /\ m[x] \in Nat /\ m[x] <= Len(want) /\ Fits(want, evs, m[x], x)
    BY <1>0
  <2>b. ASSUME NEW j \in 0..Len(want), Fits(want, evs, j, x) PROVE j <= m[x]
    BY <2>b
  <2>c. m[x + 1] <= Len(want) /\ m[x + 1] \in Nat /\ m[x + 1] >= m[x]
    <3>1. CASE m[x] < Len(want) /\ Drill!OwnHit(evs[x + 1], want[m[x] + 1])
      <4>1. m[x + 1] = m[x] + 1
        BY <1>0, <2>a, <3>1
      <4> QED
        BY <2>a, <3>1, <4>1
    <3>2. CASE ~(m[x] < Len(want) /\ Drill!OwnHit(evs[x + 1], want[m[x] + 1]))
      <4>1. m[x + 1] = m[x]
        BY <1>0, <2>a, <3>2
      <4> QED
        BY <2>a, <4>1
    <3> QED
      BY <3>1, <3>2
  <2>d. Fits(want, evs, m[x + 1], x + 1)
    <3>1. PICK at \in [1..m[x] -> 1..x] :
            /\ \A i \in 1..m[x] : Drill!OwnHit(evs[at[i]], want[i])
            /\ \A i, j \in 1..m[x] : i < j => at[i] < at[j]
      BY <2>a DEF Fits
    <3>2. CASE m[x + 1] = m[x]
      <4>1. at \in [1..m[x + 1] -> 1..(x + 1)]
        BY <2>a, <3>1, <3>2
      <4> QED
        BY <3>1, <3>2, <4>1 DEF Fits
    <3>3. CASE m[x + 1] = m[x] + 1 /\ Drill!OwnHit(evs[x + 1], want[m[x] + 1])
      <4> DEFINE to == [i \in 1..(m[x] + 1) |-> IF i = m[x] + 1 THEN x + 1 ELSE at[i]]
      <4>1. to \in [1..(m[x] + 1) -> 1..(x + 1)]
        BY <2>a, <3>1
      <4>2. \A i \in 1..(m[x] + 1) : Drill!OwnHit(evs[to[i]], want[i])
        BY <2>a, <3>1, <3>3
      <4>3. ASSUME NEW i \in 1..(m[x] + 1), NEW j \in 1..(m[x] + 1), i < j
            PROVE  to[i] < to[j]
        <5>0. i \in 1..m[x] /\ i # m[x] + 1
          BY <2>a, <4>3
        <5>1. i \in 1..m[x] /\ to[i] = at[i] /\ at[i] \in 1..x
          BY <3>1, <5>0
        <5>2. CASE j = m[x] + 1
          BY <2>a, <5>1, <5>2
        <5>3. CASE j # m[x] + 1
          <6>1. j \in 1..m[x] /\ to[j] = at[j]
            BY <2>a, <5>3
          <6> QED
            BY <3>1, <4>3, <5>1, <6>1
        <5> QED
          BY <5>2, <5>3
      <4> QED
        BY <3>3, <4>1, <4>2, <4>3 DEF Fits
    <3> QED
      BY <1>0, <2>a, <3>2, <3>3
  <2>e. ASSUME NEW j \in 0..Len(want), Fits(want, evs, j, x + 1) PROVE j <= m[x + 1]
    <3>1. PICK at \in [1..j -> 1..(x + 1)] :
            /\ \A i \in 1..j : Drill!OwnHit(evs[at[i]], want[i])
            /\ \A i, k \in 1..j : i < k => at[i] < at[k]
      BY <2>e DEF Fits
    <3>2. CASE \A i \in 1..j : at[i] # x + 1
      <4>1. at \in [1..j -> 1..x]
        BY <2>a, <3>1, <3>2
      <4>2. Fits(want, evs, j, x)
        BY <3>1, <4>1 DEF Fits
      <4>3. j <= m[x]
        BY <2>b, <2>e, <4>2
      <4> QED
        BY <2>a, <2>c, <2>e, <4>3
    <3>3. ASSUME NEW i \in 1..j, at[i] = x + 1 PROVE j <= m[x + 1]
      <4>1. i = j
        <5>1. \A k \in 1..j : at[k] \in 1..(x + 1) /\ (i < k => at[i] < at[k])
          BY <3>1
        <5> QED
          BY <2>a, <3>3, <5>1
      <4>2. j - 1 \in 0..Len(want) /\ 1..(j - 1) \subseteq 1..j
        BY <2>e, <3>3
      <4> DEFINE to == [k \in 1..(j - 1) |-> at[k]]
      <4>3. to \in [1..(j - 1) -> 1..x]
        <5>1. \A k \in 1..(j - 1) : k \in 1..j /\ k < i /\ at[k] < at[i] /\ at[k] \in 1..(x + 1)
          BY <2>e, <3>1, <4>1
        <5> QED
          BY <2>a, <3>3, <5>1
      <4>4. Fits(want, evs, j - 1, x)
        BY <3>1, <4>2, <4>3 DEF Fits
      <4>5. j - 1 <= m[x]
        BY <2>b, <4>2, <4>4
      <4>6. Drill!OwnHit(evs[x + 1], want[j])
        BY <3>1, <3>3, <4>1
      <4>7. CASE m[x] + 1 = j
        <5>1. m[x] < Len(want) /\ Drill!OwnHit(evs[x + 1], want[m[x] + 1])
          BY <2>a, <2>e, <4>6, <4>7
        <5>2. m[x + 1] = m[x] + 1
          BY <1>0, <2>a, <5>1
        <5> QED
          BY <4>7, <5>2
      <4>8. CASE m[x] + 1 # j
        <5>1. j \in Nat /\ j <= m[x]
          BY <2>a, <4>5, <4>8
        <5> QED
          BY <2>a, <2>c, <5>1
      <4> QED
        BY <4>7, <4>8
    <3> QED
      BY <3>2, <3>3
  <2> QED
    BY <2>a, <2>c, <2>d, <2>e
<1>3. Nat \subseteq A
  <2> HIDE DEF A
  <2> QED
    BY <1>1, <1>2, NatSetInduction
<1> QED
  BY <1>3 DEF m

LEMMA DrillSteps ==
  ASSUME [Next]_vars, setting = "drill"
  PROVE  [Drill!Next]_(Drill!vars)
BY DEF Next, InBout, vars, drill, Drill!vars

(* A trial is passed exactly when its moves can be found.                   *)
LEMMA PassedIsFound ==
  ASSUME NEW evs \in Seq(Drill!Events), NEW t \in DOMAIN Drill!Trials
  PROVE  Drill!Passed(t, evs) <=> Drill!Found(Drill!Trials[t], evs)
<1> DEFINE want == Drill!Trials[t]
           n == Len(evs)
<1>1. n \in Nat /\ DOMAIN evs = 1..n
  OBVIOUS
<1>2. Len(want) \in Nat
  BY DEF Drill!Trials
<1>3. \A i \in 1..n : \A m : Drill!OwnHit(evs[i], m) <=> evs[i] = Drill!Event("hit", 0, m)
  <2>a. \A e \in Drill!Events : \A m : Drill!OwnHit(e, m) <=> e = Drill!Event("hit", 0, m)
    BY DEF Drill!Events, Drill!Event, Drill!OwnHit
  <2> QED
    BY <1>1, <2>a
<1>4. Fits(want, evs, Len(want), n) <=> Drill!Found(want, evs)
  <2> HIDE DEF want, n
  <2> QED
    BY <1>1, <1>2, <1>3 DEF Fits, Drill!Found
<1>5. PICK k \in Nat : k = Drill!Matching(want, evs)[n]
  <2> DEFINE m == Drill!Matching(want, evs)
  <2> HIDE DEF want
  <2>a. m \in [Nat -> Nat]
    BY <1>2, MatchingSteps
  <2> HIDE DEF m, n
  <2>b. m[n] \in Nat
    BY <1>1, <2>a
  <2> QED
    BY <2>b DEF m
<1>6. /\ k <= Len(want) /\ Fits(want, evs, k, n)
      /\ \A j \in 0..Len(want) : Fits(want, evs, j, n) => j <= k
  <2> HIDE DEF want, n
  <2> QED
    BY <1>1, <1>2, <1>5, GreedyIsBest
<1>7. Drill!Passed(t, evs) <=> k >= Len(want)
  BY <1>5 DEF Drill!Passed, Drill!Matched
<1> HIDE DEF want, n
<1>8. CASE k = Len(want)
  BY <1>2, <1>4, <1>6, <1>7, <1>8 DEF want
<1>9. CASE k # Len(want)
  BY <1>2, <1>4, <1>6, <1>7, <1>9 DEF want
<1> QED
  BY <1>8, <1>9

(* What could be found can be found among more.                             *)
LEMMA FoundStays ==
  ASSUME NEW want, Len(want) \in Nat, NEW S, NEW evs \in Seq(S), NEW e,
         Drill!Found(want, evs)
  PROVE  Drill!Found(want, Append(evs, e))
<1>1. PICK at \in [1..Len(want) -> DOMAIN evs] :
        /\ \A i \in 1..Len(want) : evs[at[i]] = Drill!Event("hit", 0, want[i])
        /\ \A i, j \in 1..Len(want) : i < j => at[i] < at[j]
  BY DEF Drill!Found
<1>2. /\ DOMAIN evs \subseteq DOMAIN Append(evs, e)
      /\ \A i \in DOMAIN evs : Append(evs, e)[i] = evs[i]
  <2>a. evs \in Seq(S \cup {e}) /\ e \in S \cup {e}
    OBVIOUS
  <2> QED
    BY <2>a
<1>3. at \in [1..Len(want) -> DOMAIN Append(evs, e)]
  BY <1>1, <1>2
<1> QED
  BY <1>1, <1>2, <1>3 DEF Drill!Found

(* What a drill has behind it: the events it can show, no lesson in the     *)
(* dojo, and each lesson and trial for what was done.                       *)
DrillInv ==
  /\ mode \in {"tutorial", "dojo"} /\ log \in Seq(Drill!Events)
  /\ stepIndex \in 0..6 /\ (mode = "dojo" => stepIndex = 0)
  /\ Drill!LessonsWereShown /\ Drill!TrialsAreFound

LEMMA DrillBegins == Drill!Init => DrillInv
<1> SUFFICES ASSUME Drill!Init PROVE DrillInv
  OBVIOUS
<1>1. \A t \in DOMAIN Drill!Trials : ~Drill!Found(Drill!Trials[t], <<>>)
  <2>a. \A t \in DOMAIN Drill!Trials : Len(Drill!Trials[t]) \in Nat \ {0}
    BY DEF Drill!Trials
  <2>b. DOMAIN <<>> = {}
    OBVIOUS
  <2> QED
    BY <2>a, <2>b DEF Drill!Found
<1> QED
  BY <1>1 DEF Drill!Init, DrillInv, Drill!LessonsWereShown, Drill!TrialsAreFound

LEMMA DrillTicks ==
  ASSUME DrillInv, NEW evs, NEW x, NEW dash, NEW who, NEW spot,
         evs = log \/ \E e \in Drill!Events : evs = Append(log, e),
         Drill!Tick(evs, x, dash, who, spot)
  PROVE  DrillInv'
<1> DEFINE s == Drill!Summary(x, dash, evs, who, spot)
<1>1. mode' = mode /\ log' = evs /\ Drill!Events' = Drill!Events /\ winner' = who
  BY DEF Drill!Tick, Drill!Events
<1>2. evs \in Seq(Drill!Events)
  BY DEF DrillInv
<1>3. \A i \in DOMAIN log : i \in DOMAIN evs /\ evs[i] = log[i]
  <2>a. log \in Seq(Drill!Events)
    BY DEF DrillInv
  <2> QED
    BY <2>a
<1>4. stepIndex' = stepIndex \/ (mode = "tutorial" /\ Drill!Advances(s) /\ stepIndex' = stepIndex + 1)
  BY DEF Drill!Tick, Drill!TutorialUpdate
<1>5. ~(winner = 0) /\ seen \subseteq seen'
  BY DEF Drill!Tick, Drill!Running
<1>6. \A g : Drill!ShownByTrainee(g) => Drill!ShownByTrainee(g)'
  <2> TAKE g
  <2>a. CASE g = "punch"
    BY <1>1, <1>3, <2>a DEF Drill!ShownByTrainee
  <2>b. CASE g = "special"
    BY <1>1, <1>3, <2>b DEF Drill!ShownByTrainee
  <2>c. CASE g = "block"
    BY <1>1, <1>3, <2>c DEF Drill!ShownByTrainee
  <2>d. CASE g = "win"
    BY <1>5, <2>d DEF Drill!ShownByTrainee
  <2>e. CASE g \notin {"punch", "special", "block", "win"}
    BY <1>5, <2>e DEF Drill!ShownByTrainee
  <2> QED
    BY <2>a, <2>b, <2>c, <2>d, <2>e
<1>7. ASSUME NEW i \in 1..6, mode = "tutorial", Drill!GoalMet(Drill!Steps[i], s)
      PROVE  Drill!ShownByTrainee(Drill!Steps[i])'
  <2>a. \A k \in DOMAIN evs : evs[k] \in Drill!Events
    BY <1>2
  <2>b. Drill!Events = {Drill!Event("hit", 0, "jab"), Drill!Event("hit", 0, "uppercut"),
          Drill!Event("hit", 1, "jab"), Drill!Event("blocked", 1, "jab"),
          Drill!Event("blocked", 0, "jab")}
    BY <1>7 DEF Drill!Events
  <2>c. /\ s.away = x /\ s.dash = dash /\ s.eventsSeen = evs /\ s.winner = who
    BY DEF Drill!Summary
  <2> HIDE DEF s
  <2>d. seen' = seen \cup {g \in Drill!Range(Drill!Steps) : Drill!GoalMet(g, s)}
    BY DEF Drill!Tick, s
  <2>e. Drill!Steps[i] \in Drill!Range(Drill!Steps) /\ Drill!Steps[i] \in seen'
    BY <1>7, <2>d DEF Drill!Steps, Drill!Range
  <2>f. CASE i = 1 \/ i = 5
    <3>1. Drill!Steps[i] \in {"move", "dash"}
      BY <2>f DEF Drill!Steps
    <3> QED
      BY Zenon, <2>e, <3>1 DEF Drill!ShownByTrainee
  <2>g. CASE i = 2
    <3>1. Drill!Steps[i] = "punch"
      BY <2>g DEF Drill!Steps
    <3>2. \E k \in DOMAIN evs : evs[k].t = "hit" /\ evs[k].side = 0 /\ evs[k].move = "jab"
      BY <1>7, <2>c, <3>1 DEF Drill!GoalMet, Drill!Some
    <3> QED
      BY <1>1, <2>a, <2>b, <3>1, <3>2 DEF Drill!ShownByTrainee, Drill!Event
  <2>h. CASE i = 3
    <3>1. Drill!Steps[i] = "block"
      BY <2>h DEF Drill!Steps
    <3>2. \E k \in DOMAIN evs : evs[k].t = "blocked" /\ evs[k].side = 1
      BY <1>7, <2>c, <3>1 DEF Drill!GoalMet, Drill!BlockedByTrainee
    <3> QED
      BY <1>1, <2>a, <2>b, <3>1, <3>2 DEF Drill!ShownByTrainee, Drill!Event
  <2>i. CASE i = 4
    <3>1. Drill!Steps[i] = "special"
      BY <2>i DEF Drill!Steps
    <3>2. \E k \in DOMAIN evs : evs[k].t = "hit" /\ evs[k].side = 0
                                /\ evs[k].move \in {"special", "uppercut"}
      BY <1>7, <2>c, <3>1 DEF Drill!GoalMet, Drill!Some
    <3> QED
      BY <1>1, <2>a, <2>b, <3>1, <3>2 DEF Drill!ShownByTrainee, Drill!Event
  <2>j.  CASE i = 6
    <3>1. Drill!Steps[i] = "win"
      BY <2>j DEF Drill!Steps
    <3>2. who = 0
      BY <1>7, <2>c, <3>1 DEF Drill!GoalMet
    <3> QED
      BY <1>1, <3>1, <3>2 DEF Drill!ShownByTrainee
  <2> QED
    BY <2>f, <2>g, <2>h, <2>i, <2>j
<1>8. stepIndex' \in 0..6 /\ (mode' = "dojo" => stepIndex' = 0)
  BY <1>1, <1>4 DEF DrillInv, Drill!Advances, Drill!Lessons, Drill!Steps
<1>9. Drill!LessonsWereShown'
  <2>a. \A i \in 1..stepIndex : Drill!ShownByTrainee(Drill!Steps[i])'
    BY <1>6 DEF DrillInv, Drill!LessonsWereShown
  <2>b. CASE stepIndex' = stepIndex
    BY <2>a, <2>b DEF Drill!LessonsWereShown
  <2>c. CASE mode = "tutorial" /\ Drill!Advances(s) /\ stepIndex' = stepIndex + 1
    <3>1. stepIndex \in 0..5
      BY <2>c DEF DrillInv, Drill!Advances, Drill!Lessons, Drill!Steps
    <3>2. PICK k \in 1..6 : k = stepIndex + 1
      BY <3>1
    <3>3. Drill!ShownByTrainee(Drill!Steps[k])'
      <4>1. Drill!GoalMet(Drill!Steps[k], s)
        BY <2>c, <3>2 DEF Drill!Advances
      <4> QED
        BY <1>7, <2>c, <4>1
    <3>4. \A i \in 1..stepIndex' : i \in 1..stepIndex \/ i = k
      BY <2>c, <3>1, <3>2
    <3> QED
      BY <2>a, <3>3, <3>4 DEF Drill!LessonsWereShown
  <2> QED
    BY <1>4, <2>b, <2>c
<1>10. Drill!TrialsAreFound'
  <2> SUFFICES ASSUME mode = "dojo"
               PROVE claimed' = {t \in DOMAIN Drill!Trials : Drill!Found(Drill!Trials[t], evs)}
    BY <1>1 DEF Drill!TrialsAreFound
  <2>a. claimed' = claimed \cup {t \in DOMAIN Drill!Trials : Drill!Passed(t, evs)}
    BY DEF Drill!Tick, Drill!ClaimTrials
  <2>b. claimed = {t \in DOMAIN Drill!Trials : Drill!Found(Drill!Trials[t], log)}
    BY DEF DrillInv, Drill!TrialsAreFound
  <2>c. ASSUME NEW t \in DOMAIN Drill!Trials, Drill!Found(Drill!Trials[t], log)
        PROVE  Drill!Found(Drill!Trials[t], evs)
    <3>1. Len(Drill!Trials[t]) \in Nat /\ log \in Seq(Drill!Events)
      BY DEF Drill!Trials, DrillInv
    <3> QED
      BY <2>c, <3>1, FoundStays
  <2>d. \A t \in DOMAIN Drill!Trials :
          Drill!Passed(t, evs) <=> Drill!Found(Drill!Trials[t], evs)
    BY <1>2, PassedIsFound
  <2> QED
    BY <2>a, <2>b, <2>c, <2>d
<1> QED
  BY <1>1, <1>2, <1>8, <1>9, <1>10 DEF DrillInv

LEMMA DrillSteppedOn == DrillInv /\ [Drill!Next]_(Drill!vars) => DrillInv'
<1> SUFFICES ASSUME DrillInv, [Drill!Next]_(Drill!vars) PROVE DrillInv'
  OBVIOUS
<1>1. CASE Drill!Over \/ UNCHANGED Drill!vars
  <2>a. UNCHANGED Drill!vars
    BY <1>1 DEF Drill!Over
  <2> QED
    BY <2>a DEF Drill!vars, DrillInv, Drill!LessonsWereShown, Drill!ShownByTrainee,
       Drill!TrialsAreFound, Drill!Events
<1>2. ASSUME NEW evs, NEW x, NEW dash, NEW who, NEW spot,
             evs \in {log} \cup (IF Len(log) < MaxLog[mode]
                                 THEN {Append(log, e) : e \in Drill!Events} ELSE {}),
             Drill!Tick(evs, x, dash, who, spot)
      PROVE  DrillInv'
  BY <1>2, DrillTicks
<1> QED
  BY <1>1, <1>2 DEF Drill!Next

(* A reward is paid once, and a lesson and a trial for what was done.       *)
THEOREM RewardsAreEarned == Spec => []RewardsEarned
<1> DEFINE Inv == /\ setting = "story" => Story!BankInv /\ Story!PayInv
                  /\ setting = "purse" => Purse!BankInv /\ Purse!PayInv
                  /\ setting = "drill" => DrillInv
<1>0. /\ Len(Chain) \in Nat /\ Len(<<>>) \in Nat /\ {0, 1, 3} \subseteq Nat
      /\ "stipend" \notin DOMAIN <<>> /\ "stipend" \notin DOMAIN [jab |-> 1]
  BY DEF Chain
<1>1. Init => Inv
  BY <1>0, Story!BankInit, Purse!BankInit, DrillBegins DEF Init
<1>2. Inv /\ [Next]_vars => Inv'
  BY <1>0, StorySteps, PurseSteps, DrillSteps, SettingStays, Story!BankStep, Purse!BankStep,
     DrillSteppedOn
<1>3. Inv => RewardsEarned
  <2>a. Inv => Told(Story!RewardsPaidOnce, Purse!RewardsPaidOnce)
    BY Story!BankedOnce, Purse!BankedOnce DEF Told
  <2> QED
    BY <2>a DEF RewardsEarned, DrillInv
<1> QED
  BY <1>1, <1>2, <1>3, PTL DEF Spec

-----------------------------------------------------------------------------
(* The tale: its nodes in the order they are written, the way validateStory *)
(* walks, and where storyCursor stops.                                      *)

(* The tale as it is written, node by node.                                 *)
Order ==
  <<"prologue", "a0-intro", "a0-fight", "a0-outro", "a1-intro", "a1-fight", "a1-outro",
    "a2-intro", "a2-fight", "a2-outro", "a3-intro", "a3-fight", "a3-outro", "a4-intro",
    "a4-fight", "a4-outro", "epilogue">>
Final == 17
Turns == 1..Final

LEMMA NodesInOrder ==
  /\ Len(Tale!StoryNodes) = Final /\ DOMAIN Tale!StoryNodes = Turns /\ DOMAIN Order = Turns
  /\ \A i \in 1..7 : Tale!StoryNodes[i] = Tale!FirstActs[i]
  /\ \A i \in 8..17 : Tale!StoryNodes[i] = Tale!LastActs[i - 7]
<1>1. /\ Tale!FirstActs = [i \in 1..7 |-> Tale!FirstActs[i]]
      /\ Tale!LastActs = [i \in 1..10 |-> Tale!LastActs[i]]
  BY DEF Tale!FirstActs, Tale!LastActs
<1>2. PICK f, l : /\ f = Tale!FirstActs /\ l = Tale!LastActs
                  /\ f = [i \in 1..7 |-> f[i]] /\ l = [i \in 1..10 |-> l[i]]
  <2>a. \E f : f = Tale!FirstActs /\ f = [i \in 1..7 |-> f[i]]
    BY <1>1
  <2>b. \E l : l = Tale!LastActs /\ l = [i \in 1..10 |-> l[i]]
    BY <1>1
  <2> QED
    BY <2>a, <2>b
<1>3. PICK S : f \in [1..7 -> S] /\ l \in [1..10 -> S]
  <2> DEFINE A == {f[i] : i \in 1..7}
             B == {l[i] : i \in 1..10}
  <2>a. \A i \in 1..7 : f[i] \in A \cup B
    OBVIOUS
  <2>b. \A i \in 1..10 : l[i] \in A \cup B
    OBVIOUS
  <2> HIDE DEF A, B
  <2>c. f \in [1..7 -> A \cup B] /\ l \in [1..10 -> A \cup B]
    BY <1>2, <2>a, <2>b
  <2> QED
    BY <2>c
<1>4. f \in Seq(S) /\ l \in Seq(S)
  <2>a. \A n \in Nat : \A g \in [1..n -> S] : g \in Seq(S)
    BY SeqDef
  <2> QED
    BY <1>3, <2>a
<1>5. Len(f) = 7 /\ Len(l) = 10
  BY <1>3, <1>4, LenProperties
<1>6. PICK c : c = f \o l
  OBVIOUS
<1>7. c \in Seq(S) /\ Len(c) = Len(f) + Len(l)
  BY Zenon, <1>4, <1>6, ConcatProperties
<1>8. \A i \in 1..Len(f) + Len(l) : c[i] = IF i <= Len(f) THEN f[i] ELSE l[i - Len(f)]
  BY Zenon, <1>4, <1>6, ConcatProperties
<1>9. DOMAIN c = 1..17 /\ Len(c) = 17
  BY <1>5, <1>7, LenProperties
<1>10. \A i \in 1..17 : c[i] = IF i <= 7 THEN f[i] ELSE l[i - 7]
  BY <1>5, <1>8
<1>11. DOMAIN Order = Turns
  BY DEF Order, Turns, Final
<1> QED
  <2>a. Tale!StoryNodes = c
    BY Zenon, <1>2, <1>6 DEF Tale!StoryNodes
  <2> QED
    BY <1>2, <1>11, <1>9, <1>10, <2>a DEF Turns, Final

(* What each node of the chain is, as far as the order is concerned.        *)
LEMMA NodesAreLinked ==
  \A i \in Turns : /\ Tale!StoryNodes[i].id = Order[i]
                   /\ Tale!StoryNodes[i].next = IF i = Final THEN "none" ELSE Order[i + 1]
<1>1. \A i \in 1..7 : /\ Tale!FirstActs[i].id = Order[i]
                      /\ Tale!FirstActs[i].next = Order[i + 1]
  BY DEF Tale!FirstActs, Tale!Talk, Tale!Duel, Order
<1>2. \A i \in 1..10 : /\ Tale!LastActs[i].id = Order[i + 7]
                       /\ Tale!LastActs[i].next = IF i = 10 THEN "none" ELSE Order[i + 8]
  BY DEF Tale!LastActs, Tale!Talk, Tale!Duel, Tale!None, Order
<1> QED
  BY <1>1, <1>2, NodesInOrder DEF Turns, Final

LEMMA OrderIsStrict == \A i, j \in Turns : Order[i] = Order[j] => i = j
BY DEF Order, Turns, Final

LEMMA IdsInOrder ==
  /\ Tale!Ids = {Order[i] : i \in Turns}
  /\ \A i \in Turns : Tale!NodeById[Order[i]] = Tale!StoryNodes[i]
  /\ DOMAIN Tale!AsWritten = Tale!Ids
  /\ \A i \in Turns : Tale!AsWritten[Order[i]] = IF i = Final THEN "none" ELSE Order[i + 1]
<1>1. Tale!Ids = {Order[i] : i \in Turns}
  BY NodesInOrder, NodesAreLinked DEF Tale!Ids
<1>2. Tale!ToSet(Tale!StoryNodes) = {Tale!StoryNodes[i] : i \in Turns}
  BY NodesInOrder DEF Tale!ToSet
<1>3. ASSUME NEW i \in Turns PROVE Tale!NodeById[Order[i]] = Tale!StoryNodes[i]
  <2>a. \A n \in Tale!ToSet(Tale!StoryNodes) : n.id = Order[i] <=> n = Tale!StoryNodes[i]
    BY <1>2, NodesAreLinked, OrderIsStrict
  <2>b. Tale!StoryNodes[i] \in Tale!ToSet(Tale!StoryNodes)
    BY <1>2
  <2>c. (CHOOSE n \in Tale!ToSet(Tale!StoryNodes) : n.id = Order[i]) = Tale!StoryNodes[i]
    BY <2>a, <2>b
  <2> QED
    BY <1>1, <2>c DEF Tale!NodeById
<1> QED
  BY <1>1, <1>3, NodesAreLinked DEF Tale!AsWritten

(* Nodes that follow one another by the links, from the prologue, none of   *)
(* them twice; and no new node follows the last.                            *)
IsTrail(w) ==
  /\ w \in Seq(Tale!Ids) /\ Len(w) \in Nat \ {0} /\ w[1] = "prologue"
  /\ \A i \in 1..Len(w) - 1 : w[i + 1] = links[w[i]]
  /\ \A i, j \in 1..Len(w) : w[i] = w[j] => i = j
IsWhole(w) == links[w[Len(w)]] \notin Tale!Ids \ {w[i] : i \in 1..Len(w)}

LEMMA OnwardKeepsTrail ==
  ASSUME NEW w, IsTrail(w)
  PROVE  /\ IsTrail(Tale!Onward(w))
         /\ \/ IsWhole(w) /\ Tale!Onward(w) = w
            \/ ~IsWhole(w) /\ Len(Tale!Onward(w)) = Len(w) + 1
<1>1. /\ w \in Seq(Tale!Ids) /\ Len(w) \in Nat \ {0} /\ DOMAIN w = 1..Len(w)
      /\ Tale!Last(w) = w[Len(w)] /\ Tale!ToSet(w) = {w[i] : i \in 1..Len(w)}
  <2>a. w \in Seq(Tale!Ids) /\ Len(w) \in Nat \ {0}
    BY DEF IsTrail
  <2>b. DOMAIN w = 1..Len(w)
    BY <2>a, LenProperties
  <2> QED
    BY <2>a, <2>b DEF Tale!Last, Tale!ToSet
<1>2. CASE links[w[Len(w)]] \notin Tale!Ids \ Tale!ToSet(w)
  BY <1>1, <1>2 DEF Tale!Onward, IsWhole
<1>3. CASE links[w[Len(w)]] \in Tale!Ids \ Tale!ToSet(w)
  <2>a. PICK id \in Tale!Ids : id = links[w[Len(w)]] /\ id \notin Tale!ToSet(w)
    BY <1>3
  <2>b. PICK v : v = Append(w, id)
    OBVIOUS
  <2>c. Tale!Onward(w) = v
    BY <1>1, <2>a, <2>b DEF Tale!Onward
  <2>d. /\ v \in Seq(Tale!Ids) /\ Len(v) = Len(w) + 1 /\ v[Len(w) + 1] = id
        /\ \A i \in 1..Len(w) : v[i] = w[i]
    <3>1. w \in Seq(Tale!Ids) /\ id \in Tale!Ids
      BY <1>1
    <3>2. v \in Seq(Tale!Ids) /\ Len(v) = Len(w) + 1
      BY <3>1, <2>b, AppendProperties
    <3>3. v[Len(w) + 1] = id
      BY <3>1, <2>b, AppendProperties
    <3>4. \A i \in 1..Len(w) : v[i] = w[i]
      BY <3>1, <2>b, AppendProperties
    <3> QED
      BY <3>2, <3>3, <3>4
  <2>e. \A i \in 1..Len(v) : i \in 1..Len(w) \/ i = Len(w) + 1
    BY <1>1, <2>d
  <2>f. ASSUME NEW i \in 1..Len(v) - 1 PROVE v[i + 1] = links[v[i]]
    <3>1. CASE i = Len(w)
      BY <1>1, <2>a, <2>d, <3>1
    <3>2. CASE i # Len(w)
      <4>1. Len(w) \in Nat /\ Len(v) = Len(w) + 1
        <5>1. w \in Seq(Tale!Ids)
          BY <1>1 DEF IsTrail
        <5> QED
          BY <2>d, <5>1, LenProperties
      <4>2. i \in 1..Len(w)
        BY <4>1
      <4>3. i \in 1..Len(w) - 1 /\ i + 1 \in 1..Len(w)
        BY <3>2, <4>1, <4>2
      <4> QED
        BY <2>d, <4>2, <4>3 DEF IsTrail
    <3> QED
      BY <3>1, <3>2
  <2>g. ASSUME NEW i \in 1..Len(v), NEW j \in 1..Len(v), v[i] = v[j] PROVE i = j
    <3>1. \A k \in 1..Len(w) : v[k] # id
      BY <1>1, <2>a, <2>d
    <3> QED
      BY <1>1, <2>d, <2>e, <2>g, <3>1 DEF IsTrail
  <2>h. v[1] = "prologue" /\ Len(v) \in Nat \ {0}
    BY <1>1, <2>d DEF IsTrail
  <2>i. ~IsWhole(w)
    BY <1>1, <1>3 DEF IsWhole
  <2> QED
    BY <2>c, <2>d, <2>f, <2>g, <2>h, <2>i DEF IsTrail
<1> QED
  BY <1>2, <1>3

(* The function of validateStory's walk is what its definition says.        *)
LEMMA WaysStep ==
  /\ Tale!Ways[0] = <<"prologue">>
  /\ \A n \in Nat : Tale!Ways[n + 1] = Tale!Onward(Tale!Ways[n])
<1> DEFINE D == Seq(Tale!Ids)
<1>1. <<"prologue">> \in D
  BY IdsInOrder DEF Order, Turns, Final
<1>2. \A w \in D : Tale!Onward(w) \in D
  BY DEF Tale!Onward
<1>3. PICK h \in [Nat \X D -> D] : \A n \in Nat : \A w \in D : h[<<n, w>>] = Tale!Onward(w)
  <2> HIDE DEF D
  <2> DEFINE f == [p \in Nat \X D |-> Tale!Onward(p[2])]
  <2>a. f \in [Nat \X D -> D] /\ \A n \in Nat : \A w \in D : f[<<n, w>>] = Tale!Onward(w)
    BY <1>2
  <2> HIDE DEF f
  <2> QED
    BY <2>a
<1> HIDE DEF D
<1>4. PICK g : Recurs(g, <<"prologue">>, h, D)
  <2>a. StepOn(h, D)
    BY DEF StepOn
  <2> QED
    BY <1>1, <2>a, NatRecursion
<1>5. \A n \in Nat : g[n] = IF n = 0 THEN <<"prologue">> ELSE Tale!Onward(g[n - 1])
  <2>a. ASSUME NEW n \in Nat, n # 0 PROVE g[n] = Tale!Onward(g[n - 1])
    <3>1. n - 1 \in Nat /\ g[n - 1] \in D
      BY <1>4, <2>a DEF Recurs
    <3> QED
      BY <1>3, <1>4, <2>a, <3>1 DEF Recurs
  <2> QED
    BY <1>4, <2>a DEF Recurs
<1>6. g = [n \in Nat |-> IF n = 0 THEN <<"prologue">> ELSE Tale!Onward(g[n - 1])]
  BY <1>4, <1>5 DEF Recurs
<1> DEFINE f == Tale!Ways
<1>7. f = [n \in Nat |-> IF n = 0 THEN <<"prologue">> ELSE Tale!Onward(f[n - 1])]
  BY <1>6 DEF Tale!Ways
<1> HIDE DEF f
<1>8. f[0] = <<"prologue">>
  BY <1>7
<1>9. ASSUME NEW n \in Nat PROVE f[n + 1] = Tale!Onward(f[n])
  <2>a. n + 1 \in Nat /\ n + 1 # 0 /\ (n + 1) - 1 = n
    OBVIOUS
  <2> QED
    BY <1>7, <2>a
<1> QED
  BY <1>8, <1>9 DEF f

LEMMA WaysAreTrails ==
  \A n \in Nat : /\ IsTrail(Tale!Ways[n])
                 /\ IsWhole(Tale!Ways[n]) \/ Len(Tale!Ways[n]) = n + 1
<1> DEFINE Good(n) == /\ IsTrail(Tale!Ways[n])
                      /\ IsWhole(Tale!Ways[n]) \/ Len(Tale!Ways[n]) = n + 1
           A == {n \in Nat : Good(n)}
<1>1. 0 \in A
  <2>a. "prologue" \in Tale!Ids
    BY IdsInOrder DEF Order, Turns, Final
  <2>b. IsTrail(<<"prologue">>) /\ Len(<<"prologue">>) = 1
    BY <2>a DEF IsTrail
  <2> QED
    BY <2>b, WaysStep
<1>2. ASSUME NEW n \in A PROVE n + 1 \in A
  <2>a. n \in Nat /\ Tale!Ways[n + 1] = Tale!Onward(Tale!Ways[n])
    BY WaysStep
  <2>b. /\ IsTrail(Tale!Ways[n + 1])
        /\ \/ IsWhole(Tale!Ways[n]) /\ Tale!Ways[n + 1] = Tale!Ways[n]
           \/ ~IsWhole(Tale!Ways[n]) /\ Len(Tale!Ways[n + 1]) = Len(Tale!Ways[n]) + 1
    BY <2>a, OnwardKeepsTrail
  <2> QED
    BY <2>a, <2>b
<1> HIDE DEF A
<1>3. Nat \subseteq A
  BY <1>1, <1>2, NatSetInduction
<1> QED
  BY <1>3 DEF A

LEMMA FinalIs == Final \in Nat \ {0} /\ 1 \in Turns /\ Final \in Turns
BY DEF Final, Turns

LEMMA CountUpto == \A n \in Nat \ {0} : IsFiniteSet(1..n) /\ Cardinality(1..n) = n
<1> SUFFICES ASSUME NEW n \in Nat \ {0} PROVE IsFiniteSet(1..n) /\ Cardinality(1..n) = n
  OBVIOUS
<1>1. IsFiniteSet(1..n) /\ Cardinality(1..n) = IF 1 > n THEN 0 ELSE n - 1 + 1
  BY FS_Interval
<1> QED
  BY <1>1

(* There are no more nodes than turns.                                      *)
LEMMA TrailsAreShort ==
  ASSUME NEW w, IsTrail(w), NEW l \in Nat, l = Len(w)
  PROVE  l <= Final
<1> SUFFICES ASSUME Final < l PROVE FALSE
  BY FinalIs
<1>1. \A i \in 1..l : w[i] \in Tale!Ids
  BY ElementOfSeq DEF IsTrail
<1> DEFINE f == [i \in 1..l |-> CHOOSE k \in Turns : Order[k] = w[i]]
<1>2. \A i \in 1..l : f[i] \in Turns /\ Order[f[i]] = w[i]
  <2>a. \A i \in 1..l : \E k \in Turns : Order[k] = w[i]
    BY <1>1, IdsInOrder
  <2> QED
    BY <2>a
<1>3. f \in [1..l -> Turns]
  BY <1>2
<1> HIDE DEF f
<1>4. \A i, j \in 1..l : w[i] = w[j] => i = j
  BY DEF IsTrail
<1>5. /\ IsFiniteSet(1..l) /\ Cardinality(1..l) = l
      /\ IsFiniteSet(Turns) /\ Cardinality(Turns) = Final
  BY FinalIs, CountUpto DEF Turns
<1>6. PICK i, j \in 1..l : i # j /\ f[i] = f[j]
  BY <1>3, <1>5, FinalIs, FS_PigeonHole
<1> QED
  BY <1>2, <1>4, <1>6

(* The walk of validateStory leads as far as the links do.                  *)
LEMMA WayIsWhole ==
  IsTrail(Tale!Way) /\ IsWhole(Tale!Way) /\ \E l \in Turns : l = Len(Tale!Way)
<1>1. PICK l \in Nat \ {0} : l = Len(Tale!Way)
  BY NodesInOrder, FinalIs, WaysAreTrails DEF Tale!Way, IsTrail
<1>2. IsTrail(Tale!Way) /\ (IsWhole(Tale!Way) \/ l = Final + 1)
  BY <1>1, NodesInOrder, FinalIs, WaysAreTrails DEF Tale!Way
<1>3. l <= Final
  BY <1>1, <1>2, TrailsAreShort
<1>4. l \in Turns /\ l # Final + 1
  BY <1>3, FinalIs DEF Turns
<1> QED
  BY <1>1, <1>2, <1>4

(* As it is written the tale leads through every node.                      *)
LEMMA WayAsWritten ==
  ASSUME Tale!Playing
  PROVE  Len(Tale!Way) = Final /\ \A i \in Turns : Tale!Way[i] = Order[i]
<1>0. PICK w : w = Tale!Way
  OBVIOUS
<1>1. PICK l \in Turns : l = Len(w)
  BY <1>0, WayIsWhole
<1>2. /\ w[1] = "prologue" /\ \A i \in 1..l - 1 : w[i + 1] = links[w[i]]
      /\ links[w[l]] \notin Tale!Ids \ {w[i] : i \in 1..l}
  BY <1>0, <1>1, WayIsWhole DEF IsTrail, IsWhole
<1>3. \A i \in Turns : i # Final => links[Order[i]] = Order[i + 1] /\ i + 1 \in Turns
  BY IdsInOrder, FinalIs DEF Tale!Playing, Turns
<1> DEFINE A == {i \in Nat : i + 1 \in 1..l => w[i + 1] = Order[i + 1]}
<1>4. 0 \in A
  BY <1>2 DEF Order
<1>5. ASSUME NEW i \in A PROVE i + 1 \in A
  <2> SUFFICES ASSUME (i + 1) + 1 \in 1..l PROVE w[(i + 1) + 1] = Order[(i + 1) + 1]
    OBVIOUS
  <2>a. /\ i \in Nat /\ i + 1 \in 1..l - 1 /\ i + 1 \in 1..l
        /\ i + 1 \in Turns /\ i + 1 # Final
    BY <1>1, FinalIs DEF Turns
  <2> QED
    BY <1>2, <1>3, <2>a
<1>6. Nat \subseteq A
  <2> HIDE DEF A
  <2> QED
    BY <1>4, <1>5, NatSetInduction
<1>7. \A i \in 1..l : w[i] = Order[i]
  <2> SUFFICES ASSUME NEW i \in 1..l PROVE w[i] = Order[i]
    OBVIOUS
  <2>a. i - 1 \in Nat /\ (i - 1) + 1 = i
    BY <1>1, FinalIs DEF Turns
  <2> QED
    BY <1>6, <2>a
<1>8. l = Final
  <2> SUFFICES ASSUME l # Final PROVE FALSE
    OBVIOUS
  <2>a. l + 1 \in Turns /\ links[w[l]] = Order[l + 1] /\ l \in 1..l
    BY <1>1, <1>3, <1>7, FinalIs DEF Turns
  <2>b. Order[l + 1] \in Tale!Ids
    BY <2>a, IdsInOrder
  <2>c. \A i \in 1..l : i \in Turns /\ i # l + 1
    BY <1>1, FinalIs DEF Turns
  <2>d. Order[l + 1] \notin {w[i] : i \in 1..l}
    BY <1>7, <2>a, <2>c, OrderIsStrict
  <2> QED
    BY <1>2, <2>a, <2>b, <2>d
<1> QED
  BY <1>0, <1>1, <1>7, <1>8 DEF Turns

(* The function of storyCursor is what its definition says.                 *)
LEMMA WalkStep ==
  /\ Tale!Walk[0] = "prologue"
  /\ \A n \in Nat : Tale!Walk[n + 1] = Tale!Past(Tale!Walk[n])
<1> DEFINE D == {"prologue"} \cup {links[at] : at \in told}
<1>1. "prologue" \in D
  OBVIOUS
<1>2. \A at \in D : Tale!Past(at) \in D
  BY DEF Tale!Past
<1>3. PICK h \in [Nat \X D -> D] : \A n \in Nat : \A at \in D : h[<<n, at>>] = Tale!Past(at)
  <2> HIDE DEF D
  <2> DEFINE f == [p \in Nat \X D |-> Tale!Past(p[2])]
  <2>a. f \in [Nat \X D -> D] /\ \A n \in Nat : \A at \in D : f[<<n, at>>] = Tale!Past(at)
    BY <1>2
  <2> HIDE DEF f
  <2> QED
    BY <2>a
<1> HIDE DEF D
<1>4. PICK g : Recurs(g, "prologue", h, D)
  <2>a. StepOn(h, D)
    BY DEF StepOn
  <2> QED
    BY <1>1, <2>a, NatRecursion
<1>5. \A n \in Nat : g[n] = IF n = 0 THEN "prologue" ELSE Tale!Past(g[n - 1])
  <2>a. ASSUME NEW n \in Nat, n # 0 PROVE g[n] = Tale!Past(g[n - 1])
    <3>1. n - 1 \in Nat /\ g[n - 1] \in D
      BY <1>4, <2>a DEF Recurs
    <3> QED
      BY <1>3, <1>4, <2>a, <3>1 DEF Recurs
  <2> QED
    BY <1>4, <2>a DEF Recurs
<1>6. g = [n \in Nat |-> IF n = 0 THEN "prologue" ELSE Tale!Past(g[n - 1])]
  BY <1>4, <1>5 DEF Recurs
<1> DEFINE f == Tale!Walk
<1>7. f = [n \in Nat |-> IF n = 0 THEN "prologue" ELSE Tale!Past(f[n - 1])]
  BY <1>6 DEF Tale!Walk
<1> HIDE DEF f
<1>8. f[0] = "prologue"
  BY <1>7
<1>9. ASSUME NEW n \in Nat PROVE f[n + 1] = Tale!Past(f[n])
  <2>a. n + 1 \in Nat /\ n + 1 # 0 /\ (n + 1) - 1 = n
    OBVIOUS
  <2> QED
    BY <1>7, <2>a
<1> QED
  BY <1>8, <1>9 DEF f

(* Where the walk rests it stays.                                           *)
LEMMA WalkRests ==
  ASSUME NEW k \in Nat, Tale!Past(Tale!Walk[k]) = Tale!Walk[k]
  PROVE  \A n \in Nat : n >= k => Tale!Walk[n] = Tale!Walk[k]
<1> DEFINE f == Tale!Walk
           A == {n \in Nat : n >= k => f[n] = f[k]}
<1>1. 0 \in A
  OBVIOUS
<1>2. ASSUME NEW n \in A PROVE n + 1 \in A
  <2>a. n \in Nat /\ f[n + 1] = Tale!Past(f[n])
    BY WalkStep
  <2>b. n + 1 >= k => n >= k \/ n + 1 = k
    BY <2>a
  <2> QED
    BY <2>a, <2>b
<1> HIDE DEF A
<1>3. Nat \subseteq A
  BY <1>1, <1>2, NatSetInduction
<1> QED
  BY <1>3 DEF A

(* What has been told is the first m nodes of the way.                      *)
ToldUpto(m) == told = {Tale!Way[i] : i \in 1..m}

LEMMA CursorAtIs ==
  ASSUME NEW id
  PROVE  /\ id \notin Tale!Ids => Tale!CursorAt(id) = "none"
         /\ id \in Tale!Ids /\ id \notin told => Tale!CursorAt(id) = id
         /\ id \in Tale!Ids /\ id \in told /\ links[id] = "none"
              => Tale!CursorAt(id) = "complete"
         /\ id \in Tale!Ids /\ id \in told /\ links[id] # "none"
              => Tale!CursorAt(id) = "endless"
BY DEF Tale!CursorAt, Tale!None, Tale!Complete, Tale!Endless

LEMMA WalkInStep ==
  ASSUME NEW l \in Turns, l = Len(Tale!Way), NEW m \in 0..l, ToldUpto(m)
  PROVE  \A k \in Nat : k <= m /\ k < l => Tale!Walk[k] = Tale!Way[k + 1]
<1>1. l \in Nat
  BY FinalIs DEF Turns
<1>2. PICK w : w = Tale!Way
  OBVIOUS
<1>3. w[1] = "prologue" /\ \A i \in 1..l - 1 : w[i + 1] = links[w[i]]
  BY <1>2, WayIsWhole DEF IsTrail
<1>4. \A i \in 1..l : w[i] \in Tale!Ids
  BY <1>2, WayIsWhole, ElementOfSeq DEF IsTrail
<1>5. "none" \notin Tale!Ids
  BY IdsInOrder DEF Order, Turns, Final
<1> DEFINE f == Tale!Walk
           A == {k \in Nat : k <= m /\ k < l => f[k] = w[k + 1]}
<1>6. 0 \in A
  <2>a. f[0] = w[1]
    BY Zenon, <1>3, WalkStep
  <2> HIDE DEF f
  <2> QED
    BY <2>a
<1>7. ASSUME NEW k \in A PROVE k + 1 \in A
  <2> SUFFICES ASSUME k + 1 <= m, k + 1 < l PROVE f[k + 1] = w[(k + 1) + 1]
    OBVIOUS
  <2>a. k \in Nat /\ k <= m /\ k < l /\ k + 1 \in 1..l - 1 /\ k + 1 \in 1..m /\ (k + 1) + 1 \in 1..l
    BY <1>1
  <2>b. f[k + 1] = Tale!Past(w[k + 1])
    BY <2>a, WalkStep
  <2>c. w[k + 1] \in told
    BY <1>2, <2>a DEF ToldUpto
  <2>d. links[w[k + 1]] = w[(k + 1) + 1] /\ w[(k + 1) + 1] # "none"
    BY <1>3, <1>4, <1>5, <2>a
  <2> QED
    BY <2>b, <2>c, <2>d DEF Tale!Past, Tale!None
<1>8. Nat \subseteq A
  <2> HIDE DEF A
  <2> QED
    BY <1>6, <1>7, NatSetInduction
<1> QED
  BY <1>2, <1>8

(* Where the tale goes on (storyCursor): at the node after the told ones,   *)
(* and past the last it is complete only if nothing is linked there.        *)
THEOREM CursorIsNext ==
  ASSUME NEW l \in Turns, l = Len(Tale!Way), NEW m \in 0..l, ToldUpto(m)
  PROVE  IF m < l THEN Tale!Cursor = Tale!Way[m + 1] /\ Tale!Way[m + 1] \in Tale!Ids
         ELSE /\ Tale!Cursor \notin Tale!Ids
              /\ Tale!Cursor = "complete" <=> links[Tale!Way[l]] = "none"
<1>1. l \in Nat \ {0} /\ l <= Final /\ Final \in Nat /\ m \in Nat
  BY FinalIs DEF Turns
<1>2. PICK w : w = Tale!Way
  OBVIOUS
<1>3. /\ w[1] = "prologue" /\ \A i \in 1..l - 1 : w[i + 1] = links[w[i]]
      /\ \A i, j \in 1..l : w[i] = w[j] => i = j
      /\ links[w[l]] \notin Tale!Ids \ {w[i] : i \in 1..l}
  BY <1>2, WayIsWhole DEF IsTrail, IsWhole
<1>4. \A i \in 1..l : w[i] \in Tale!Ids
  BY <1>2, WayIsWhole, ElementOfSeq DEF IsTrail
<1>5. {"none", "complete", "endless"} \cap Tale!Ids = {}
  BY IdsInOrder DEF Order, Turns, Final
<1>6. told = {w[i] : i \in 1..m}
  BY <1>2 DEF ToldUpto
<1> DEFINE f == Tale!Walk
<1>7. Tale!Stop = f[Final] /\ Tale!Cursor = Tale!CursorAt(f[Final])
  BY NodesInOrder DEF Tale!Stop, Tale!Cursor
<1>8. \A k \in Nat : k <= m /\ k < l => f[k] = w[k + 1]
  BY <1>2, WalkInStep
<1>9. \A n \in Nat : f[n + 1] = Tale!Past(f[n])
  BY WalkStep
<1>10. \A k \in Nat : Tale!Past(f[k]) = f[k] => \A n \in Nat : n >= k => f[n] = f[k]
  BY WalkRests
<1> HIDE DEF f
<1>11. CASE m < l
  <2>a. f[m] = w[m + 1] /\ m + 1 \in 1..l
    BY <1>1, <1>8, <1>11
  <2>b. w[m + 1] \notin told
    <3>1. \A i \in 1..m : i \in 1..l /\ i # m + 1
      BY <1>1, <1>11
    <3> QED
      BY <1>3, <1>6, <2>a, <3>1
  <2>c. f[Final] = w[m + 1]
    BY <1>1, <1>10, <1>11, <2>a, <2>b DEF Tale!Past
  <2> QED
    BY <1>2, <1>4, <1>7, <1>11, <2>a, <2>b, <2>c, CursorAtIs
<1>12. CASE ~(m < l)
  <2>a. m = l /\ l - 1 \in Nat /\ (l - 1) + 1 = l /\ l \in 1..l
    BY <1>1, <1>12
  <2>b. f[l - 1] = w[l] /\ w[l] \in told /\ f[l] = Tale!Past(w[l])
    <3>1. f[l - 1] = w[l]
      BY <1>1, <1>8, <2>a
    <3>2. f[(l - 1) + 1] = Tale!Past(w[l])
      BY <1>9, <2>a, <3>1
    <3> QED
      BY <1>6, <2>a, <3>1, <3>2
  <2>c. CASE links[w[l]] = "none"
    <3>1. f[Final] = w[l]
      <4>1. Tale!Past(f[l - 1]) = f[l - 1] /\ Final >= l - 1
        BY <1>1, <2>a, <2>b, <2>c DEF Tale!Past, Tale!None
      <4> QED
        BY <1>1, <1>10, <2>a, <2>b, <4>1
    <3>2. Tale!Cursor = "complete"
      BY <1>4, <1>7, <2>a, <2>b, <2>c, <3>1, CursorAtIs
    <3> QED
      BY <1>2, <1>5, <1>12, <2>c, <3>2
  <2>d. CASE links[w[l]] # "none" /\ links[w[l]] \notin Tale!Ids
    <3>1. f[l] = links[w[l]] /\ links[w[l]] \notin told
      BY <1>4, <1>6, <2>a, <2>b, <2>d DEF Tale!Past, Tale!None
    <3>2. f[Final] = links[w[l]]
      BY <1>1, <1>10, <3>1 DEF Tale!Past
    <3>3. Tale!Cursor = "none"
      BY <1>7, <2>d, <3>2, CursorAtIs
    <3> QED
      BY <1>2, <1>5, <1>12, <2>d, <3>3
  <2>e. CASE links[w[l]] \in Tale!Ids
    <3>1. \A id \in told : links[id] \in told /\ links[id] \in Tale!Ids
      <4>1. \A i \in 1..l : i = l \/ (i \in 1..l - 1 /\ i + 1 \in 1..l)
        BY <1>1
      <4>2. \A i \in 1..l : links[w[i]] \in {w[j] : j \in 1..l}
        BY <1>3, <2>e, <4>1
      <4>3. \A i \in 1..l : links[w[i]] \in Tale!Ids
        BY <1>4, <4>2
      <4> QED
        BY <1>6, <2>a, <4>2, <4>3
    <3> DEFINE A == {n \in Nat : f[n] \in told}
    <3>2. 0 \in A
      <4>1. f[0] = w[0 + 1] /\ 1 \in 1..m
        BY <1>1, <1>8, <2>a
      <4> QED
        BY <1>6, <4>1
    <3>3. ASSUME NEW n \in A PROVE n + 1 \in A
      <4>1. n \in Nat /\ f[n] \in told
        OBVIOUS
      <4>2. f[n + 1] \in told
        BY <1>9, <3>1, <4>1 DEF Tale!Past
      <4> QED
        BY <4>1, <4>2
    <3> HIDE DEF A
    <3>4. Nat \subseteq A
      BY <3>2, <3>3, NatSetInduction
    <3>5. f[Final] \in told
      BY <1>1, <3>4 DEF A
    <3>6. f[Final] \in Tale!Ids /\ links[f[Final]] # "none"
      BY <1>4, <1>5, <1>6, <2>a, <3>1, <3>5
    <3>7. Tale!Cursor = "endless"
      BY <1>7, <3>5, <3>6, CursorAtIs
    <3> QED
      BY <1>2, <1>5, <1>12, <2>e, <3>7
  <2> QED
    BY <2>c, <2>d, <2>e
<1> QED
  BY <1>11, <1>12

(* The way depends on the links alone.                                      *)
LEMMA WayStays ==
  ASSUME links' = links
  PROVE  Tale!Way' = Tale!Way
<1>1. Tale!Ways' = Tale!Ways
  BY Zenon DEF Tale!Ways, Tale!Onward
<1> QED
  BY <1>1, Zenon DEF Tale!Way

(* Where nothing is left to tell.                                           *)
LEMMA TalesAreTold ==
  ASSUME links \in Tale!Tales, NEW l \in Turns, l = Len(Tale!Way), NEW m \in 0..l, ToldUpto(m)
  PROVE  Tale!ValidTalesAreTold
<1> SUFFICES ASSUME Tale!Cursor \notin Tale!Ids
             PROVE  (told = Tale!Ids /\ Tale!Cursor = "complete") = Tale!ValidChain
  BY DEF Tale!ValidTalesAreTold, Tale!Complete
<1>1. PICK w : w = Tale!Way
  OBVIOUS
<1>2. /\ \A i \in 1..l - 1 : w[i + 1] = links[w[i]]
      /\ \A i \in 1..l : w[i] \in Tale!Ids
      /\ DOMAIN w = 1..l
  <2>a. w \in Seq(Tale!Ids) /\ l = Len(w) /\ \A i \in 1..l - 1 : w[i + 1] = links[w[i]]
    BY <1>1, WayIsWhole DEF IsTrail
  <2>b. \A i \in 1..l : w[i] \in Tale!Ids
    BY <2>a, ElementOfSeq
  <2>c. DOMAIN w = 1..l
    BY <2>a, LenProperties
  <2> QED
    BY <2>a, <2>b, <2>c
<1>3. l \in Nat \ {0} /\ l \in 1..l /\ m \in Nat /\ m <= l
  BY FinalIs DEF Turns
<1>4. m = l /\ (Tale!Cursor = "complete" <=> links[w[l]] = "none")
  <2>a. CASE m < l
    BY <1>1, <2>a, CursorIsNext
  <2>b. CASE ~(m < l)
    BY <1>1, <1>3, <2>b, CursorIsNext
  <2> QED
    BY <2>a, <2>b
<1>5. told = {w[i] : i \in 1..l} /\ Tale!ToSet(Tale!Way) = told /\ Tale!Last(Tale!Way) = w[l]
  BY <1>1, <1>2, <1>4 DEF ToldUpto, Tale!ToSet, Tale!Last
<1>6. "none" \notin Tale!Ids /\ "lost" \notin Tale!Ids
  BY IdsInOrder DEF Order, Turns, Final
<1>7. ASSUME told = Tale!Ids, links[w[l]] = "none" PROVE Tale!ValidChain
  <2>a. \A i \in 1..l : i = l \/ (i \in 1..l - 1 /\ i + 1 \in 1..l)
    BY <1>3
  <2>b. \A id \in Tale!Ids : links[id] \in Tale!Ids \/ id = w[l]
    BY <1>2, <1>5, <1>7, <2>a
  <2>c. w[l] = "epilogue"
    <3>1. "epilogue" \in Tale!Ids /\ Tale!AsWritten["epilogue"] = "none"
      <4>1. Order[Final] = "epilogue" /\ Final \in Turns
        BY FinalIs DEF Order, Final
      <4> QED
        BY <4>1, IdsInOrder
    <3>2. \A id \in Tale!Ids : id # "epilogue" => Tale!AsWritten[id] \in Tale!Ids
      <4>1. \A i \in Turns : i # Final => i + 1 \in Turns
        BY FinalIs DEF Turns
      <4>2. Order[Final] = "epilogue"
        BY DEF Order, Final
      <4> QED
        BY <4>1, <4>2, IdsInOrder
    <3>3. \E e \in Tale!Ids : \A id \in Tale!Ids : id # e => links[id] = Tale!AsWritten[id]
      <4>1. CASE links = Tale!AsWritten
        BY <3>1, <4>1
      <4>2. ASSUME NEW e \in Tale!Ids, NEW to, links = [Tale!AsWritten EXCEPT ![e] = to]
            PROVE  \A id \in Tale!Ids : id # e => links[id] = Tale!AsWritten[id]
        BY <4>2, IdsInOrder
      <4> QED
        BY <4>1, <4>2 DEF Tale!Tales
    <3> QED
      BY <1>2, <1>3, <1>6, <1>7, <2>b, <3>1, <3>2, <3>3
  <2> QED
    BY <1>5, <1>6, <1>7, <2>b, <2>c DEF Tale!ValidChain, Tale!None
<1>8. ASSUME Tale!ValidChain PROVE told = Tale!Ids /\ links[w[l]] = "none"
  BY <1>2, <1>3, <1>5, <1>8 DEF Tale!ValidChain, Tale!None
<1> QED
  BY <1>4, <1>7, <1>8 DEF Tale!ValidChain

-----------------------------------------------------------------------------
(* What the tale opens, and how far it has been told.                       *)

(* The fights and what the scenes open, by the turns they have.             *)
FightTurns == {3, 6, 9, 12, 15}
FoeAt(i) == IF i = 3 THEN "echo" ELSE IF i = 6 THEN "ash" ELSE IF i = 9 THEN "ruin"
            ELSE IF i = 12 THEN "vex" ELSE "dusk"
GroundAt(i) == IF i = 3 THEN 0 ELSE IF i = 6 THEN 1 ELSE IF i = 9 THEN 2
               ELSE IF i = 12 THEN 3 ELSE 4

LEMMA FightsHold ==
  \A i \in Turns :
    /\ Tale!StoryNodes[i].kind = IF i \in FightTurns THEN "fight" ELSE "talk"
    /\ i \in FightTurns => /\ Tale!StoryNodes[i].enemy = FoeAt(i)
                           /\ Tale!StoryNodes[i].arena = GroundAt(i)
    /\ i \notin FightTurns => Tale!StoryNodes[i].enemy = "none"
<1> DEFINE Holds(i, n) == /\ n.kind = IF i \in FightTurns THEN "fight" ELSE "talk"
                          /\ i \in FightTurns => n.enemy = FoeAt(i) /\ n.arena = GroundAt(i)
                          /\ i \notin FightTurns => n.enemy = "none"
<1>1. \A i \in 1..7 : Holds(i, Tale!FirstActs[i])
  BY DEF Tale!FirstActs, Tale!Talk, Tale!Duel, Tale!None, FightTurns, FoeAt, GroundAt
<1>2. \A i \in 1..10 : Holds(i + 7, Tale!LastActs[i])
  BY DEF Tale!LastActs, Tale!Talk, Tale!Duel, Tale!None, FightTurns, FoeAt, GroundAt
<1> HIDE DEF Holds
<1>3. \A i \in 8..17 : Holds(i, Tale!LastActs[i - 7])
  <2> SUFFICES ASSUME NEW i \in 8..17 PROVE Holds(i, Tale!LastActs[i - 7])
    OBVIOUS
  <2>a. PICK j \in 1..10 : j = i - 7 /\ i = j + 7
    OBVIOUS
  <2> QED
    BY <1>2, <2>a
<1>4. \A i \in Turns : Holds(i, Tale!StoryNodes[i])
  BY <1>1, <1>3, NodesInOrder DEF Turns, Final
<1> QED
  BY <1>4 DEF Holds

LEMMA UnlocksHold ==
  \A i \in Turns :
    /\ i \in {4, 7, 10, 13} => Tale!StoryNodes[i].unlocks.arenas = {GroundAt(i + 2)}
    /\ i \notin {4, 7, 10, 13} => Tale!StoryNodes[i].unlocks.arenas = {}
    /\ i = 7 => Tale!StoryNodes[i].unlocks.fighters = {"mira"}
    /\ i = 13 => Tale!StoryNodes[i].unlocks.fighters = {"goran"}
    /\ i \notin {7, 13} => Tale!StoryNodes[i].unlocks.fighters = {}
<1> DEFINE Opens(i, n) == /\ i \in {4, 7, 10, 13} => n.unlocks.arenas = {GroundAt(i + 2)}
                          /\ i \notin {4, 7, 10, 13} => n.unlocks.arenas = {}
           Joins(i, n) == /\ i = 7 => n.unlocks.fighters = {"mira"}
                          /\ i = 13 => n.unlocks.fighters = {"goran"}
                          /\ i \notin {7, 13} => n.unlocks.fighters = {}
<1>0. /\ \A id, lines, next, arenas, joining :
            /\ Tale!Talk(id, lines, next, arenas, joining).unlocks.arenas = arenas
            /\ Tale!Talk(id, lines, next, arenas, joining).unlocks.fighters = joining
      /\ \A id, enemy, arena, next : /\ Tale!Duel(id, enemy, arena, next).unlocks.arenas = {}
                                      /\ Tale!Duel(id, enemy, arena, next).unlocks.fighters = {}
  BY DEF Tale!Talk, Tale!Duel
<1> DEFINE first == Tale!FirstActs
           last == Tale!LastActs
<1>1. /\ first[1].unlocks.arenas = {} /\ first[2].unlocks.arenas = {}
      /\ first[3].unlocks.arenas = {} /\ first[4].unlocks.arenas = {1}
      /\ first[5].unlocks.arenas = {} /\ first[6].unlocks.arenas = {}
      /\ first[7].unlocks.arenas = {2}
      /\ \A i \in 1..6 : first[i].unlocks.fighters = {}
      /\ first[7].unlocks.fighters = {"mira"}
  BY <1>0 DEF Tale!FirstActs
<1>2. /\ last[1].unlocks.arenas = {} /\ last[2].unlocks.arenas = {}
      /\ last[3].unlocks.arenas = {3} /\ last[4].unlocks.arenas = {}
      /\ last[5].unlocks.arenas = {} /\ last[6].unlocks.arenas = {4}
      /\ \A i \in 7..10 : last[i].unlocks.arenas = {}
      /\ \A i \in (1..10) \ {6} : last[i].unlocks.fighters = {}
      /\ last[6].unlocks.fighters = {"goran"}
  BY <1>0 DEF Tale!LastActs
<1> HIDE DEF first, last
<1>3. \A i \in 1..7 : Opens(i, first[i]) /\ Joins(i, first[i])
  <2> SUFFICES ASSUME NEW i \in 1..7 PROVE Opens(i, first[i]) /\ Joins(i, first[i])
    OBVIOUS
  <2>a. CASE i = 4
    BY <1>1, <2>a DEF GroundAt
  <2>b. CASE i = 7
    BY <1>1, <2>b DEF GroundAt
  <2>c. CASE i \in {1, 2, 3, 5, 6}
    BY <1>1, <2>c
  <2> QED
    BY <2>a, <2>b, <2>c
<1>4. \A i \in 1..10 : Opens(i + 7, last[i]) /\ Joins(i + 7, last[i])
  <2> SUFFICES ASSUME NEW i \in 1..10 PROVE Opens(i + 7, last[i]) /\ Joins(i + 7, last[i])
    OBVIOUS
  <2>a. CASE i = 3
    BY <1>2, <2>a DEF GroundAt
  <2>b. CASE i = 6
    BY <1>2, <2>b DEF GroundAt
  <2>c. CASE i \in {1, 2, 4, 5, 7, 8, 9, 10}
    BY <1>2, <2>c
  <2> QED
    BY <2>a, <2>b, <2>c
<1> HIDE DEF Opens, Joins
<1>5. \A i \in 8..17 : Opens(i, last[i - 7]) /\ Joins(i, last[i - 7])
  <2> SUFFICES ASSUME NEW i \in 8..17
               PROVE  Opens(i, last[i - 7]) /\ Joins(i, last[i - 7])
    OBVIOUS
  <2>a. PICK j \in 1..10 : j = i - 7 /\ i = j + 7
    OBVIOUS
  <2> QED
    BY <1>4, <2>a
<1>6. \A i \in Turns : Opens(i, Tale!StoryNodes[i]) /\ Joins(i, Tale!StoryNodes[i])
  BY <1>3, <1>5, NodesInOrder DEF Turns, Final, first, last
<1> QED
  BY <1>6 DEF Opens, Joins

(* Each opponent has the ground it is fought on.                            *)
LEMMA GroundsAgree ==
  \A i \in FightTurns : /\ i \in Turns /\ FoeAt(i) \in DOMAIN Tale!Enemies
                        /\ Tale!GroundOf[FoeAt(i)] = GroundAt(i)
<1> SUFFICES ASSUME NEW i \in FightTurns
             PROVE  /\ i \in Turns /\ FoeAt(i) \in DOMAIN Tale!Enemies
                    /\ Tale!GroundOf[FoeAt(i)] = GroundAt(i)
  OBVIOUS
<1>1. i \in Turns /\ FoeAt(i) \in DOMAIN Tale!Enemies /\ FoeAt(i) # "none"
  BY DEF FightTurns, Turns, Final, FoeAt, Tale!Enemies
<1>2. \A j \in FightTurns : FoeAt(j) = FoeAt(i) => j = i
  BY DEF FightTurns, FoeAt
<1>3. Tale!ToSet(Tale!StoryNodes) = {Tale!StoryNodes[j] : j \in Turns}
  BY NodesInOrder DEF Tale!ToSet
<1>4. \A j \in Turns : Tale!StoryNodes[j].enemy = FoeAt(i) <=> j = i
  BY <1>1, <1>2, FightsHold
<1>5. (CHOOSE n \in Tale!ToSet(Tale!StoryNodes) : n.enemy = FoeAt(i)) = Tale!StoryNodes[i]
  BY <1>1, <1>3, <1>4
<1> QED
  BY <1>1, <1>5, FightsHold DEF Tale!GroundOf

(* A fight comes when its ground has been opened, and never twice in a row. *)
LEMMA FightsComeOpen ==
  ASSUME NEW m \in 0..Final, NEW i \in FightTurns, i <= m + 1
  PROVE  GroundAt(i) \in Tale!OpenedBy({Order[j] : j \in 1..m}).arenas
<1> DEFINE done == {Order[j] : j \in 1..m}
           opened == Tale!OpenedBy(done).arenas
<1>0. opened = {0} \cup UNION {Tale!NodeById[id].unlocks.arenas : id \in done}
  <2> HIDE DEF done
  <2> QED
    BY DEF Tale!OpenedBy
<1>1. CASE i = 3
  BY <1>0, <1>1 DEF GroundAt
<1>2. CASE i # 3
  <2>a. PICK j \in Turns : j = i - 2
    BY <1>2 DEF FightTurns, Turns, Final
  <2>b. j \in {4, 7, 10, 13} /\ i = j + 2 /\ j \in 1..m
    BY <1>2, <2>a DEF FightTurns, Turns, Final
  <2>c. GroundAt(i) \in Tale!NodeById[Order[j]].unlocks.arenas
    BY <2>b, UnlocksHold, IdsInOrder
  <2>d. Order[j] \in done
    BY <2>b
  <2> HIDE DEF done, opened
  <2>e. GroundAt(i) \in opened
    BY <1>0, <2>c, <2>d
  <2> QED
    BY <2>e DEF opened, done
<1> QED
  BY <1>1, <1>2

(* A card is opened by one node of the tale, the one it names.              *)
LEMMA CardsByNode ==
  \A f \in DOMAIN Tale!Playables \ {"kaito"}, id \in Tale!Ids :
    f \in Tale!NodeById[id].unlocks.fighters <=> id = Tale!Playables[f]
<1>1. DOMAIN Tale!Playables \ {"kaito"} = {"mira", "goran"}
  BY DEF Tale!Playables
<1>2. Tale!Playables["mira"] = Order[7] /\ Tale!Playables["goran"] = Order[13]
  BY DEF Tale!Playables, Order
<1>3. 7 \in Turns /\ 13 \in Turns
  BY DEF Turns, Final
<1>4. \A i \in Turns : /\ "mira" \in Tale!StoryNodes[i].unlocks.fighters <=> i = 7
                       /\ "goran" \in Tale!StoryNodes[i].unlocks.fighters <=> i = 13
  <2> SUFFICES ASSUME NEW i \in Turns
               PROVE  /\ "mira" \in Tale!StoryNodes[i].unlocks.fighters <=> i = 7
                      /\ "goran" \in Tale!StoryNodes[i].unlocks.fighters <=> i = 13
    OBVIOUS
  <2>a. CASE i = 7
    BY <2>a, UnlocksHold
  <2>b. CASE i = 13
    BY <2>b, UnlocksHold
  <2>c. CASE i # 7 /\ i # 13
    BY <2>c, UnlocksHold
  <2> QED
    BY <2>a, <2>b, <2>c
<1> QED
  BY <1>1, <1>2, <1>3, <1>4, IdsInOrder, OrderIsStrict

(* What is open after one more node.                                        *)
LEMMA OneMoreOpens ==
  ASSUME NEW done, NEW id
  PROVE  Tale!OpenedBy(done \cup {id}) =
           [arenas |-> Tale!OpenedBy(done).arenas \cup Tale!NodeById[id].unlocks.arenas,
            fighters |-> Tale!OpenedBy(done).fighters \cup Tale!NodeById[id].unlocks.fighters]
<1> DEFINE A(s) == {0} \cup UNION {Tale!NodeById[x].unlocks.arenas : x \in s}
           F(s) == {"kaito"} \cup UNION {Tale!NodeById[x].unlocks.fighters : x \in s}
<1>1. A(done \cup {id}) = A(done) \cup Tale!NodeById[id].unlocks.arenas
  OBVIOUS
<1>2. F(done \cup {id}) = F(done) \cup Tale!NodeById[id].unlocks.fighters
  OBVIOUS
<1>3. \A s : Tale!OpenedBy(s) = [arenas |-> A(s), fighters |-> F(s)]
  BY DEF Tale!OpenedBy
<1> HIDE DEF A, F
<1> QED
  BY <1>1, <1>2, <1>3

(* How far the tale has been told, and that what is open is what it opened. *)
TaleTold ==
  /\ links \in Tale!Tales
  /\ \E l \in Turns : l = Len(Tale!Way) /\ \E m \in 0..l : ToldUpto(m)
  /\ open = Tale!OpenedBy(told)

LEMMA AsItWas ==
  ASSUME TaleTold, UNCHANGED <<links, told, open>>
  PROVE  TaleTold'
<1>1. Tale!Way' = Tale!Way
  BY WayStays
<1>2. Tale!Tales' = Tale!Tales
  BY DEF Tale!Tales
<1>3. PICK w : w = Tale!Way
  OBVIOUS
<1>4. PICK l \in Turns : l = Len(w) /\ \E m \in 0..l : told = {w[i] : i \in 1..m}
  BY <1>3 DEF TaleTold, ToldUpto
<1>5. PICK m \in 0..l : told = {w[i] : i \in 1..m}
  BY <1>4
<1>6. l = Len(Tale!Way') /\ ToldUpto(m)'
  BY <1>1, <1>3, <1>4, <1>5 DEF ToldUpto
<1> QED
  BY <1>2, <1>4, <1>5, <1>6 DEF TaleTold

(* The current node is told.                                                *)
LEMMA OneMoreTold ==
  ASSUME TaleTold, links' = links, Tale!Cursor \in Tale!Ids, Tale!CompleteNode(Tale!Cursor)
  PROVE  /\ TaleTold'
         /\ open.arenas \subseteq open'.arenas /\ open.fighters \subseteq open'.fighters
<1>1. Tale!Way' = Tale!Way
  BY WayStays
<1>2. Tale!Tales' = Tale!Tales
  BY DEF Tale!Tales
<1>3. PICK w : w = Tale!Way
  OBVIOUS
<1>4. PICK l \in Turns : l = Len(w) /\ \E m \in 0..l : ToldUpto(m)
  BY <1>3 DEF TaleTold
<1>5. PICK m \in 0..l : ToldUpto(m)
  BY <1>4
<1>6. m < l /\ Tale!Cursor = w[m + 1]
  BY <1>3, <1>4, <1>5, CursorIsNext
<1>7. l \in Nat /\ m \in Nat
  BY FinalIs DEF Turns
<1>8. PICK k \in 0..l : k = m + 1
  BY <1>4, <1>5, <1>6, <1>7
<1>9. told' = {w[i] : i \in 1..k}
  <2>a. \A i \in 1..k : i \in 1..m \/ i = k
    BY <1>7, <1>8
  <2>b. 1..m \subseteq 1..k /\ k \in 1..k
    BY <1>7, <1>8
  <2>c. told = {w[i] : i \in 1..m} /\ told' = told \cup {w[k]}
    BY <1>3, <1>4, <1>5, <1>6, <1>8 DEF ToldUpto, Tale!CompleteNode
  <2> QED
    BY <2>a, <2>b, <2>c
<1>10. l = Len(Tale!Way') /\ ToldUpto(k)'
  BY <1>1, <1>3, <1>4, <1>5, <1>9 DEF ToldUpto
<1>11. /\ open' = Tale!OpenedBy(told')
       /\ open.arenas \subseteq open'.arenas /\ open.fighters \subseteq open'.fighters
  BY OneMoreOpens DEF TaleTold, Tale!CompleteNode
<1> QED
  BY <1>2, <1>4, <1>5, <1>10, <1>11 DEF TaleTold

(* In play the told nodes are the first ones as they are written.           *)
LEMMA ToldInPlay ==
  ASSUME TaleTold, Tale!Playing
  PROVE  \E m \in 0..Final :
           /\ told = {Order[j] : j \in 1..m}
           /\ IF m < Final THEN Tale!Cursor = Order[m + 1] /\ m + 1 \in Turns
              ELSE Tale!Cursor \notin Tale!Ids
<1>1. PICK w : w = Tale!Way
  OBVIOUS
<1>2. PICK l \in Turns : l = Len(w) /\ \E m \in 0..l : ToldUpto(m)
  BY <1>1 DEF TaleTold
<1>3. PICK m \in 0..l : ToldUpto(m)
  BY <1>2
<1>4. l = Final /\ \A i \in Turns : w[i] = Order[i]
  BY <1>1, <1>2, <1>3, WayAsWritten
<1>5. Final \in Nat /\ m \in 0..Final /\ m \in Nat
  BY <1>4, FinalIs DEF Turns
<1>6. IF m < Final THEN Tale!Cursor = w[m + 1] ELSE Tale!Cursor \notin Tale!Ids
  BY <1>1, <1>2, <1>3, <1>4, CursorIsNext
<1>7. m < Final => m + 1 \in Turns
  BY <1>5 DEF Turns
<1>8. told = {Order[j] : j \in 1..m}
  <2>a. \A j \in 1..m : j \in Turns
    BY <1>5 DEF Turns
  <2>b. told = {w[j] : j \in 1..m}
    BY <1>1, <1>2, <1>3 DEF ToldUpto
  <2> QED
    BY <1>4, <2>a, <2>b
<1> QED
  BY <1>4, <1>5, <1>6, <1>7, <1>8

(* The fight whose turn it is, is on open ground against one who can be met *)
(* there.                                                                   *)
LEMMA FightAtTurn ==
  ASSUME NEW m \in 0..Final, m + 1 \in Turns,
         Tale!NodeById[Order[m + 1]].kind = "fight"
  PROVE  LET n == Tale!NodeById[Order[m + 1]]
         IN  /\ n.arena \in Tale!OpenedBy({Order[j] : j \in 1..m}).arenas
             /\ Tale!GroundOf[n.enemy] = n.arena
<1>1. PICK i \in Turns : i = m + 1
  OBVIOUS
<1>2. i \in FightTurns
  BY <1>1, FightsHold, IdsInOrder
<1>3. Tale!NodeById[Order[i]].arena = GroundAt(i) /\ Tale!NodeById[Order[i]].enemy = FoeAt(i)
  BY <1>2, FightsHold, IdsInOrder
<1>4. i <= m + 1
  BY <1>1 DEF Turns
<1> QED
  BY <1>1, <1>2, <1>3, <1>4, GroundsAgree, FightsComeOpen

(* A profile from anywhere in the tale.                                     *)
LEMMA ImportsAreTold ==
  ASSUME TaleTold, NEW n \in Chapters, Tale!Import(n)
  PROVE  TaleTold'
<1>1. StoryNodes = Tale!StoryNodes
  BY Zenon DEF StoryNodes, FirstActs, LastActs, Talk, Duel, None, Tale!StoryNodes,
     Tale!FirstActs, Tale!LastActs, Tale!Talk, Tale!Duel, Tale!None
<1>2. n \in 0..Final /\ links' = links /\ Tale!Playing
  BY <1>1, TalesEnd, NodesInOrder DEF Tale!Import
<1>3. Tale!Way' = Tale!Way
  BY <1>2, WayStays
<1>4. Tale!Tales' = Tale!Tales
  BY DEF Tale!Tales
<1>5. PICK w : w = Tale!Way
  OBVIOUS
<1>6. Final = Len(w) /\ \A i \in Turns : w[i] = Order[i]
  BY <1>2, <1>5, WayAsWritten
<1>7. told' = {w[i] : i \in 1..n}
  <2>a. \A i \in 1..n : i \in Turns
    BY <1>2, FinalIs DEF Turns
  <2>b. told' = {Tale!StoryNodes[i].id : i \in 1..n}
    BY DEF Tale!Import
  <2> QED
    BY <1>6, <2>a, <2>b, NodesAreLinked
<1>8. Final = Len(Tale!Way') /\ ToldUpto(n)'
  BY <1>3, <1>5, <1>6, <1>7 DEF ToldUpto
<1>9. open' = Tale!OpenedBy(told')
  BY DEF Tale!Import
<1> QED
  BY <1>2, <1>4, <1>8, <1>9, FinalIs DEF TaleTold

-----------------------------------------------------------------------------
(* Where the player is while it is told.                                    *)

(* Where the player is: only the tale as it is written is played, dialogue  *)
(* and bout are left behind with their screens, and who is picked is open   *)
(* unless a profile landed outside the shop.                                *)
PicksStand ==
  /\ screen = "story" \/ talk # Tale!Silent \/ match.node # "none"
       => storyP0 \in open.fighters
  /\ screen = "versus" => /\ versusP0 \in open.fighters /\ versusArena \in open.arenas
                          /\ Tale!FoeOpen(versusFoe)
  /\ match # Tale!NoMatch => /\ match.p0 \in open.fighters /\ match.arena \in open.arenas
                             /\ Tale!FoeOpen(match.p1)
TalePlace ==
  /\ DOMAIN talk = {"node", "line", "shown"}
  /\ DOMAIN match = {"node", "p0", "p1", "arena", "stands"}
  /\ ~Tale!Playing => screen = "title"
  /\ talk # Tale!Silent => screen \in {"story", "fight"} /\ talk.node \in Tale!Ids
  /\ match # Tale!NoMatch => screen = "fight"
  /\ match.node \in Tale!Ids \cup {"none"}
  /\ late \/ PicksStand

LEMMA BlankRecords ==
  /\ DOMAIN Tale!Silent = {"node", "line", "shown"} /\ Tale!Silent.node = "none"
  /\ DOMAIN Tale!NoMatch = {"node", "p0", "p1", "arena", "stands"}
  /\ Tale!NoMatch.node = "none" /\ Tale!NoMatch.stands = "none" /\ "none" \notin Tale!Ids
<1>1. "none" \notin Tale!Ids
  BY IdsInOrder DEF Order, Turns, Final
<1> QED
  BY <1>1 DEF Tale!Silent, Tale!NoMatch, Tale!None

LEMMA AlwaysOpen ==
  ASSUME TaleTold
  PROVE  0 \in open.arenas /\ "kaito" \in open.fighters /\ Tale!GroundOf["echo"] = 0
<1>1. 0 \in open.arenas /\ "kaito" \in open.fighters
  BY DEF TaleTold, Tale!OpenedBy
<1>2. 3 \in FightTurns /\ FoeAt(3) = "echo" /\ GroundAt(3) = 0
  BY DEF FightTurns, FoeAt, GroundAt
<1> QED
  BY <1>1, <1>2, GroundsAgree

(* A fight that is started from the tale is between open fighters on open   *)
(* ground.                                                                  *)
LEMMA StoryFightPlaced ==
  ASSUME NEW m \in 0..Final, m + 1 \in Turns, NEW id, id = Order[m + 1],
         Tale!NodeById[id].kind = "fight", Tale!StartStoryFight(id),
         links' = links, Tale!Playing, late' = late, storyP0' = storyP0,
         open' = Tale!OpenedBy({Order[j] : j \in 1..m}),
         late \/ storyP0 \in open'.fighters,
         DOMAIN talk' = {"node", "line", "shown"},
         talk' # Tale!Silent => talk'.node \in Tale!Ids
  PROVE  TalePlace'
<1>1. /\ screen' = "fight" /\ match'.node = id /\ match'.p0 = storyP0
      /\ match'.p1 = Tale!NodeById[id].enemy /\ match'.arena = Tale!NodeById[id].arena
      /\ DOMAIN match' = {"node", "p0", "p1", "arena", "stands"}
  BY DEF Tale!StartStoryFight, Tale!StartFight
<1>2. match'.arena \in open'.arenas /\ Tale!FoeOpen(match.p1)'
  <2>a. /\ Tale!NodeById[id].arena \in open'.arenas
        /\ Tale!GroundOf[Tale!NodeById[id].enemy] = Tale!NodeById[id].arena
    BY FightAtTurn
  <2> QED
    BY <1>1, <2>a DEF Tale!FoeOpen
<1>3. id \in Tale!Ids /\ Tale!Ids' = Tale!Ids /\ Tale!Playing'
  BY IdsInOrder DEF Tale!Playing, Tale!Ids
<1>4. Tale!Silent' = Tale!Silent /\ Tale!NoMatch' = Tale!NoMatch
  BY DEF Tale!Silent, Tale!NoMatch
<1>5. late' \/ PicksStand'
  BY <1>1, <1>2, <1>4 DEF PicksStand
<1> QED
  BY <1>1, <1>3, <1>4, <1>5 DEF TalePlace

LEMMA SameBlanks ==
  Tale!Ids' = Tale!Ids /\ Tale!Silent' = Tale!Silent /\ Tale!NoMatch' = Tale!NoMatch
BY DEF Tale!Ids, Tale!Silent, Tale!NoMatch

LEMMA MenuPlaced ==
  ASSUME NEW s, Tale!ShowMenu(s), s \notin {"story", "versus"}, links' = links,
         Tale!Playing \/ s = "title"
  PROVE  TalePlace'
<1>1. screen' = s /\ talk' = Tale!Silent /\ match' = Tale!NoMatch
  BY DEF Tale!ShowMenu
<1>2. Tale!Playing' <=> Tale!Playing
  BY DEF Tale!Playing, Tale!AsWritten
<1>3. PicksStand'
  BY <1>1, SameBlanks, BlankRecords DEF PicksStand
<1> QED
  BY <1>1, <1>2, <1>3, SameBlanks, BlankRecords DEF TalePlace

LEMMA ChosenPlaced ==
  ASSUME TaleTold, NEW f, Tale!Choose(f)
  PROVE  TalePlace'
<1>1. /\ talk' = Tale!Silent /\ match' = Tale!NoMatch /\ Tale!Playing /\ links' = links
      /\ open' = open /\ f \in open.fighters /\ screen' \in {"story", "versus"}
  BY AlwaysOpen DEF Tale!Choose, Tale!ShowMenu
<1>2. Tale!Playing'
  BY <1>1 DEF Tale!Playing, Tale!AsWritten
<1>3. screen' = "story" => storyP0' \in open'.fighters
  BY <1>1 DEF Tale!Choose, Tale!ShowMenu
<1>4. screen' = "versus" => /\ versusP0' \in open'.fighters /\ versusArena' \in open'.arenas
                            /\ Tale!FoeOpen(versusFoe)'
  <2> SUFFICES ASSUME screen' = "versus"
               PROVE  /\ versusP0' \in open'.fighters /\ versusArena' \in open'.arenas
                      /\ Tale!FoeOpen(versusFoe)'
    OBVIOUS
  <2>a. versusP0' = f /\ Tale!RenderVersus(versusFoe, versusArena)
    BY DEF Tale!Choose, Tale!ShowMenu
  <2> QED
    BY <1>1, <2>a, AlwaysOpen DEF Tale!RenderVersus, Tale!FoeOpen
<1>5. PicksStand'
  BY <1>1, <1>3, <1>4, SameBlanks, BlankRecords DEF PicksStand
<1> QED
  BY <1>1, <1>2, <1>5, SameBlanks, BlankRecords DEF TalePlace

LEMMA PickPlaced ==
  ASSUME TaleTold, TalePlace, NEW e, NEW a, Tale!FoeOpen(e), a \in open.arenas \cup {0},
         Tale!RenderVersus(e, a),
         UNCHANGED <<links, told, open, screen, storyP0, versusP0, talk, match, late>>
  PROVE  TalePlace'
<1>1. Tale!Playing' <=> Tale!Playing
  BY DEF Tale!Playing, Tale!AsWritten
<1>2. versusArena' \in open'.arenas /\ Tale!FoeOpen(versusFoe)'
  BY AlwaysOpen DEF Tale!RenderVersus, Tale!FoeOpen
<1>3. late' \/ PicksStand'
  <2>a. CASE late
    BY <2>a
  <2>b. CASE PicksStand
    <3>1. Tale!FoeOpen(match.p1)' <=> Tale!FoeOpen(match.p1)
      BY DEF Tale!FoeOpen
    <3> QED
      BY <1>2, <2>b, <3>1, SameBlanks DEF PicksStand
  <2> QED
    BY <2>a, <2>b DEF TalePlace
<1> QED
  BY <1>1, <1>3, SameBlanks DEF TalePlace

LEMMA VersusPlaced ==
  ASSUME TaleTold, TalePlace, Tale!VersusFight
  PROVE  TalePlace'
<1>1. /\ screen = "versus" /\ screen' = "fight" /\ match'.node = "none"
      /\ match'.p0 = versusP0 /\ match'.p1 = versusFoe /\ match'.arena = versusArena
      /\ DOMAIN match' = {"node", "p0", "p1", "arena", "stands"}
      /\ UNCHANGED <<links, told, open, storyP0, talk, late>>
  BY DEF Tale!VersusFight, Tale!StartFight, Tale!None, Tale!picks, Tale!arrivals
<1>2. Tale!Playing /\ Tale!Playing' /\ talk' = Tale!Silent
  BY <1>1 DEF TalePlace, Tale!Playing, Tale!AsWritten
<1>3. late' \/ PicksStand'
  <2>a. CASE late
    BY <1>1, <2>a
  <2>b. CASE PicksStand
    <3>1. Tale!FoeOpen(match.p1)'
      BY <1>1, <2>b DEF PicksStand, Tale!FoeOpen
    <3> QED
      BY <1>1, <1>2, <2>b, <3>1, SameBlanks DEF PicksStand
  <2> QED
    BY <2>a, <2>b DEF TalePlace
<1> QED
  BY <1>1, <1>2, <1>3, SameBlanks, BlankRecords DEF TalePlace

(* A bout that ends or begins again.                                        *)
LEMMA BoutPlaced ==
  ASSUME TalePlace, NEW end, match.stands # "none", match' = [match EXCEPT !.stands = end],
         UNCHANGED <<links, told, open, screen, storyP0, versusP0, versusFoe, versusArena,
                     talk, late>>
  PROVE  TalePlace'
<1>1. /\ match'.node = match.node /\ match'.p0 = match.p0 /\ match'.p1 = match.p1
      /\ match'.arena = match.arena /\ DOMAIN match' = DOMAIN match
      /\ match # Tale!NoMatch
  BY BlankRecords DEF TalePlace
<1>2. Tale!Playing' <=> Tale!Playing
  BY DEF Tale!Playing, Tale!AsWritten
<1>3. late' \/ PicksStand'
  <2>a. CASE late
    BY <2>a
  <2>b. CASE PicksStand
    <3>1. /\ Tale!FoeOpen(match.p1)' <=> Tale!FoeOpen(match.p1)
          /\ Tale!FoeOpen(versusFoe)' <=> Tale!FoeOpen(versusFoe)
      BY <1>1 DEF Tale!FoeOpen
    <3> QED
      BY <1>1, <2>b, <3>1, SameBlanks DEF PicksStand
  <2> QED
    BY <2>a, <2>b DEF TalePlace
<1> QED
  BY <1>1, <1>2, <1>3, SameBlanks DEF TalePlace

(* A dialogue that goes on at its node, or begins at one of the tale.       *)
LEMMA TalkPlaced ==
  ASSUME TalePlace, Tale!Playing, screen \in {"story", "fight"},
         talk # Tale!Silent \/ screen = "story",
         DOMAIN talk' = {"node", "line", "shown"},
         talk' # Tale!Silent => talk'.node \in Tale!Ids,
         open.arenas \subseteq open'.arenas, open.fighters \subseteq open'.fighters,
         UNCHANGED <<links, screen, storyP0, versusP0, versusFoe, versusArena, match, late>>
  PROVE  TalePlace'
<1>1. Tale!Playing'
  BY DEF Tale!Playing, Tale!AsWritten
<1>2. late' \/ PicksStand'
  <2>a. CASE late
    BY <2>a
  <2>b. CASE PicksStand
    <3>1. Tale!FoeOpen(match.p1) => Tale!FoeOpen(match.p1)'
      BY DEF Tale!FoeOpen
    <3> QED
      BY <2>b, <3>1, SameBlanks DEF PicksStand
  <2> QED
    BY <2>a, <2>b DEF TalePlace
<1> QED
  BY <1>1, <1>2, SameBlanks DEF TalePlace

LEMMA LinksInPlay ==
  ASSUME Tale!Playing, NEW i \in Turns
  PROVE  IF i = Final THEN links[Order[i]] = "none"
         ELSE /\ i + 1 \in Turns /\ links[Order[i]] = Order[i + 1]
              /\ Order[i + 1] \in Tale!Ids
<1>1. i # Final => i + 1 \in Turns
  BY FinalIs DEF Turns
<1> QED
  BY <1>1, IdsInOrder DEF Tale!Playing

LEMMA PlayPlaced ==
  ASSUME TaleTold, TalePlace, Tale!PlayScene
  PROVE  TalePlace'
<1>1. /\ Tale!Playing /\ screen = "story" /\ Tale!Cursor \in Tale!Ids
      /\ UNCHANGED <<links, told, open, storyP0, versusP0, versusFoe, versusArena, late>>
  BY DEF Tale!PlayScene, Tale!picks, Tale!arrivals
<1>2. CASE Tale!NodeById[Tale!Cursor].kind = "fight"
  <2>a. PICK m \in 0..Final : /\ told = {Order[j] : j \in 1..m} /\ m + 1 \in Turns
                              /\ Tale!Cursor = Order[m + 1]
    BY <1>1, ToldInPlay
  <2>b. Tale!StartStoryFight(Tale!Cursor) /\ talk' = talk
    BY <1>2 DEF Tale!PlayScene
  <2>c. PICK id : id = Tale!Cursor
    OBVIOUS
  <2>d. late \/ storyP0 \in open'.fighters
    BY <1>1 DEF TalePlace, PicksStand
  <2>e. open' = Tale!OpenedBy({Order[j] : j \in 1..m})
    BY <1>1, <2>a DEF TaleTold
  <2>f. DOMAIN talk' = {"node", "line", "shown"} /\ (talk' # Tale!Silent => talk'.node \in Tale!Ids)
    BY <2>b DEF TalePlace
  <2> QED
    BY <1>1, <1>2, <2>a, <2>b, <2>c, <2>d, <2>e, <2>f, StoryFightPlaced
<1>3. CASE Tale!NodeById[Tale!Cursor].kind # "fight"
  <2>a. /\ UNCHANGED <<screen, match>> /\ talk'.node \in Tale!Ids
        /\ DOMAIN talk' = {"node", "line", "shown"}
    BY <1>1, <1>3 DEF Tale!PlayScene, Tale!OpenDialogue
  <2> QED
    BY <1>1, <2>a, TalkPlaced
<1> QED
  BY <1>2, <1>3

LEMMA TickPlaced ==
  ASSUME TaleTold, TalePlace, Tale!TickDialogue
  PROVE  TalePlace'
<1>1. /\ talk # Tale!Silent /\ talk' = [talk EXCEPT !.shown = @ + 1]
      /\ UNCHANGED <<links, told, open, screen, storyP0, versusP0, versusFoe, versusArena,
                     match, late>>
  BY DEF Tale!TickDialogue, Tale!picks, Tale!arrivals
<1>2. talk'.node = talk.node /\ DOMAIN talk' = DOMAIN talk
  BY <1>1 DEF TalePlace
<1>3. Tale!Playing
  BY <1>1 DEF TalePlace
<1> QED
  BY <1>1, <1>2, <1>3, TalkPlaced DEF TalePlace

(* The last line of the current scene: the node is told, and what follows   *)
(* it begins.                                                               *)
LEMMA StepToldPlaced ==
  ASSUME TaleTold, TalePlace, Tale!StepDialogue, Tale!Cursor = talk.node,
         Tale!CompleteNode(talk.node), Tale!Follow(links[talk.node])
  PROVE  TaleTold' /\ TalePlace'
<1>1. /\ talk # Tale!Silent
      /\ UNCHANGED <<links, storyP0, versusP0, versusFoe, versusArena, late>>
  BY DEF Tale!StepDialogue, Tale!picks, Tale!arrivals
<1>2. Tale!Playing /\ talk.node \in Tale!Ids /\ screen \in {"story", "fight"}
  BY <1>1 DEF TalePlace
<1>3. /\ TaleTold'
      /\ open.arenas \subseteq open'.arenas /\ open.fighters \subseteq open'.fighters
  BY <1>1, <1>2, OneMoreTold
<1>4. PICK next : next = links[talk.node]
  OBVIOUS
<1>5. PICK m \in 0..Final : /\ told = {Order[j] : j \in 1..m} /\ m + 1 \in Turns
                            /\ talk.node = Order[m + 1]
  BY <1>2, ToldInPlay
<1>6. m \in Nat /\ Final \in Nat
  BY FinalIs
<1>7. PICK i \in Turns : i = m + 1
  BY <1>5
<1>8. IF i = Final THEN next = "none"
      ELSE i + 1 \in Turns /\ next = Order[i + 1] /\ next \in Tale!Ids
  BY <1>2, <1>4, <1>5, <1>7, LinksInPlay
<1>9. CASE next = "none"
  <2>a. talk' = Tale!Silent /\ UNCHANGED <<screen, match>>
    BY <1>4, <1>9 DEF Tale!Follow, Tale!None
  <2>b. DOMAIN talk' = {"node", "line", "shown"}
    BY <2>a, BlankRecords
  <2>c. TalePlace'
    BY <1>1, <1>2, <1>3, <2>a, <2>b, TalkPlaced
  <2> QED
    BY <1>3, <2>c
<1>10. CASE next # "none" /\ Tale!NodeById[next].kind = "fight"
  <2>a. Tale!StartStoryFight(next) /\ talk' = Tale!Silent
    BY <1>4, <1>10 DEF Tale!Follow, Tale!None
  <2>b. i + 1 \in Turns /\ next = Order[i + 1] /\ i \in 0..Final
    BY <1>6, <1>8, <1>10 DEF Turns
  <2>c. told' = {Order[j] : j \in 1..i}
    <3>1. \A j \in 1..i : j \in 1..m \/ j = i
      BY <1>6, <1>7
    <3>2. 1..m \subseteq 1..i /\ i \in 1..i
      BY <1>6, <1>7
    <3>3. told' = told \cup {Order[i]}
      BY <1>5, <1>7 DEF Tale!CompleteNode
    <3> QED
      BY <1>5, <3>1, <3>2, <3>3
  <2>d. open' = Tale!OpenedBy({Order[j] : j \in 1..i})
    BY <1>3, <2>c DEF TaleTold
  <2>e. late \/ storyP0 \in open'.fighters
    BY <1>1, <1>3 DEF TalePlace, PicksStand
  <2>f. DOMAIN talk' = {"node", "line", "shown"}
    BY <2>a, BlankRecords
  <2>g. TalePlace'
    BY <1>1, <1>2, <1>10, <2>a, <2>b, <2>d, <2>e, <2>f, StoryFightPlaced
  <2> QED
    BY <1>3, <2>g
<1>11. CASE next # "none" /\ Tale!NodeById[next].kind # "fight"
  <2>a. /\ UNCHANGED <<screen, match>> /\ talk'.node = next
        /\ DOMAIN talk' = {"node", "line", "shown"}
    BY <1>4, <1>11 DEF Tale!Follow, Tale!None, Tale!OpenDialogue
  <2>b. next \in Tale!Ids
    BY <1>8, <1>11
  <2>c. TalePlace'
    BY <1>1, <1>2, <1>3, <2>a, <2>b, TalkPlaced
  <2> QED
    BY <1>3, <2>c
<1> QED
  BY <1>9, <1>10, <1>11

LEMMA StepPlaced ==
  ASSUME TaleTold, TalePlace, Tale!StepDialogue
  PROVE  TaleTold' /\ TalePlace'
<1>1. /\ talk # Tale!Silent
      /\ UNCHANGED <<links, storyP0, versusP0, versusFoe, versusArena, late>>
  BY DEF Tale!StepDialogue, Tale!picks, Tale!arrivals
<1>2. Tale!Playing /\ talk.node \in Tale!Ids /\ screen \in {"story", "fight"}
  BY <1>1 DEF TalePlace
<1>3. ASSUME UNCHANGED <<told, open, screen, match>>,
             DOMAIN talk' = {"node", "line", "shown"},
             talk' # Tale!Silent => talk'.node \in Tale!Ids
      PROVE  TaleTold' /\ TalePlace'
  <2>a. TaleTold'
    BY <1>1, <1>3, AsItWas
  <2>b. TalePlace'
    BY <1>1, <1>2, <1>3, TalkPlaced
  <2> QED
    BY <2>a, <2>b
<1>4. CASE ~Tale!LineComplete
  <2>a. UNCHANGED <<told, open, screen, match>> /\ talk' = [talk EXCEPT !.shown = LineTicks]
    BY <1>4 DEF Tale!StepDialogue
  <2>b. talk'.node = talk.node /\ DOMAIN talk' = {"node", "line", "shown"}
    BY <2>a DEF TalePlace
  <2> QED
    BY <1>2, <1>3, <2>a, <2>b
<1>5. CASE Tale!LineComplete /\ ~Tale!LastLine
  <2>a. /\ UNCHANGED <<told, open, screen, match>>
        /\ talk' = [talk EXCEPT !.line = @ + 1, !.shown = 0]
    BY <1>5 DEF Tale!StepDialogue
  <2>b. PICK step : step = [talk EXCEPT !.line = @ + 1]
    OBVIOUS
  <2>c. step.node = talk.node /\ DOMAIN step = {"node", "line", "shown"}
    BY <2>b DEF TalePlace
  <2>d. talk' = [step EXCEPT !.shown = 0]
    BY <2>a, <2>b
  <2>e. talk'.node = talk.node /\ DOMAIN talk' = {"node", "line", "shown"}
    BY <2>c, <2>d
  <2> QED
    BY <1>2, <1>3, <2>a, <2>e
<1>6. CASE Tale!LineComplete /\ Tale!LastLine /\ Tale!Cursor = talk.node
  <2>a. Tale!CompleteNode(talk.node) /\ Tale!Follow(links[talk.node])
    BY <1>6 DEF Tale!StepDialogue
  <2> QED
    BY <1>6, <2>a, StepToldPlaced
<1>7. CASE Tale!LineComplete /\ Tale!LastLine /\ Tale!Cursor # talk.node
  <2>a. UNCHANGED <<told, open, screen, match>> /\ talk' = Tale!Silent
    BY <1>7 DEF Tale!StepDialogue
  <2> QED
    BY <1>3, <2>a, BlankRecords
<1> QED
  BY <1>4, <1>5, <1>6, <1>7

LEMMA ContinuePlaced ==
  ASSUME TaleTold, TalePlace, Tale!ContinueStory
  PROVE  TaleTold' /\ TalePlace'
<1>1. /\ match.stands = "win" /\ match.node # "none" /\ screen' = "story"
      /\ match' = Tale!NoMatch
      /\ UNCHANGED <<links, storyP0, versusP0, versusFoe, versusArena, late>>
  BY DEF Tale!ContinueStory, Tale!picks, Tale!arrivals, Tale!None
<1>2. /\ match.node \in Tale!Ids /\ match # Tale!NoMatch /\ Tale!Playing
      /\ late \/ storyP0 \in open.fighters
  BY <1>1, BlankRecords DEF TalePlace, PicksStand
<1>3. Tale!Playing'
  BY <1>1, <1>2 DEF Tale!Playing, Tale!AsWritten
<1>4. ASSUME open.fighters \subseteq open'.fighters, DOMAIN talk' = {"node", "line", "shown"},
             talk' # Tale!Silent => talk'.node \in Tale!Ids
      PROVE  TalePlace'
  <2>a. late' \/ PicksStand'
    BY <1>1, <1>2, <1>4, SameBlanks DEF PicksStand
  <2> QED
    BY <1>1, <1>3, <1>4, <2>a, SameBlanks, BlankRecords DEF TalePlace
<1>5. CASE Tale!Cursor = match.node
  <2>a. PICK next : next = links[match.node]
    OBVIOUS
  <2>b. Tale!CompleteNode(Tale!Cursor) /\ talk' = [node |-> next, line |-> 0, shown |-> 0]
    BY <1>5, <2>a DEF Tale!ContinueStory, Tale!OpenDialogue
  <2>c. TaleTold' /\ open.fighters \subseteq open'.fighters
    BY <1>1, <1>2, <1>5, <2>b, OneMoreTold
  <2>d. PICK m \in 0..Final : m + 1 \in Turns /\ match.node = Order[m + 1]
    BY <1>2, <1>5, ToldInPlay
  <2>e. PICK i \in Turns : i = m + 1
    BY <2>d
  <2>f. next = "none" \/ next \in Tale!Ids
    BY <1>2, <2>a, <2>d, <2>e, LinksInPlay
  <2>g. talk' # Tale!Silent => talk'.node \in Tale!Ids
    BY <2>b, <2>f DEF Tale!Silent, Tale!None
  <2> QED
    BY <1>4, <2>b, <2>c, <2>g
<1>6. CASE Tale!Cursor # match.node
  <2>a. talk' = Tale!Silent /\ UNCHANGED <<told, open>>
    BY <1>6 DEF Tale!ContinueStory
  <2>b. TaleTold'
    BY <1>1, <2>a, AsItWas
  <2> QED
    BY <1>4, <2>a, <2>b, BlankRecords
<1> QED
  BY <1>5, <1>6

(* A profile that lands in the shop finds nobody in a dialogue or a bout.   *)
LEMMA ImportPlaced ==
  ASSUME TalePlace, NEW n \in Chapters, Tale!Import(n)
  PROVE  TalePlace'
<1>1. /\ Tale!Playing /\ late' = (late \/ screen # "shop")
      /\ UNCHANGED <<links, screen, storyP0, versusP0, versusFoe, versusArena, talk, match>>
  BY DEF Tale!Import, Tale!picks
<1>2. Tale!Playing'
  BY <1>1 DEF Tale!Playing, Tale!AsWritten
<1>3. late' \/ PicksStand'
  <2>a. CASE late \/ screen # "shop"
    BY <1>1, <2>a
  <2>b. CASE screen = "shop"
    BY <1>1, <2>b, SameBlanks, BlankRecords DEF TalePlace, PicksStand
  <2> QED
    BY <2>a, <2>b
<1> QED
  BY <1>1, <1>2, <1>3, SameBlanks DEF TalePlace

LEMMA TaleBegins ==
  ASSUME Tale!Init
  PROVE  TaleTold /\ TalePlace
<1>1. /\ screen = "title" /\ talk = Tale!Silent /\ match = Tale!NoMatch
      /\ links \in Tale!Tales /\ told = {} /\ open = Tale!OpenedBy({})
  BY DEF Tale!Init
<1>2. TaleTold
  <2>a. PICK l \in Turns : l = Len(Tale!Way)
    BY WayIsWhole
  <2>b. 0 \in 0..l /\ ToldUpto(0)
    BY <1>1, FinalIs DEF ToldUpto, Turns
  <2> QED
    BY <1>1, <2>a, <2>b DEF TaleTold
<1>3. PicksStand
  BY <1>1, BlankRecords DEF PicksStand
<1> QED
  BY <1>1, <1>2, <1>3, BlankRecords DEF TalePlace

LEMMA TaleGoesOn ==
  ASSUME TaleTold, TalePlace, [Tale!Next]_(Tale!vars)
  PROVE  TaleTold' /\ TalePlace'
<1>1. CASE Tale!ToldOut \/ UNCHANGED Tale!vars
  <2>a. UNCHANGED Tale!vars
    BY <1>1 DEF Tale!ToldOut
  <2>b. UNCHANGED <<links, told, open, screen, storyP0, versusP0, versusFoe, versusArena,
                    talk, match, late>>
    BY <2>a DEF Tale!vars
  <2>c. /\ Tale!Playing' <=> Tale!Playing
        /\ Tale!FoeOpen(match.p1)' <=> Tale!FoeOpen(match.p1)
        /\ Tale!FoeOpen(versusFoe)' <=> Tale!FoeOpen(versusFoe)
    BY <2>b DEF Tale!Playing, Tale!AsWritten, Tale!FoeOpen
  <2> QED
    BY <2>b, <2>c, SameBlanks, AsItWas DEF TalePlace, PicksStand
<1>2. CASE Tale!TellOn
  <2>a. /\ ~Tale!Playing /\ Tale!Cursor \in Tale!Ids /\ Tale!CompleteNode(Tale!Cursor)
        /\ UNCHANGED <<links, screen, talk, match>>
    BY <1>2 DEF Tale!TellOn
  <2>b. TaleTold'
    BY <2>a, OneMoreTold
  <2>c. screen = "title" /\ talk = Tale!Silent /\ match = Tale!NoMatch
    BY <2>a DEF TalePlace
  <2>d. Tale!ShowMenu("title")
    BY <2>a, <2>c DEF Tale!ShowMenu
  <2> QED
    BY <2>a, <2>b, <2>d, MenuPlaced
<1>3. CASE \/ \E how \in {"story", "versus"} : Tale!OpenSelect(how)
           \/ Tale!Shop
  <2>a. PICK s \in {"select", "shop"} : /\ Tale!ShowMenu(s) /\ Tale!Playing
                                        /\ UNCHANGED <<links, told, open>>
    BY <1>3 DEF Tale!OpenSelect, Tale!Shop
  <2> QED
    BY <2>a, AsItWas, MenuPlaced
<1>4. CASE Tale!Back
  <2>a. PICK s \in {"select", "title"} : /\ Tale!ShowMenu(s)
                                         /\ UNCHANGED <<links, told, open>>
    BY <1>4 DEF Tale!Back
  <2>b. Tale!Playing
    BY <1>4 DEF Tale!Back, TalePlace
  <2> QED
    BY <2>a, <2>b, AsItWas, MenuPlaced
<1>5. ASSUME NEW f \in DOMAIN Playables, Tale!Choose(f) PROVE TaleTold' /\ TalePlace'
  <2>a. UNCHANGED <<links, told, open>>
    BY <1>5 DEF Tale!Choose
  <2> QED
    BY <1>5, <2>a, AsItWas, ChosenPlaced
<1>6. ASSUME NEW e \in Foes, Tale!PickFoe(e) PROVE TaleTold' /\ TalePlace'
  <2>a. /\ screen = "versus" /\ Tale!FoeOpen(e) /\ Tale!RenderVersus(e, versusArena)
        /\ UNCHANGED <<links, told, open, screen, storyP0, versusP0, talk, match, late>>
    BY <1>6 DEF Tale!PickFoe, Tale!arrivals
  <2>b. CASE late
    <3>1. /\ Tale!Playing' <=> Tale!Playing
      BY <2>a DEF Tale!Playing, Tale!AsWritten
    <3> QED
      BY <2>a, <2>b, <3>1, SameBlanks, AsItWas DEF TalePlace
  <2>c. CASE ~late
    <3>1. versusArena \in open.arenas \cup {0}
      BY <2>a, <2>c DEF TalePlace, PicksStand
    <3> QED
      BY <2>a, <3>1, AsItWas, PickPlaced
  <2> QED
    BY <2>b, <2>c
<1>7. ASSUME NEW a \in Arenas, Tale!PickArena(a) PROVE TaleTold' /\ TalePlace'
  <2>a. /\ screen = "versus" /\ a \in open.arenas \cup {0} /\ Tale!RenderVersus(versusFoe, a)
        /\ UNCHANGED <<links, told, open, screen, storyP0, versusP0, talk, match, late>>
    BY <1>7 DEF Tale!PickArena, Tale!arrivals
  <2>b. CASE late
    <3>1. /\ Tale!Playing' <=> Tale!Playing
      BY <2>a DEF Tale!Playing, Tale!AsWritten
    <3> QED
      BY <2>a, <2>b, <3>1, SameBlanks, AsItWas DEF TalePlace
  <2>c. CASE ~late
    <3>1. Tale!FoeOpen(versusFoe)
      BY <2>a, <2>c DEF TalePlace, PicksStand
    <3> QED
      BY <2>a, <3>1, AsItWas, PickPlaced
  <2> QED
    BY <2>b, <2>c
<1>8. ASSUME NEW n \in Chapters, Tale!Import(n) PROVE TaleTold' /\ TalePlace'
  BY <1>8, ImportsAreTold, ImportPlaced
<1>9. CASE Tale!VersusFight
  <2>a. UNCHANGED <<links, told, open>>
    BY <1>9 DEF Tale!VersusFight
  <2> QED
    BY <1>9, <2>a, AsItWas, VersusPlaced
<1>10. CASE Tale!Rematch \/ \E end \in {"win", "loss"} : Tale!BoutEnds(end)
  <2>a. PICK end : /\ match.stands # "none" /\ match' = [match EXCEPT !.stands = end]
                   /\ UNCHANGED <<links, told, open, screen, storyP0, versusP0, versusFoe,
                                  versusArena, talk, late>>
    BY <1>10 DEF Tale!Rematch, Tale!BoutEnds, Tale!picks, Tale!arrivals
  <2> QED
    BY <2>a, AsItWas, BoutPlaced
<1>11. CASE Tale!PlayScene
  <2>a. UNCHANGED <<links, told, open>>
    BY <1>11 DEF Tale!PlayScene
  <2> QED
    BY <1>11, <2>a, AsItWas, PlayPlaced
<1>12. CASE Tale!TickDialogue
  <2>a. UNCHANGED <<links, told, open>>
    BY <1>12 DEF Tale!TickDialogue
  <2> QED
    BY <1>12, <2>a, AsItWas, TickPlaced
<1>13. CASE Tale!StepDialogue \/ Tale!ContinueStory
  BY <1>13, StepPlaced, ContinuePlaced
<1> QED
  <2>a. Tale!Arenas = Arenas /\ DOMAIN Tale!Playables = DOMAIN Playables
    BY DEF Tale!Arenas, Arenas, Tale!Playables, Playables
  <2> QED
    BY <1>1, <1>2, <1>3, <1>4, <1>5, <1>6, <1>7, <1>8, <1>9, <1>10, <1>11, <1>12, <1>13, <2>a
    DEF Tale!Next

(* Tales that are told in this way keep their promises.                     *)
LEMMA TalesAreKept ==
  ASSUME TaleTold, TalePlace
  PROVE  Tale!ValidTalesAreTold /\ Tale!CardsKeepTheirWord /\ Tale!FightsAreOpen
<1>1. Tale!ValidTalesAreTold
  BY TalesAreTold DEF TaleTold
<1>2. Tale!CardsKeepTheirWord
  <2> SUFFICES ASSUME Tale!Playing, NEW f \in DOMAIN Tale!Playables \ {"kaito"}
               PROVE  (f \in open.fighters) = (Tale!Playables[f] \in told)
    BY DEF Tale!CardsKeepTheirWord
  <2>a. told \subseteq Tale!Ids
    <3>1. PICK m \in 0..Final : told = {Order[j] : j \in 1..m}
      BY ToldInPlay
    <3>2. \A j \in 1..m : j \in Turns
      BY FinalIs DEF Turns
    <3> QED
      BY <3>1, <3>2, IdsInOrder
  <2>b. open.fighters = {"kaito"} \cup UNION {Tale!NodeById[id].unlocks.fighters : id \in told}
    BY DEF TaleTold, Tale!OpenedBy
  <2>c. f \in open.fighters <=> \E id \in told : f \in Tale!NodeById[id].unlocks.fighters
    BY <2>b
  <2>d. f \in open.fighters <=> \E id \in told : id = Tale!Playables[f]
    BY <2>a, <2>c, CardsByNode
  <2> QED
    BY <2>d
<1>3. Tale!FightsAreOpen
  BY DEF Tale!FightsAreOpen, TalePlace, PicksStand
<1> QED
  BY <1>1, <1>2, <1>3

(* The tale is told in order and opens what it says: in the instances with  *)
(* a storage that refuses, and in the whole tale with whatever profiles are *)
(* imported, as it is written and with any one link changed (validateStory, *)
(* storyCursor, applyStoryUnlocks, renderVersus).                           *)
THEOREM TaleIsTold == Spec => []StoryInOrder
<1> DEFINE Inv == /\ setting = "story" => Story!BankInv /\ Story!PayInv
                  /\ setting = "purse" => Purse!BankInv /\ Purse!PayInv
                  /\ setting = "tale" => TaleTold /\ TalePlace
<1>0. /\ Len(Chain) \in Nat /\ Len(<<>>) \in Nat /\ {0, 1, 3} \subseteq Nat
      /\ "stipend" \notin DOMAIN <<>> /\ "stipend" \notin DOMAIN [jab |-> 1]
  BY DEF Chain
<1>1. Init => Inv
  BY <1>0, Story!BankInit, Purse!BankInit, TaleBegins DEF Init
<1>2. Inv /\ [Next]_vars => Inv'
  BY <1>0, StorySteps, PurseSteps, TaleSteps, SettingStays, Story!BankStep, Purse!BankStep,
     TaleGoesOn
<1>3. Inv => StoryInOrder
  <2>a. Inv => Told(Story!StoryInOrder, Purse!StoryInOrder)
    BY Story!BankedInOrder, Purse!BankedInOrder DEF Told
  <2> QED
    BY <2>a, TalesAreKept DEF StoryInOrder
<1> QED
  BY <1>1, <1>2, <1>3, PTL DEF Spec

-----------------------------------------------------------------------------
(* What kind of thing everything is.                                        *)

(* The opponent decides for a whole number of ticks.                        *)
LEMMA AiTyped ==
  /\ Ai!Init => Ai!TypeOK
  /\ Ai!TypeOK /\ [Ai!Next]_(Ai!vars) => Ai!TypeOK'
<1>1. Ai!Init => Ai!TypeOK
  BY ValidReach DEF Ai!Init, Ai!TypeOK, Ai!States
<1>2. ASSUME NEW a, NEW d PROVE Ai!Choices(a, d) \subseteq Ai!States
  <2>a. CASE a = "brawler"
    BY <2>a DEF Ai!Choices, Ai!States
  <2>b. CASE a = "turtle"
    BY <2>b DEF Ai!Choices, Ai!States
  <2>c. CASE a \notin {"brawler", "turtle"}
    BY <2>c DEF Ai!Choices, Ai!States
  <2> QED
    BY <2>a, <2>b, <2>c
<1>3. ASSUME Ai!TypeOK, Ai!AiInput PROVE Ai!TypeOK'
  <2>a. fsm' \in Ai!States
    BY <1>2, <1>3 DEF Ai!AiInput, Ai!TypeOK
  <2>b. wait' \in 0..2 * Reaction
    BY <1>3, ValidReach DEF Ai!AiInput, Ai!TypeOK
  <2> QED
    BY <1>3, <2>a, <2>b DEF Ai!AiInput, Ai!TypeOK
<1>4. ASSUME Ai!TypeOK, Ai!Stance \/ UNCHANGED Ai!vars PROVE Ai!TypeOK'
  BY <1>4 DEF Ai!Stance, Ai!vars, Ai!TypeOK
<1> QED
  BY <1>1, <1>3, <1>4 DEF Ai!Next

(* No move of a weapon is longer, and none stuns for longer, than the bounds *)
(* of the type.                                                             *)
FrameFits(mv) ==
  /\ mv.startup \in Nat /\ mv.active \in Nat /\ Combos!Total(mv) \in 1..41
  /\ mv.damage \in Nat /\ mv.stun \in 0..28 /\ mv.cancelInto \subseteq Combos!MoveIds

LEMMA TablesFit ==
  \A w \in Combos!WeaponIds, m \in Combos!MoveIds : FrameFits(Combos!MovesForWeapon(w)[m])
<1> DEFINE Whole(table) == \A m \in Combos!MoveIds : FrameFits(table[m])
<1>1. Whole(Combos!Fists)
  BY DEF Combos!Fists, Combos!Frames, Combos!MoveIds, FrameFits, Combos!Total
<1>2. Whole(Combos!Sword)
  BY DEF Combos!Sword, Combos!Frames, Combos!MoveIds, FrameFits, Combos!Total
<1>3. Whole(Combos!Nunchaku)
  BY DEF Combos!Nunchaku, Combos!Frames, Combos!MoveIds, FrameFits, Combos!Total
<1>4. Whole(Combos!Spear)
  BY DEF Combos!Spear, Combos!Frames, Combos!MoveIds, FrameFits, Combos!Total
<1>5. Whole(Combos!Staff)
  BY DEF Combos!Staff, Combos!Frames, Combos!MoveIds, FrameFits, Combos!Total
<1>6. Whole(Combos!Daggers)
  BY DEF Combos!Daggers, Combos!Frames, Combos!MoveIds, FrameFits, Combos!Total
<1>7. ASSUME NEW w
      PROVE  Combos!MovesForWeapon(w) \in {Combos!Fists, Combos!Sword, Combos!Nunchaku,
                                           Combos!Spear, Combos!Staff, Combos!Daggers}
  BY DEF Combos!MovesForWeapon
<1> HIDE DEF Whole
<1>8. \A w : Whole(Combos!MovesForWeapon(w))
  BY <1>1, <1>2, <1>3, <1>4, <1>5, <1>6, <1>7
<1> QED
  BY <1>8 DEF Whole

(* A blow leaves a stun within the bound, and a counter and a hurt that are *)
(* capped.                                                                  *)
LEMMA ChainTyped ==
  /\ Combos!Init => Combos!TypeOK
  /\ Combos!TypeOK /\ [Combos!Next]_(Combos!vars) => Combos!TypeOK'
<1> DEFINE Conditions == {"idle", "hit", "stun", "down"}
           Sore(b) == b.state \in Conditions /\ b.stun \in 0..28
<1>1. Combos!Init => Combos!TypeOK
  <2> SUFFICES ASSUME Combos!Init PROVE Combos!TypeOK
    OBVIOUS
  <2>a. struck \in BOOLEAN
    BY Zenon DEF Combos!Init
  <2> QED
    BY <2>a DEF Combos!Init, Combos!TypeOK, Combos!Counted
<1> SUFFICES ASSUME Combos!TypeOK, [Combos!Next]_(Combos!vars) PROVE Combos!TypeOK'
  BY <1>1
<1>2. Sore(Combos!Recovered(condition, daze))
  BY DEF Combos!Recovered, Combos!TypeOK
<1>3. ASSUME Combos!Unstruck
      PROVE  condition' \in Conditions /\ daze' \in 0..28 /\ hurt' \in 0..90 /\ combo' = combo
  BY <1>2, <1>3 DEF Combos!Unstruck, Combos!TypeOK
<1>4. ASSUME NEW m \in Combos!MoveIds, Combos!Strike(m) \/ Combos!Cancel(m)
      PROVE  Combos!TypeOK'
  <2>a. Combos!Start(m) /\ Combos!Unstruck /\ weapon' = weapon
    BY <1>4 DEF Combos!Strike, Combos!Cancel
  <2>b. move' = m /\ swing' = 0 /\ struck' \in BOOLEAN
    BY <2>a, Zenon DEF Combos!Start
  <2> QED
    BY <1>3, <2>a, <2>b DEF Combos!TypeOK
<1>5. CASE Combos!Rest
  BY <1>3, <1>5 DEF Combos!Rest, Combos!TypeOK
<1>6. ASSUME NEW mv, FrameFits(mv), NEW roll \in {1}, Combos!ResolveHit(mv, roll)
      PROVE  condition' \in Conditions /\ daze' \in 0..28 /\ hurt' \in 0..90 /\ combo' \in 0..7
  <2>a. Sore(Combos!Blow(mv))
    BY <1>6 DEF Combos!Blow, FrameFits
  <2>b. ASSUME NEW live, NEW copy, NEW before, Sore(live), Sore(copy)
        PROVE  Sore(Combos!MergeDefender(live, copy, before))
    BY <2>b DEF Combos!MergeDefender
  <2>c. condition' \in Conditions /\ daze' \in 0..28
    <3> DEFINE after == Combos!MergeDefender(Combos!Recovered(condition, daze), Combos!Blow(mv),
                                             condition)
    <3>1. Sore(after)
      BY <1>2, <2>a, <2>b
    <3>2. condition' = after.state /\ daze' = after.stun
      BY <1>6 DEF Combos!ResolveHit
    <3> HIDE DEF after
    <3> QED
      BY <3>1, <3>2
  <2>d. combo' \in 0..7
    BY <1>6 DEF Combos!ResolveHit, Combos!AdvanceCombo, Combos!Counted, Combos!TypeOK
  <2>e. Combos!Damage(mv, combo', roll) \in Nat
    <3> DEFINE dmg == ((mv.damage * Combos!ComboScale(combo') * 132 + 5000) \div 10000) + roll
    <3>1. \A h \in 0..7 : Combos!ComboScale(h) \in Int
      BY DEF Combos!ComboScale
    <3>2. mv.damage * Combos!ComboScale(combo') * 132 + 5000 \in Int
      BY <1>6, <2>d, <3>1 DEF FrameFits
    <3>3. dmg \in Int
      BY <3>2
    <3>4. Combos!Damage(mv, combo', roll) = IF dmg < 1 THEN 1 ELSE dmg
      BY DEF Combos!Damage
    <3> HIDE DEF dmg
    <3> QED
      BY <3>3, <3>4
  <2>f. hurt' \in 0..90
    <3> DEFINE sore == IF condition = "idle" THEN 0 ELSE hurt
    <3>1. sore \in Nat
      BY DEF Combos!TypeOK
    <3>2. hurt' = Combos!Least(sore + Combos!Damage(mv, combo', roll))
      BY <1>6 DEF Combos!ResolveHit
    <3> HIDE DEF sore
    <3> QED
      BY <2>e, <3>1, <3>2 DEF Combos!Least
  <2> QED
    BY <2>c, <2>d, <2>f
<1>7. ASSUME NEW roll \in {1}, Combos!Swing(roll) PROVE Combos!TypeOK'
  <2>a. PICK mv : mv = Combos!MovesForWeapon(weapon)[move]
    OBVIOUS
  <2>b. FrameFits(mv)
    BY <1>7, <2>a, TablesFit DEF Combos!Swing, Combos!TypeOK
  <2>c. /\ IF Combos!Lands(mv) THEN Combos!ResolveHit(mv, roll) ELSE Combos!Unstruck
        /\ struck' \in BOOLEAN /\ weapon' = weapon
        /\ \/ move' = Combos!None /\ swing' = 0
           \/ move' = move /\ swing' = swing + 1 /\ ~(swing + 1 >= Combos!Total(mv))
    BY <1>7, <2>a DEF Combos!Swing
  <2>d. condition' \in Conditions /\ daze' \in 0..28 /\ hurt' \in 0..90 /\ combo' \in 0..7
    BY <1>3, <1>6, <2>b, <2>c DEF Combos!TypeOK, Combos!Counted
  <2>e. swing' \in 0..40
    BY <2>b, <2>c DEF FrameFits, Combos!TypeOK
  <2> QED
    BY <2>c, <2>d, <2>e DEF Combos!TypeOK, Combos!Counted
<1>8. CASE UNCHANGED Combos!vars
  BY <1>8 DEF Combos!vars, Combos!TypeOK
<1> QED
  BY <1>4, <1>5, <1>7, <1>8 DEF Combos!Next


(* The log grows by an event at a time, up to its bound.                    *)
DrillTyped ==
  /\ Len(log) <= MaxLog[mode] /\ claimed \subseteq DOMAIN Drill!Trials
  /\ seen \subseteq Drill!Range(Drill!Steps)

LEMMA DrillTypedBegins == Drill!Init => DrillTyped
<1> SUFFICES ASSUME Drill!Init PROVE DrillTyped
  OBVIOUS
<1>1. mode \in {"tutorial", "dojo"} /\ log = <<>> /\ claimed = {} /\ seen = {}
  BY DEF Drill!Init
<1>2. Len(log) = 0 /\ MaxLog[mode] \in Nat
  BY <1>1, LogsEnd
<1> QED
  BY <1>1, <1>2 DEF DrillTyped

LEMMA DrillTypedOn == DrillInv /\ DrillTyped /\ [Drill!Next]_(Drill!vars) => DrillTyped'
<1> SUFFICES ASSUME DrillInv, DrillTyped, [Drill!Next]_(Drill!vars) PROVE DrillTyped'
  OBVIOUS
<1>1. log \in Seq(Drill!Events) /\ MaxLog[mode] \in Nat /\ Len(log) \in Nat
  BY LogsEnd DEF DrillInv
<1>2. CASE Drill!Over \/ UNCHANGED Drill!vars
  BY <1>2 DEF Drill!Over, Drill!vars, DrillTyped
<1>3. ASSUME NEW evs, NEW x, NEW dash, NEW who, NEW spot,
             evs \in {log} \cup (IF Len(log) < MaxLog[mode]
                                 THEN {Append(log, e) : e \in Drill!Events} ELSE {}),
             Drill!Tick(evs, x, dash, who, spot)
      PROVE  DrillTyped'
  <2>a. Len(evs) <= MaxLog[mode]
    <3>1. CASE evs = log
      BY <3>1 DEF DrillTyped
    <3>2. ASSUME Len(log) < MaxLog[mode], NEW e \in Drill!Events, evs = Append(log, e)
          PROVE  Len(evs) <= MaxLog[mode]
      <4>1. Len(evs) = Len(log) + 1
        BY <1>1, <3>2
      <4> QED
        BY <1>1, <3>2, <4>1
    <3> QED
      BY <1>3, <3>1, <3>2
  <2>b. log' = evs /\ mode' = mode
    BY <1>3 DEF Drill!Tick
  <2>c. claimed' \subseteq DOMAIN Drill!Trials
    BY <1>3 DEF Drill!Tick, Drill!ClaimTrials, DrillTyped
  <2>d. seen' \subseteq Drill!Range(Drill!Steps)
    BY <1>3 DEF Drill!Tick, DrillTyped
  <2> QED
    BY <2>a, <2>b, <2>c, <2>d DEF DrillTyped
<1> QED
  BY <1>2, <1>3 DEF Drill!Next

LEMMA DrillHasType == DrillInv /\ DrillTyped => Drill!TypeOK
<1>1. Drill!Lessons = 6
  BY DEF Drill!Lessons, Drill!Steps
<1> QED
  BY <1>1 DEF DrillInv, DrillTyped, Drill!TypeOK

(* Who is picked in the tale is somebody, and the grounds are grounds.      *)
TaleTyped ==
  /\ screen \in {"title", "select", "story", "versus", "shop", "fight"}
  /\ storyP0 \in DOMAIN Tale!Playables /\ versusP0 \in DOMAIN Tale!Playables
  /\ versusFoe \in DOMAIN Tale!Enemies /\ versusArena \in Tale!Arenas
  /\ imports \in 0..Imports

LEMMA TaleTypedBegins == Tale!Init => TaleTyped
BY TalesEnd DEF Tale!Init, TaleTyped, Tale!Playables, Tale!Enemies, Tale!Arenas

LEMMA TaleTypedOn == TaleTyped /\ [Tale!Next]_(Tale!vars) => TaleTyped'
<1> SUFFICES ASSUME TaleTyped, [Tale!Next]_(Tale!vars) PROVE TaleTyped'
  OBVIOUS
<1>1. ASSUME UNCHANGED <<storyP0, versusP0, versusFoe, versusArena, imports>>,
             screen' \in {screen, "title", "select", "story", "shop", "fight"}
      PROVE  TaleTyped'
  BY <1>1 DEF TaleTyped
<1>2. ASSUME NEW e \in DOMAIN Tale!Enemies, NEW a \in Tale!Arenas, Tale!RenderVersus(e, a)
      PROVE  versusFoe' \in DOMAIN Tale!Enemies /\ versusArena' \in Tale!Arenas
  BY <1>2 DEF Tale!RenderVersus, Tale!Enemies, Tale!Arenas
<1>3. ASSUME NEW f \in DOMAIN Tale!Playables, Tale!Choose(f) PROVE TaleTyped'
  BY <1>2, <1>3 DEF Tale!Choose, Tale!ShowMenu, Tale!arrivals, TaleTyped
<1>4. ASSUME NEW e \in Foes, Tale!PickFoe(e) PROVE TaleTyped'
  <2>a. e \in DOMAIN Tale!Enemies
    BY TalesEnd DEF Enemies, Tale!Enemies
  <2> QED
    BY <1>2, <1>4, <2>a DEF Tale!PickFoe, Tale!arrivals, TaleTyped
<1>5. ASSUME NEW a \in Tale!Arenas, Tale!PickArena(a) PROVE TaleTyped'
  BY <1>2, <1>5 DEF Tale!PickArena, Tale!arrivals, TaleTyped
<1>6. ASSUME NEW n \in Chapters, Tale!Import(n) PROVE TaleTyped'
  BY <1>6, TalesEnd DEF Tale!Import, Tale!picks, TaleTyped
<1>7. CASE \/ Tale!TellOn \/ Tale!ToldOut
           \/ \E mode_1 \in {"story", "versus"} : Tale!OpenSelect(mode_1)
           \/ Tale!Back \/ Tale!Shop \/ UNCHANGED Tale!vars
  BY <1>1, <1>7 DEF Tale!TellOn, Tale!ToldOut, Tale!OpenSelect, Tale!Back, Tale!Shop,
     Tale!ShowMenu, Tale!vars, Tale!picks, Tale!arrivals
<1>8. CASE \/ Tale!VersusFight \/ Tale!Rematch \/ (\E res \in {"win", "loss"} : Tale!BoutEnds(res))
           \/ Tale!PlayScene \/ Tale!TickDialogue
  BY <1>1, <1>8 DEF Tale!VersusFight, Tale!Rematch, Tale!BoutEnds, Tale!PlayScene,
     Tale!TickDialogue, Tale!StartStoryFight, Tale!StartFight, Tale!picks, Tale!arrivals
<1>9. CASE Tale!StepDialogue \/ Tale!ContinueStory
  BY <1>1, <1>9 DEF Tale!StepDialogue, Tale!ContinueStory, Tale!Follow, Tale!StartStoryFight,
     Tale!StartFight, Tale!picks, Tale!arrivals
<1> QED
  <2>a. Tale!Arenas = Arenas /\ DOMAIN Tale!Playables = DOMAIN Playables
    BY DEF Tale!Arenas, Arenas, Tale!Playables, Playables
  <2> QED
    BY <1>3, <1>4, <1>5, <1>6, <1>7, <1>8, <1>9, <2>a DEF Tale!Next

LEMMA TaleHasType == TaleTold /\ TalePlace /\ TaleTyped => Tale!TypeOK
<1> SUFFICES ASSUME TaleTold, TalePlace, TaleTyped PROVE Tale!TypeOK
  OBVIOUS
<1>1. told \subseteq Tale!Ids
  <2>a. PICK w : w = Tale!Way
    OBVIOUS
  <2>b. w \in Seq(Tale!Ids) /\ Len(w) \in Nat
    BY <2>a, WayIsWhole DEF IsTrail
  <2>c. \E m \in 0..Len(w) : told = {w[i] : i \in 1..m}
    BY <2>a DEF TaleTold, ToldUpto
  <2> QED
    BY <2>b, <2>c
<1>2. ASSUME NEW id \in Tale!Ids
      PROVE  /\ Tale!NodeById[id].unlocks.arenas \subseteq Tale!Arenas
             /\ Tale!NodeById[id].unlocks.fighters \subseteq DOMAIN Tale!Playables
  <2>a. PICK i \in Turns : id = Order[i] /\ Tale!NodeById[id] = Tale!StoryNodes[i]
    BY IdsInOrder
  <2>b. Tale!StoryNodes[i].unlocks.arenas \subseteq Tale!Arenas
    BY UnlocksHold DEF GroundAt, Tale!Arenas, Turns, Final
  <2>c. Tale!StoryNodes[i].unlocks.fighters \subseteq DOMAIN Tale!Playables
    BY UnlocksHold DEF Tale!Playables
  <2> QED
    BY <2>a, <2>b, <2>c
<1>3. open.arenas \subseteq Tale!Arenas /\ open.fighters \subseteq DOMAIN Tale!Playables
  <2>a. 0 \in Tale!Arenas /\ "kaito" \in DOMAIN Tale!Playables
    BY DEF Tale!Arenas, Tale!Playables
  <2>b. /\ open.arenas = {0} \cup UNION {Tale!NodeById[id].unlocks.arenas : id \in told}
        /\ open.fighters = {"kaito"} \cup UNION {Tale!NodeById[id].unlocks.fighters : id \in told}
    BY DEF TaleTold, Tale!OpenedBy
  <2> QED
    BY <1>1, <1>2, <2>a, <2>b
<1>4. talk.node \in Tale!Ids \cup {"none"} /\ match.node \in Tale!Ids \cup {"none"}
  BY BlankRecords DEF TalePlace
<1> QED
  BY <1>1, <1>3, <1>4 DEF TaleTyped, Tale!TypeOK, Tale!None

(* The instances' tables, keys, settings and prices are what the parts ask  *)
(* for.                                                                     *)
LEMMA KeysAreWired == Input!Defaults
<1> DEFINE C == {"j", "l", "m"}
<1>1. /\ DOMAIN Keys = {"punch", "block"}
      /\ Keys["punch"] = <<"j">> /\ Keys["block"] = <<"l", "m">>
  BY DEF Keys
<1>2. <<"j">> \in Seq(C) /\ <<"l", "m">> \in Seq(C)
  OBVIOUS
<1>3. Keys \in [DOMAIN Keys -> Seq(C)]
  <2>a. Keys = [a \in DOMAIN Keys |-> Keys[a]]
    BY Zenon DEF Keys
  <2>b. \A a \in DOMAIN Keys : Keys[a] \in Seq(C)
    BY <1>1, <1>2
  <2> HIDE DEF C
  <2> QED
    BY <2>a, <2>b
<1>4. /\ Input!Range(<<"j">>) = {"j"} /\ Input!Range(<<"l", "m">>) = {"l", "m"}
      /\ Input!IsInjective(<<"j">>) /\ Input!IsInjective(<<"l", "m">>)
      /\ <<"j">> # <<>> /\ <<"l", "m">> # <<>>
  BY DEF Input!Range, Input!IsInjective
<1>5. /\ \A a \in DOMAIN Keys : Keys[a] # <<>> /\ Input!Range(Keys[a]) \subseteq C
                                /\ Input!IsInjective(Keys[a])
      /\ Input!Range(Keys["punch"]) \cap Input!Range(Keys["block"]) = {}
  BY <1>1, <1>4
<1>6. Input!Valid(Keys)
  BY <1>1, <1>5 DEF Input!Valid
<1> QED
  BY <1>1, <1>3, <1>6 DEF Input!Defaults

LEMMA StageIsSet ==
  /\ 0 \notin 1..2 /\ 1 \in Nat
  /\ {[tier |-> 3, muted |-> FALSE, battery |-> FALSE]} \subseteq Stage!Configs
BY DEF Stage!Configs, Stage!Tiers, Stage!AutoTier

LEMMA BoutsAreArmed == Round!Armed /\ Punches!Armed /\ Match!Armed
BY DEF Round!Armed, Punches!Armed, Match!Armed, Buttons

(* The one trial of the instance is worth what it says (claimTrials).       *)
LEMMA JabIsWorthOne == Purse!RewardOf({"jab"}) = 1
<1> DEFINE P == {"jab"}
           F(f) == [s \in SUBSET P |-> IF s = {} THEN 0
                     ELSE LET x == CHOOSE x \in s : TRUE IN [jab |-> 1][x] + f[s \ {x}]]
           it == CHOOSE f : f = F(f)
           g == [s \in SUBSET P |-> IF s = {} THEN 0 ELSE 1]
<1>1. SUBSET P = {{}, P}
  OBVIOUS
<1>2. (CHOOSE x \in P : TRUE) = "jab" /\ P \ {"jab"} = {} /\ P # {}
  OBVIOUS
<1>3. g = F(g)
  <2>a. g[{}] = 0 /\ g[P] = 1 /\ g = [s \in SUBSET P |-> g[s]]
    OBVIOUS
  <2> HIDE DEF g
  <2>b. F(g)[{}] = 0
    OBVIOUS
  <2>c. F(g)[P] = 1
    <3>1. PICK c : c = (CHOOSE x \in P : TRUE)
      OBVIOUS
    <3>2. P \in SUBSET P /\ P # {}
      OBVIOUS
    <3>3. F(g)[P] = [jab |-> 1][c] + g[P \ {c}]
      BY Zenon, <3>1, <3>2
    <3>4. c = "jab" /\ P \ {c} = {}
      BY <1>2, <3>1
    <3>5. [jab |-> 1][c] = 1 /\ g[P \ {c}] = 0
      BY <2>a, <3>4
    <3> HIDE DEF F, P
    <3> QED
      BY <3>3, <3>5
  <2>d. F(g) = [s \in SUBSET P |-> F(g)[s]]
    OBVIOUS
  <2> HIDE DEF F
  <2>e. \A s \in SUBSET P : g[s] = F(g)[s]
    BY <1>1, <2>a, <2>b, <2>c
  <2> QED
    BY <2>a, <2>d, <2>e
<1>4. it = F(it)
  BY <1>3
<1>5. it[P] = 1
  <2> HIDE DEF it
  <2> QED
    BY <1>1, <1>2, <1>4
<1>6. Purse!RewardOf({"jab"}) = it[P]
  BY Zenon DEF Purse!RewardOf, Purse!MapThenSumSet, Purse!MapThenFoldSet
<1> QED
  BY <1>5, <1>6

LEMMA PricesAreSet == Story!Tariff /\ Purse!Tariff
<1>1. Story!Tariff
  <2>a. DOMAIN <<>> = {}
    OBVIOUS
  <2>b. Story!RewardOf({}) = 0
    BY DEF Story!RewardOf, Story!MapThenSumSet, Story!MapThenFoldSet
  <2> QED
    BY <2>a, <2>b DEF Story!Tariff
<1>2. Purse!Tariff
  <2>a. DOMAIN [jab |-> 1] = {"jab"} /\ DOMAIN [blade |-> 2] = {"blade"} /\ [blade |-> 2]["blade"] = 2
    OBVIOUS
  <2>b. Purse!RewardOf({}) = 0
    BY DEF Purse!RewardOf, Purse!MapThenSumSet, Purse!MapThenFoldSet
  <2>c. \A new \in SUBSET DOMAIN [jab |-> 1] : new = {} \/ new = {"jab"}
    BY <2>a
  <2> QED
    BY <2>a, <2>b, <2>c, JabIsWorthOne DEF Purse!Tariff
<1> QED
  BY <1>1, <1>2

(* What the parts keep, each in its setting, that makes their types.        *)
KeptInv ==
  /\ setting \in Settings
  /\ setting = "story" => /\ Story!BankInv /\ Story!PayInv
                          /\ Story!CountInv /\ Story!PlaceInv
  /\ setting = "purse" => /\ Purse!BankInv /\ Purse!PayInv
                          /\ Purse!CountInv /\ Purse!PlaceInv
  /\ setting = "input" => Input!Wired
  /\ setting = "shell" => Stage!StageInv /\ Stage!RestInv
  /\ setting = "offline" => Offline!ShellInv /\ Offline!IsInjective(caches)
  /\ setting = "ai" => Ai!TypeOK
  /\ setting = "combos" => Combos!TypeOK
  /\ setting = "drill" => DrillInv /\ DrillTyped
  /\ setting = "tale" => TaleTold /\ TalePlace /\ TaleTyped
RoundKept == Round!ScoreInv /\ Round!ClockInv /\ Round!KoInv /\ Round!RestInv
PunchKept == Punches!ScoreInv /\ Punches!ClockInv /\ Punches!KoInv /\ Punches!RestInv
MatchKept == Match!ScoreInv /\ Match!ClockInv /\ Match!KoInv /\ Match!RestInv
FoughtInv == Fought(RoundKept, PunchKept, MatchKept)

LEMMA SizesAreNatural ==
  /\ Len(Chain) \in Nat /\ Len(<<>>) \in Nat /\ {0, 1, 2, 3} \subseteq Nat /\ 3 \in Nat \ {0}
  /\ "stipend" \notin DOMAIN <<>> /\ "stipend" \notin DOMAIN [jab |-> 1]
BY DEF Chain

LEMMA KeptInit == Init => KeptInv
<1> SUFFICES ASSUME Init PROVE KeptInv
  OBVIOUS
<1>1. setting = "story" => Story!Init
  BY Zenon DEF Init
<1>2. setting = "purse" => Purse!Init
  BY Zenon DEF Init
<1>3. /\ setting \in Settings
      /\ (setting = "input" => Input!Init) /\ (setting = "shell" => Stage!Init)
      /\ (setting = "offline" => Offline!Init) /\ (setting = "ai" => Ai!Init)
      /\ (setting = "combos" => Combos!Init) /\ (setting = "drill" => Drill!Init)
      /\ (setting = "tale" => Tale!Init)
  BY Zenon DEF Init
<1>4. setting = "story" => /\ Story!BankInv /\ Story!PayInv
                           /\ Story!CountInv /\ Story!PlaceInv
  BY <1>1, SizesAreNatural, PricesAreSet, Story!BankInit, Story!CountInit, Story!PlaceInit
<1>5. setting = "purse" => /\ Purse!BankInv /\ Purse!PayInv
                           /\ Purse!CountInv /\ Purse!PlaceInv
  BY <1>2, SizesAreNatural, PricesAreSet, Purse!BankInit, Purse!CountInit, Purse!PlaceInit
<1>6. setting = "input" => Input!Wired
  BY <1>3, KeysAreWired, Input!WiredInit
<1>7. setting = "shell" => Stage!StageInv /\ Stage!RestInv
  BY <1>3, StageIsSet, Stage!StageInit, Stage!RestInit DEF Stage!Configs
<1>8. setting = "offline" => Offline!ShellInv /\ Offline!IsInjective(caches)
  BY <1>3, SizesAreNatural, Offline!ShellInit DEF Offline!Init, Offline!IsInjective
<1>9. /\ (setting = "ai" => Ai!TypeOK) /\ (setting = "combos" => Combos!TypeOK)
      /\ (setting = "drill" => DrillInv /\ DrillTyped)
      /\ (setting = "tale" => TaleTold /\ TalePlace /\ TaleTyped)
  BY <1>3, AiTyped, ChainTyped, DrillBegins, DrillTypedBegins, TaleBegins, TaleTypedBegins
<1> QED
  BY <1>3, <1>4, <1>5, <1>6, <1>7, <1>8, <1>9 DEF KeptInv

LEMMA AiChainSteps ==
  ASSUME [Next]_vars
  PROVE  /\ setting = "combos" => [Combos!Next]_(Combos!vars)
         /\ setting = "drill" => [Drill!Next]_(Drill!vars)
BY DrillSteps DEF Next, InBout, vars, chain, Combos!vars

LEMMA KeptStep == KeptInv /\ [Next]_vars => KeptInv'
<1> SUFFICES ASSUME KeptInv, [Next]_vars PROVE KeptInv'
  OBVIOUS
<1>1. setting' = setting
  BY SettingStays
<1>2. setting = "story" => /\ Story!BankInv' /\ Story!PayInv'
                           /\ Story!CountInv' /\ Story!PlaceInv'
  BY StorySteps, SizesAreNatural, PricesAreSet, Story!BankStep, Story!CountStep,
     Story!PlaceStep DEF KeptInv
<1>3. setting = "purse" => /\ Purse!BankInv' /\ Purse!PayInv'
                           /\ Purse!CountInv' /\ Purse!PlaceInv'
  BY PurseSteps, SizesAreNatural, PricesAreSet, Purse!BankStep, Purse!CountStep,
     Purse!PlaceStep DEF KeptInv
<1>4. setting = "input" => Input!Wired'
  BY InputSteps, KeysAreWired, Input!WiredStep DEF KeptInv
<1>5. setting = "shell" => Stage!StageInv' /\ Stage!RestInv'
  BY StageSteps, StageIsSet, Stage!StageStep, Stage!RestStep DEF KeptInv
<1>6. setting = "offline" => Offline!ShellInv' /\ Offline!IsInjective(caches)'
  BY OfflineSteps, SizesAreNatural, Offline!ShellStep, Offline!NamesStayApart DEF KeptInv
<1>7. setting = "ai" => Ai!TypeOK'
  BY AiSteps, AiTyped DEF KeptInv
<1>8. setting = "combos" => Combos!TypeOK'
  BY AiChainSteps, ChainTyped DEF KeptInv
<1>9. setting = "drill" => DrillInv' /\ DrillTyped'
  BY AiChainSteps, DrillSteppedOn, DrillTypedOn DEF KeptInv
<1>10. setting = "tale" => TaleTold' /\ TalePlace' /\ TaleTyped'
  BY TaleSteps, TaleGoesOn, TaleTypedOn DEF KeptInv
<1> QED
  BY <1>1, <1>2, <1>3, <1>4, <1>5, <1>6, <1>7, <1>8, <1>9, <1>10 DEF KeptInv

LEMMA FoughtInit == Init => FoughtInv
<1> SUFFICES ASSUME Init PROVE FoughtInv
  OBVIOUS
<1>1. setting = "round" => RoundKept
  BY BoutsBegin, BoutsAreMade, BoutsAreArmed, Round!ScoreInit, Round!ClockInit, Round!KoInit,
     Round!RestInit DEF RoundKept
<1>2. setting = "punches" => PunchKept
  BY BoutsBegin, BoutsAreMade, BoutsAreArmed, Punches!ScoreInit, Punches!ClockInit,
     Punches!KoInit, Punches!RestInit DEF PunchKept
<1>3. setting = "match" => MatchKept
  BY BoutsBegin, BoutsAreMade, BoutsAreArmed, Match!ScoreInit, Match!ClockInit, Match!KoInit,
     Match!RestInit DEF MatchKept
<1> QED
  BY <1>1, <1>2, <1>3 DEF FoughtInv, Fought

LEMMA FoughtStep == FoughtInv /\ [Next]_vars => FoughtInv'
<1> SUFFICES ASSUME FoughtInv, [Next]_vars PROVE FoughtInv'
  OBVIOUS
<1>0. /\ Round!ScoreInv => round \in 1..1
      /\ Punches!ScoreInv => round \in 1..1
      /\ Match!ScoreInv => round \in 1..3
  BY DEF Round!ScoreInv, Punches!ScoreInv, Match!ScoreInv
<1>1. ASSUME setting = "round" PROVE RoundKept'
  BY <1>0, <1>1, RoundSteps, BoutsAreMade, BoutsAreArmed, Round!ScoreStep, Round!ClockStep,
     Round!KoStep, Round!RestStep DEF FoughtInv, Fought, RoundKept
<1>2. ASSUME setting = "punches" PROVE PunchKept'
  BY <1>0, <1>2, PunchSteps, BoutsAreMade, BoutsAreArmed, Punches!ScoreStep,
     Punches!ClockStep, Punches!KoStep, Punches!RestStep DEF FoughtInv, Fought, PunchKept
<1>3. ASSUME setting = "match" PROVE MatchKept'
  BY <1>0, <1>3, MatchSteps, BoutsAreMade, BoutsAreArmed, Match!ScoreStep, Match!ClockStep,
     Match!KoStep, Match!RestStep DEF FoughtInv, Fought, MatchKept
<1> QED
  BY <1>1, <1>2, <1>3, SettingStays DEF FoughtInv, Fought

LEMMA PartsHaveType ==
  ASSUME KeptInv, FoughtInv
  PROVE  TypeOK
<1>1. setting = "story" => Story!TypeOK
  BY SizesAreNatural, Story!ProgressTyped DEF KeptInv
<1>2. setting = "purse" => Purse!TypeOK
  BY SizesAreNatural, Purse!ProgressTyped DEF KeptInv
<1>3. setting = "input" => Input!TypeOK
  BY DEF KeptInv, Input!Wired
<1>4. setting = "shell" => Stage!TypeOK
  BY Stage!StageTyped DEF KeptInv
<1>5. setting = "offline" => Offline!TypeOK
  BY SizesAreNatural, Offline!ShellTyped DEF KeptInv
<1>6. (setting = "ai" => Ai!TypeOK) /\ (setting = "combos" => Combos!TypeOK)
  BY DEF KeptInv
<1>7. (setting = "drill" => Drill!TypeOK) /\ (setting = "tale" => Tale!TypeOK)
  BY DrillHasType, TaleHasType DEF KeptInv
<1>8. setting = "round" => Round!TypeOK
  BY BoutsAreMade, Round!BoutTyped DEF FoughtInv, Fought, RoundKept
<1>9. setting = "punches" => Punches!TypeOK
  BY BoutsAreMade, Punches!BoutTyped DEF FoughtInv, Fought, PunchKept
<1>10. setting = "match" => Match!TypeOK
  BY BoutsAreMade, Match!BoutTyped DEF FoughtInv, Fought, MatchKept
<1> QED
  BY Zenon, <1>1, <1>2, <1>3, <1>4, <1>5, <1>6, <1>7, <1>8, <1>9, <1>10 DEF TypeOK

(* Everything is of its kind in every setting: purses, levels, queues and   *)
(* tables, the bound on the ring's counters, whoever is picked.             *)
THEOREM KindsAreKept == Spec => []TypeOK
BY KeptInit, KeptStep, FoughtInit, FoughtStep, PartsHaveType, PTL DEF Spec
====
