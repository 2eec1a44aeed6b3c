SPECIFICATION Spec
CONSTANTS
  Settings = {"round", "punches", "match", "story", "purse", "input", "shell", "offline", "ai", "combos", "drill", "tale"}
  Reach <- LongJab
  FistReach <- BareFists
  Distances = {14, 25, 30, 35, 46}
  Reaction = 2
  MaxLog <- ShortLogs
  Imports = 1
  Chapters = {0, 17}
  Foes = {"ash", "dusk"}
  LineTicks = 1
INVARIANTS TypeOK KoEndsRound SidesAreEqual ScoreSettled StoryInOrder EarnedIsStored RewardsEarned HeldIsReal PressIsFresh DrawsOnLive OfflineIsWhole PlansInReach EscapeBeforeKo
PROPERTIES EveryHitCounts BoutShortens OnlyVictoryCounts
