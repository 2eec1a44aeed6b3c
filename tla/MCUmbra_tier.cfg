SPECIFICATION Spec
CONSTANTS
  Settings = {"shell"}
  Reach <- LongJab
  FistReach <- BareFists
  Distances = {14, 25, 30, 35, 46}
  Reaction = 2
  MaxLog <- ShortLogs
  Imports = 1
  Chapters = {0, 17}
  Foes = {"ash", "dusk"}
  LineTicks = 1
INVARIANT ChainEndsDrawing
