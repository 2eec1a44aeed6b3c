SPECIFICATION Spec
CONSTANTS
  Procs = {p1, p2}
  MaxRuns = 1
  Clocks = {}
  NoFile = NoFile
INVARIANT MutualExclusion
CHECK_DEADLOCK FALSE
