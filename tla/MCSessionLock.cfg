SPECIFICATION FairSpec
CONSTANTS
  Procs = {p1, p2}
  MaxRuns = 2
  Clocks = {"deadline", "stale"}
  NoFile = NoFile
INVARIANT TypeOK
INVARIANT OneUnrobbedHolder
PROPERTY JudgedReapIsSound
PROPERTY AcquireReturns
CHECK_DEADLOCK FALSE
