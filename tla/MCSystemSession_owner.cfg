SPECIFICATION Spec
CONSTANTS
  Procs = {p1, p2}
  Backends = {"nft"}
  EmptyDumps = {}
  Env = {}
  MaxTor = 1
  MaxFaults = 0
  NoProc = NoProc
  NoRec = NoRec
  Corrupt = Corrupt
SYMMETRY Symmetry
INVARIANT ConnectedRoutes
