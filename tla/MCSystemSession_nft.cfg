SPECIFICATION Spec
CONSTANTS
  Procs = {p1, p2, p3}
  Backends = {"nft"}
  EmptyDumps = {}
  Env = {"crash", "torcrash", "flush", "reboot"}
  MaxTor = 3
  MaxFaults = 1
  NoProc = NoProc
  NoRec = NoRec
  Corrupt = Corrupt
SYMMETRY Symmetry
PROPERTY RepairIsClean
PROPERTY CaptureReachesOwnTor
