SPECIFICATION FairSpec
CONSTANTS
  Procs = {p1, p2}
  Backends = {"nft", "iptables"}
  EmptyDumps = {"nft"}
  Env = {"torcrash"}
  MaxTor = 3
  MaxFaults = 0
  NoProc = NoProc
  NoRec = NoRec
  Corrupt = Corrupt
INVARIANT NoTraceWithoutRecord
PROPERTY CommandsFinish
PROPERTY RefusalIsTidy
PROPERTY DisconnectIsClean
