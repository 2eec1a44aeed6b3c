SPECIFICATION Spec
CONSTANTS
  Procs = {p1, p2}
  Backends = {"nft", "iptables"}
  EmptyDumps = {"iptables"}
  Env = {"crash", "torcrash", "flush", "reboot"}
  MaxTor = 2
  MaxFaults = 0
  NoProc = NoProc
  NoRec = NoRec
  Corrupt = Corrupt
SYMMETRY Symmetry
INVARIANT TypeOK
INVARIANT PresentHasRecord
INVARIANT SnapshotPredatesRules
PROPERTY RulesOutliveTor
PROPERTY RecordIsJournal
