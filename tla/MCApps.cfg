CONSTANT Null = Null
CONSTANT Bad = Bad
CONSTANT Settings = {"sheet", "saves", "vm", "syntax", "imports", "search", "text", "page", "maze", "netpulse", "folio", "shell", "slots", "play", "film", "duel", "stems", "rush"}
SPECIFICATION Spec
INVARIANTS TypeOK MeaningKept DerivedIsFresh SavedIsCurrent OneAtATime
PROPERTIES EditsMoveValues WorkEnds
CHECK_DEADLOCK FALSE
