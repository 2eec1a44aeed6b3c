CONSTANT Null = Null
CONSTANT Bad = Bad
CONSTANT Settings = {"vm"}
SPECIFICATION Spec
INVARIANT FoldsKeepMeaning
CHECK_DEADLOCK FALSE
