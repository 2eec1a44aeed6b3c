CONSTANT Null = Null
CONSTANT Bad = Bad
CONSTANT Settings = {"sheet"}
SPECIFICATION Spec
INVARIANT SaveLoadPreserves
CHECK_DEADLOCK FALSE
