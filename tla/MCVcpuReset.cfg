CONSTANT Worlds <- ResetWorlds
SPECIFICATION Spec
INVARIANT ResetNotUndone
CHECK_DEADLOCK FALSE
