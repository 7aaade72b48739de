SPECIFICATION Spec
CONSTANT MaxConnections = 3
INVARIANT ClosingIsHarmless
CHECK_DEADLOCK FALSE
