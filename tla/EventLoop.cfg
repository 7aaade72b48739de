SPECIFICATION Spec
CONSTANT MaxConnections = 4
INVARIANTS
  TypeOK
  NobodyForgotten
  ReadyCountsAhead
  NeverBlocked
  MonitorStaysUp
PROPERTY EverybodyServed
CHECK_DEADLOCK FALSE
