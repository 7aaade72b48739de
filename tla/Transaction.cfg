SPECIFICATION FairSpec
CONSTANTS
  NBLOCKS = 2
  Procs = {p1}
  Values = {zeros}
  Zeros = zeros
  MAXTIMEOUT = 2
  MaxTransactions = 2
  MaxOps = 3
INVARIANTS
  TypeOK
  ThrownDoesNotCommit
  BuffersLive
  AllocateFresh
PROPERTIES
  EveryProcessEnds
CHECK_DEADLOCK FALSE
