SPECIFICATION SysSpec
CONSTANTS
  Clients = {c1, c2}
  Blocks = {1, 2}
  MaxTid = 3
  NBLOCKS = 2
  Procs = {p1, p2}
  Values = {zeros, v1}
  Zeros = zeros
  MAXTIMEOUT = 1
  MaxTransactions = 1
  MaxOps = 2
  Allocated = {1}
SYMMETRY Symmetry
INVARIANTS
  InProtocol
  EntriesLocked
PROPERTIES
  AtomicUnlessBlemished
CHECK_DEADLOCK FALSE
