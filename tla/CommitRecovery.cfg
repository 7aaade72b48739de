SPECIFICATION Spec
CONSTANTS
  NBLOCKS = 2
  Clients = {c1, c2}
  MaxTransactions = 3
  MaxCrashes = 2
  MaxEpochs = 1
  SerialCommits = TRUE
  OperatorWaits = TRUE
SYMMETRY Symmetry
INVARIANTS
  TypeOK
  Recoverable
  ReadersSeeCommitted
  RecoveryComplete
PROPERTY RollbackStaysInLocks
CHECK_DEADLOCK FALSE
