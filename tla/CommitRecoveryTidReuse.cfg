SPECIFICATION Spec
CONSTANTS
  NBLOCKS = 1
  Clients = {c1, c2}
  MaxTransactions = 2
  MaxCrashes = 2
  MaxEpochs = 2
  SerialCommits = TRUE
  OperatorWaits = TRUE
INVARIANT Recoverable
CHECK_DEADLOCK FALSE
