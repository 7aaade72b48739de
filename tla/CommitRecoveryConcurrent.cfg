SPECIFICATION Spec
CONSTANTS
  NBLOCKS = 2
  Clients = {c1, c2}
  MaxTransactions = 3
  MaxCrashes = 1
  MaxEpochs = 1
  SerialCommits = FALSE
  OperatorWaits = TRUE
INVARIANT Recoverable
CHECK_DEADLOCK FALSE
