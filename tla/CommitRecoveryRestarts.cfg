SPECIFICATION FairSpec
CONSTANTS
  NBLOCKS = 2
  Clients = {c1, c2}
  MaxTransactions = 2
  MaxCrashes = 2
  MaxEpochs = 3
  SerialCommits = TRUE
  OperatorWaits = TRUE
INVARIANT RecoveryMarksAll
PROPERTY InterruptedFlushed
CHECK_DEADLOCK FALSE
