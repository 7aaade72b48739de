SPECIFICATION FairSpec
CONSTANTS
  NBLOCKS = 1
  Clients = {c1, c2}
  MaxTransactions = 2
  MaxCrashes = 1
  MaxEpochs = 1
  SerialCommits = TRUE
  OperatorWaits = TRUE
PROPERTY EveryInterruptedFlushed
CHECK_DEADLOCK FALSE
