SPECIFICATION Spec
CONSTANTS
  Clients = {c1, c2}
  Blocks = {b1}
  MaxTid = 2
PROPERTY InterruptedCommitsRolledBack
