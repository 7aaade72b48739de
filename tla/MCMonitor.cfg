SPECIFICATION Spec
CONSTANTS
  Clients = {c1, c2, c3}
  Blocks = {b1, b2}
  MaxTid = 3
SYMMETRY Symmetry
INVARIANTS
  TypeOK
  TablesAgree
  LocksExclude
  GrantStands
  NoPhantomLock
  ProtocolState
  Isolated
PROPERTIES
  PreemptionIsFinal
  CommittingWriterKeepsBlock
  RefusedForAnElder
  RollbackOnlyInterrupted
  LockServiceSpec
