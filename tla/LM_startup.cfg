SPECIFICATION Spec
CONSTANTS
  Value <- MCValue
  Xfer <- MCXfer
  Leaf = {"l2", "i1", "d1"}
  Owned = {"l2"}
  Sender = {"s1"}
  Sweeper = {}
  Optimizer = {}
  Syncer = {"y1"}
  Refresher = {}
  Claimer = {"k1"}
  Depositor = {"d1"}
  Executor <- Selves
  Targets <- JustOne
  Incoming <- OneIncoming
  Deposits <- OneDeposit
  InLeaves <- InBoth
  ClaimOf <- ClaimsIncoming
  DepositOf <- HandlesDeposit
  External = {}
  StartsSynced = FALSE
  MaxCalls = 1
  MaxBatches = 1
  Env = {"return", "syncFails", "partial", "renewThrows"}
  AtomicFetch = FALSE
PROPERTIES
  StillLeavesAreSynced
  SyncRepairs
  LifecycleSpec
CHECK_DEADLOCK FALSE
