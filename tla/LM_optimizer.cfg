SPECIFICATION Spec
CONSTANTS
  Value <- MCValue
  Xfer <- MCXfer
  Leaf = {"l1", "l2", "c1", "c2"}
  Owned = {"l1", "l2"}
  Sender = {"s1", "s2"}
  Sweeper = {}
  Optimizer = {"o1", "o2"}
  Syncer = {}
  Refresher = {}
  Claimer = {}
  Depositor = {}
  Executor <- Transfers
  Targets <- OneAndBatch
  Incoming = {}
  Deposits = {}
  InLeaves <- NoLeaves
  ClaimOf <- NoClaims
  DepositOf <- NoDeposits
  External = {}
  StartsSynced = TRUE
  MaxCalls = 2
  MaxBatches = 2
  Env = {"sspFails", "timeout", "lateThrow"}
  AtomicFetch = TRUE
INVARIANTS
  TypeOK
  NoOrphanLock
  NoDoubleSelection
  InFlightWasAccepted
  OneOptimization
  NobodyWaitsForNothing
CHECK_DEADLOCK FALSE
