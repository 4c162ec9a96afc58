SPECIFICATION FairSpec
CONSTANTS
  Value <- MCValue
  Xfer <- MCXfer
  Leaf = {"l1", "c1", "c2"}
  Owned = {"l1"}
  Sender = {"s1"}
  Sweeper = {"w1"}
  Optimizer = {"o1"}
  Syncer = {}
  Refresher = {}
  Claimer = {}
  Depositor = {}
  Executor <- Quotes
  Targets <- JustOne
  Incoming = {}
  Deposits = {}
  InLeaves <- NoLeaves
  ClaimOf <- NoClaims
  DepositOf <- NoDeposits
  External = {}
  StartsSynced = TRUE
  MaxCalls = 4
  MaxBatches = 1
  Env = {"partial", "sspFails", "loseReply", "lateThrow"}
  AtomicFetch = TRUE
INVARIANTS
  NoOrphanLock
PROPERTIES
  OperationsEnd
CHECK_DEADLOCK FALSE
