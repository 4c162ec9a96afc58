SPECIFICATION Spec
CONSTANTS
  Value <- MCValue
  Xfer <- MCXfer
  Leaf = {"l2"}
  Owned = {"l2"}
  Sender = {"s1"}
  Sweeper = {}
  Optimizer = {}
  Syncer = {}
  Refresher = {}
  Claimer = {}
  Depositor = {}
  Executor <- Transfers
  Targets <- JustOne
  Incoming = {}
  Deposits = {}
  InLeaves <- NoLeaves
  ClaimOf <- NoClaims
  DepositOf <- NoDeposits
  External = {}
  StartsSynced = TRUE
  MaxCalls = 1
  MaxBatches = 1
  Env = {"renewThrows"}
  AtomicFetch = TRUE
INVARIANTS
  NoOrphanLock
CHECK_DEADLOCK FALSE
