SPECIFICATION Spec
CONSTANTS
  Value <- MCValue
  Xfer <- MCXfer
  Leaf = {"l2"}
  Owned = {"l2"}
  Sender = {"s1", "s2"}
  Sweeper = {}
  Optimizer = {}
  Syncer = {"y1"}
  Refresher = {}
  Claimer = {}
  Depositor = {}
  Executor <- Transfers
  Targets <- JustOne
  Incoming = {}
  Deposits = {}
  InLeaves <- NoLeaves
  ClaimOf <- NoClaims
  DepositOf <- NoDeposits
  External = {}
  StartsSynced = TRUE
  MaxCalls = 1
  MaxBatches = 1
  Env = {}
  AtomicFetch = TRUE
INVARIANTS
  NoDoubleSelection
CHECK_DEADLOCK FALSE
