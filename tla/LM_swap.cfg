SPECIFICATION Spec
CONSTANTS
  Value <- MCValue
  Xfer <- MCXfer
  Leaf = {"l1", "c1", "c2"}
  Owned = {"l1"}
  Sender = {"s1"}
  Sweeper = {}
  Optimizer = {}
  Syncer = {}
  Refresher = {"r1"}
  Claimer = {}
  Depositor = {}
  Executor <- Invoices
  Targets <- OneOneBatch
  Incoming = {}
  Deposits = {}
  InLeaves <- NoLeaves
  ClaimOf <- NoClaims
  DepositOf <- NoDeposits
  External <- OneExternal
  StartsSynced = TRUE
  MaxCalls = 3
  MaxBatches = 1
  Env = {"loseReply", "loseEvent", "lateThrow", "sspFails", "renewThrows"}
  AtomicFetch = TRUE
INVARIANTS
  InFlightWasAccepted
CHECK_DEADLOCK FALSE
