SPECIFICATION Spec
CONSTANTS
  Value <- MCValue
  Xfer <- MCXfer
  Leaf = {"l2", "l3"}
  Owned = {"l2", "l3"}
  Sender = {"s1", "s2"}
  Sweeper = {}
  Optimizer = {}
  Syncer = {}
  Refresher = {}
  Claimer = {}
  Depositor = {}
  Executor <- InvoiceAndTransfer
  Targets <- OneAndBatch
  Incoming = {}
  Deposits = {}
  InLeaves <- NoLeaves
  ClaimOf <- NoClaims
  DepositOf <- NoDeposits
  External = {}
  StartsSynced = TRUE
  MaxCalls = 2
  MaxBatches = 1
  Env = {"loseReply"}
  AtomicFetch = TRUE
INVARIANTS
  InFlightWasAccepted
CHECK_DEADLOCK FALSE
