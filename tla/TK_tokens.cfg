SPECIFICATION Spec
CONSTANTS
  Output = {"a1", "a2", "b1"}
  Token = {"A", "B"}
  TokenOf <- MCTokenOf
  Spender = {"s2"}
  Consolidator = {"k1"}
  Flusher = {"f1"}
  Syncer = {"y1"}
  Wants <- MCWants
  FullSync = {}
  Incoming = {"b1"}
  Expiry = 2
  Patience = 1
  Threshold = 1
  MaxOutputs = 2
  Env = {"return", "syncFails", "sendFails"}
INVARIANTS
  OneTransactionPerOutput
  AnnouncedIsKnown
  NewsIsKept
CHECK_DEADLOCK FALSE
