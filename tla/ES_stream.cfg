SPECIFICATION FairSpec
CONSTANTS
  Transfer = {"x1", "x3"}
  Kind <- MCKind
  MaxAttempts = 3
  PageSize = 1
  MaxBatches = 2
  Mode = {"stream", "periodic"}
  Env = {"claimFails", "loseAnswer", "renewThrows", "lookupFails", "fetchFails", "unsynced", "others"}
INVARIANTS
  TypeOK
  NothingSlipsThrough
  ClaimsAreKept
PROPERTIES
  EverythingIsClaimed
  LoopGoesOn
  SilentStreamIsLeft
CHECK_DEADLOCK FALSE
