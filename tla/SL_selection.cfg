SPECIFICATION MCSpec
CONSTANTS
  Leaf = {"a", "b", "c", "d", "e"}
  Value <- MCValue
  MaxAmount = 4
  MaxTargets = 3
  Few = {1, 2, 4, 5, 7, 9}
  MaxFew = 4
  Many = {1, 2, 5}
  MaxMany = 6
  Limits = {1, 2, 3, 12}
  INITIAL_TIMELOCK = 2000
  MaxRenewals = 22
  Kinds = {"transfer", "htlc"}
INVARIANTS
  LoopsAgree
  ExactAndDisjoint
  NoNeedlessSwap
  PlansAreSound
  SplitsAreValid
  SelectionsSuffice
  NewestComesFirst
  SignedOverPresent
CHECK_DEADLOCK FALSE
