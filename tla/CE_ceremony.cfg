SPECIFICATION Spec
CONSTANTS
  P = 11
  Proposer = {"p1", "p2"}
  Signer = {"s1", "s2", "s3", "s4"}
  Executor = {"e1", "e2"}
  IndexOf <- MCIndexOf
  Nonce <- MCNonce
  Threshold = 2
  Key <- MCKey
  Challenge <- MCChallenge
  Option <- MCOption
  MaxRunning = 2
INVARIANTS
  AggregateIsValid
  PaymentIsAuthorized
  PaidAgainOnlyUnrecorded
  NonceSignsOnce
  LeafShareIsOfTheWhole
CHECK_DEADLOCK FALSE
