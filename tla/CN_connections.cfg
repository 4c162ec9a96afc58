SPECIFICATION Spec
CONSTANTS
  Inst = {"i1", "i2"}
  Caller = {"c1", "c2", "c3"}
  InstOf <- MCInstOf
  TypeOf <- MCTypeOf
  MaxAttempts = 2
  MaxChannels = 3
  MaxTokens = 2
INVARIANTS
  TypeOK
  ChannelInUseIsOpen
  NoChannelOutlivesItsUsers
  WaitersHaveACreator
CHECK_DEADLOCK FALSE
