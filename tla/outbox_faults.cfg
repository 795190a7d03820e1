SPECIFICATION FairSpec
CONSTANTS
  MaxMsgs = 2
  Limit = 1
  MaxAttempts = 2
  k1 = k1
  k2 = k2
  a1 = a1
  AckSlots <- TwoSlots
  Admins <- OneAdmin
  MaxRetries = 1
  MaxFaults = 1
INVARIANTS
  SentWasDelivered
  GivenUpAfterAttempts
  DuplicatesExplained
PROPERTIES
  ImplementsDelivery
  SentIsFinalForBot
  EveryMessageSettles
CHECK_DEADLOCK FALSE
