CONSTANTS
  Ids = {m1, m2}
  NoId = NoId
  RetryAttempts = 1
  MaxFaults = 1
SPECIFICATION FairSpec
INVARIANT IInv
PROPERTIES
  EveryMailSettles
