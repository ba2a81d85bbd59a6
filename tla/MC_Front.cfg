SPECIFICATION FairSpec
CONSTANTS
  Request = {r1}
  Source = source
  Party = party
  Most = 2
  Window = 2
  MaxRetries = 1
  MaxLosses = 1
INVARIANTS
  TypeOK
  SlidingLimit
  AttemptsAreRecorded
PROPERTIES
  NobodyIsLockedOut
  EveryRequestIsAnswered
