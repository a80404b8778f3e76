SPECIFICATION FairSpec
CONSTANTS
  Senders = {w1, w2}
  MaxRetries = 1
  RateBurst = 1
  MaxFailures = 2
  CircuitTimeout = 1
  MaxRequests = 2
INVARIANT TypeOK
INVARIANT HalfOpenStillAdmits
INVARIANT ClosedHasFailureBudget
PROPERTY ShutdownDrains
PROPERTY Recovery
