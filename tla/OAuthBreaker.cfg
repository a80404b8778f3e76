SPECIFICATION FairSpec
CONSTANTS
  Callers = {c1, c2, c3}
  FailureThreshold = 2
  SuccessThreshold = 2
  Timeout = 1
  MaxHalfOpenRequests = 1
INVARIANT TypeOK
INVARIANT SlotsNeverLeak
INVARIANT SlotDriftBounded
INVARIANT ClosedHasFailureBudget
INVARIANT ExcessTrialsOnlyByDrift
PROPERTY Recovery
