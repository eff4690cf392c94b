SPECIFICATION Spec
CONSTANTS
  Last = 2
  MaxNow = 5
  None = None
  Looking = Looking
INVARIANT TypeOK
INVARIANT NeverAhead
PROPERTY IncreaseIsAnnounced
PROPERTY DueIsApplied
PROPERTY DealIsAnswered
