SPECIFICATION Spec
CONSTANTS
  o1 = o1
  o2 = o2
  None = None
  Outputs = {o1, o2}
  Value <- MCValue
  BuyIn = 2
  Csv = 2
  ChanCap = 1
  MaxTasks = 2
  MaxSubs = 2
  MaxMishaps = 1
INVARIANT TypeOK
INVARIANT UsableIsBacked
INVARIANT SettledStaysSpent
PROPERTY ReadySeatPaidBuyIn
PROPERTY SpentIsNoticed
PROPERTY DepositIsNoticed
CHECK_DEADLOCK FALSE
