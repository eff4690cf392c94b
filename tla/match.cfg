SPECIFICATION Spec
CONSTANTS
  a = a
  b = b
  c = c
  Players <- MCPlayers
  MinPlayers = 2
  StartingChips = 1
  Workers = 2
  None = None
  MaxHands = 2
  Fickle = {b}
  Gainers = {a}
  MaxSaves = 2
  MaxStarters = 2
  MaxLoads = 1
  MaxMishaps = 1
INVARIANT TypeOK
INVARIANT DrainSavesLastHand
PROPERTY CheckpointIsAResult
PROPERTY CheckpointGoesForward
PROPERTY BrokeIsNotDealt
PROPERTY MatchGoesOn
PROPERTY DrainEnds
PROPERTY EndedIsRemoved
CHECK_DEADLOCK FALSE
