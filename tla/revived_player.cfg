SPECIFICATION Spec
CONSTANTS
  a = a
  b = b
  c = c
  Players <- MCPlayers
  MinPlayers = 2
  StartingChips = 1
  Workers = 2
  None = None
  MaxHands = 3
  Fickle = {b}
  Gainers = {a}
  MaxSaves = 2
  MaxStarters = 2
  MaxLoads = 1
  MaxMishaps = 0
INVARIANT EliminatedStayOut
CHECK_DEADLOCK FALSE
