SPECIFICATION Spec
CONSTANTS
  p1 = p1
  p2 = p2
  Players = {p1, p2}
  Escrows = {1, 2, 3}
  Owner <- MCOwner
  MaxPlayers = 2
  None = None
  Seating <- MCSeating
  Handlers = {h1, h2, h3}
  MaxJoins = 1
  MaxStreams = 3
  MaxStarts = 1
  MayOverlap = {}
INVARIANT TypeOK
INVARIANT StartedMatchCanSettle
INVARIANT SettlementPaysWinner
INVARIANT ReadyMatchIsStarting
PROPERTY OnlyTheNodeRefuses
SYMMETRY MCSymmetry
CHECK_DEADLOCK FALSE
