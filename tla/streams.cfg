SPECIFICATION FairSpec
CONSTANTS
  p1 = p1
  w1 = w1
  Seated = {p1}
  Spectators = {w1}
  MaxStreams = 2
  MaxVersion = 1
CONSTRAINT Calm
INVARIANT TypeOK
INVARIANT NobodyForgotten
INVARIANT ShownConnected
PROPERTY UpdatesArrive
CHECK_DEADLOCK FALSE
