CONSTANTS
  MaxConnects = 2
  MaxFrames = 2
  MaxTransfers = 2
  Commands = {1, 2}
  MaxListed = 1
  MaxIncidents = 2
SPECIFICATION PaneSpec
INVARIANTS OneSocket NotPaintedTwice
PROPERTIES InputReturns FramesPainted
CHECK_DEADLOCK FALSE
