SPECIFICATION CapturedSpec
CONSTANTS
  Ring <- MCRing
  MaxRetries <- MCMaxRetries
  MaxEnd <- MCMaxEnd
  MaxGen <- MCMaxGen
  MaxEvents <- MCMaxEvents
INVARIANT
  CursorContiguous
CHECK_DEADLOCK FALSE
