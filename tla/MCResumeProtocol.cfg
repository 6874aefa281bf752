SPECIFICATION CapturedSpec
CONSTANTS
  Ring <- MCRing
  MaxRetries <- MCMaxRetries
  MaxEnd <- MCMaxEnd
  MaxGen <- MCMaxGen
  MaxEvents <- MCMaxEvents
INVARIANTS
  TypeOK
  CursorIsPainted
  CacheIsPainted
PROPERTY
  PaneSettles
CHECK_DEADLOCK FALSE
