SPECIFICATION FairSpec
CONSTANTS
  i1 = i1
  i2 = i2
  i3 = i3
  NoOne = NoOne
  Incarnations <- MCTwo
  ScanEvery <- MCScanEvery
PROPERTIES
  EndedSessionsAreFiled
  NoShellForgotten
CHECK_DEADLOCK FALSE
