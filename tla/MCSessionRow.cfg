SPECIFICATION Spec
CONSTANTS
  i1 = i1
  i2 = i2
  i3 = i3
  NoOne = NoOne
  Incarnations <- MCIncarnations
  ScanEvery <- MCScanAlways
SYMMETRY Alike
INVARIANTS
  TypeOK
  OnlyTheDeadAreReplaced
  LocalSessionNotFiledEnded
PROPERTIES
  OnlyTheHolderFiles
CHECK_DEADLOCK FALSE
