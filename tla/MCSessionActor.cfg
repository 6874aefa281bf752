SPECIFICATION Spec
CONSTANTS
  c1 = c1
  c2 = c2
  Clients <- MCClients
  Stoppers <- MCStoppers
  MailboxSize <- MCRoomy
  MaxClients = 0
  Backend = "local"
  MaxChunks <- MCMaxChunks
SYMMETRY Alike
INVARIANTS
  TypeOK
  StreamContiguous
  SnapshotIsCutPoint
  ExitReachesEveryViewer
  StopMeansFinalized
CHECK_DEADLOCK FALSE
