SPECIFICATION Spec
CONSTANTS
  c1 = c1
  c2 = c2
  Clients <- MCOneClient
  Stoppers <- MCOneStopper
  MailboxSize <- MCFull
  MaxClients = 1
  Backend = "tmux"
  MaxChunks <- MCMaxChunks
INVARIANT
  NobodyStranded
PROPERTIES
  EveryCallAnswered
  EveryStopReturns
CHECK_DEADLOCK FALSE
