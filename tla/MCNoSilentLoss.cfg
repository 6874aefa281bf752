SPECIFICATION Spec
CONSTANTS
  MaxPending <- MCMaxPending
  MaxControl <- MCMaxControl
  MaxBytes <- MCMaxBytes
  MaxChunk <- MCMaxChunk
  MaxEnd <- MCMaxEnd
  MaxFrame <- MCMaxFrame
  MaxSnapshot <- MCMaxSnapshot
  MaxRepairs <- MCMaxRepairs
  MaxNotices <- MCMaxNotices
INVARIANT NoSilentLoss
CHECK_DEADLOCK FALSE
