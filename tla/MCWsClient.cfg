SPECIFICATION Spec
CONSTANTS
  MaxPending <- MCMaxPending
  MaxControl <- MCMaxControl
  MaxBytes <- MCMaxBytes
  MaxChunk <- MCMaxChunk
  MaxEnd <- MCMaxEnd
  MaxFrame <- MCMaxFrame
  MaxSnapshot <- MCMaxSnapshot
  MaxRepairs <- MCMaxRepairs
  MaxNotices <- MCMaxNotices
INVARIANTS
  BacklogBounded
  BytesConserved
  OneReportPerBurst
PROPERTIES
  ArrivalOrderKept
  CloseEndsWriter
CHECK_DEADLOCK FALSE
