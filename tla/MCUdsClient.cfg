CONSTANTS
  Word = 16
  Byte = 4
  FileSize = 0
  service_size = 2
  Sids <- MCSids
  Items <- MCItems
  Responses <- MCResponses
  NoItem = NoItem
  MaxStarts = 2
  MaxMessages = 2
  MaxKeys = 0
  Orderly = FALSE

SPECIFICATION FairSpec

INVARIANTS
  TypeOK
  RequestTimerActive
  RunHasTimer
  ReportedIsQuiet
  OneReportPerStart
  RetryBound

PROPERTIES
  NormalCoversList
  AbortEndsRun
  PassedIsNotResent
  EndIsReported
  RunEnds
  ImplementsRun

