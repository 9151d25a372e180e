CONSTANTS
  Word = 32
  Byte = 4
  FileSize = 5
  service_size = 3
  Sids <- DownloadSids
  Items <- Download
  Responses <- DownloadResponses
  NoItem = NoItem
  MaxStarts = 1
  MaxMessages = 6
  MaxKeys = 1
  Orderly = TRUE

SPECIFICATION Spec

INVARIANTS
  NoFileLeft

PROPERTIES
  WholeFileTaken
  LostBlockEndsRun
