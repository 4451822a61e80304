SPECIFICATION Spec
CONSTANTS
  None = None
  Versions <- MCVersions
  FileLen <- MCFileLen
  ETag <- MCETag
  LastModified <- MCLastModified
  StableHeaders = TRUE
  MinPart = 1
  MaxThreads = 3
  ForeignSizes <- MCForeignSizes
  MaxSessions = 3
INVARIANT CompleteIsExact
CHECK_DEADLOCK FALSE
