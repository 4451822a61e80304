SPECIFICATION Spec
CONSTANTS
  None = None
  Versions <- MCVersions
  FileLen <- MCFileLen
  ETag <- MCETag
  LastModified <- MCLastModified
  StableHeaders = TRUE
  MinPart = 1
  MaxThreads = 2
  ForeignSizes <- MCForeignSizes
  MaxSessions = 3
INVARIANTS
  MetaTrue
  CompleteButLastByte
PROPERTIES
  ResumesWhereStopped
CHECK_DEADLOCK FALSE
