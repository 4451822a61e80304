SPECIFICATION FairSpec
CONSTANTS
  ThreadNum = 2
  ChunkLen = 2
  Jobs <- MCJobs
  LaneCount = 1
  Codes <- MCCodes
INVARIANTS
  ReturnsAlone
  SuccessIsFull
PROPERTIES
  ImplementsDownload
  TaskReturns
CHECK_DEADLOCK FALSE
