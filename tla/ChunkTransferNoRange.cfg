SPECIFICATION Spec
CONSTANTS
  ThreadNum = 2
  ChunkLen = 1
  Jobs <- MCJobs
  LaneCount = 1
  Codes <- MCCodes
INVARIANT CompleteIsRight
CHECK_DEADLOCK FALSE
