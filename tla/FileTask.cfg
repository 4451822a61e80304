SPECIFICATION FairSpec
CONSTANTS
  Body = 3
  HeadLens <- MCHeadLens
  ThreadNum = 2
  MinPart = 1
  MaxRetry = 3
INVARIANTS
  CompleteIsBody
  ThreadsJoined
  KeptForResume
PROPERTIES
  ImplementsDownload
  TaskReturns
