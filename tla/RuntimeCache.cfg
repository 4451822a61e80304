CONSTANTS
  p1 = p1
  p2 = p2
  Procs <- MCTwo
  Tries = 2
  MaxCrashes = 1
  Environment = FALSE
SPECIFICATION FairSpec
INVARIANTS LockWillGo PartialOnlyByRemoval CalmHomes
PROPERTIES EveryoneAnswers
CHECK_DEADLOCK FALSE
