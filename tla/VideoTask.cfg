CONSTANTS
  t1 = t1
  t2 = t2
  Callers <- MCCallers
  Cancelable <- MCFirst
  Modes <- MCModes
SPECIFICATION FairSpec
INVARIANTS JobsAccounted ParserOrBackup OutputIsWhole
PROPERTIES TracksKept ProcessExits
CHECK_DEADLOCK FALSE
