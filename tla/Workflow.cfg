SPECIFICATION Spec
CONSTANTS
  MaxNameLen = 4
  Marks <- MCMarks
  Urls <- MCUrls
  OddUrls <- MCOddUrls
  OutNames <- MCOutNames
  Numbers <- MCNumbers
  DefaultThreads = 2
  MaxThreads = 4
  Stamps <- MCStamps
  Earlier <- MCEarlier
  MaxArgs = 4
INVARIANTS
  DefaultNamesSafe
  ExitTells
  OwnFile
PROPERTIES
  GivenFileKept
