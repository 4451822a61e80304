SPECIFICATION EngineFairSpec
CONSTANTS
  j1 = j1
  j2 = j2
  Jobs <- MCJobs
  LaneCount = 2
  Codes <- MCCodes
INVARIANTS
  EngineTypeOK
  NoJobStranded
PROPERTIES
  ImplementsService
  NothingWaits
CHECK_DEADLOCK FALSE
