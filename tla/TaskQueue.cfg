SPECIFICATION FairSpec
CONSTANTS
  w1 = w1
  w2 = w2
  Workers <- MCWorkers
  MaxTasks = 3
  Jobs <- TaskIds
  NoJob = 0
  Slots = 2
  Texts <- MCTexts
INVARIANTS
  SlotAccounting
  WorkConserving
  ExecutedOnce
  PoolKeepsJobs
  SavedComesBack
PROPERTIES
  ImplementsLifecycle
  CallsReturn
