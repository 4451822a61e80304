SPECIFICATION ModelSpec
CONSTANTS
  Tasks <- MCTasks
  Rows <- MCRows
  Urls <- MCUrls
  Videos <- MCVideos
  Renames = 3
  Slots = 1
INVARIANTS
  EngineOutlivesTasks
  ActiveTaskHasRow
PROPERTIES
  OnlyDeleteDeletes
  MarkedRowGoes
CHECK_DEADLOCK FALSE
