SPECIFICATION Spec
CONSTANTS
  Clients = {"page", "command"}
  Trees <- MCTrees
  Calls <- MCCalls
  Oddities <- MCOddities
  Written <- MCWritten
INVARIANTS
  TypeOK
  SavesOnlyBelow
  DownloadIsComplete
PROPERTIES
  RemovesOnlyBelow
  RemovedMeansGone
CHECK_DEADLOCK FALSE
