SPECIFICATION Spec
CONSTANTS
  Bases <- MCBases
  Content = {0, 1}
  Batches <- MCBatches
  Star = 50
  MaxRecords = 6
  tmp = 101
  Numbered <- MCNumbered
  Files <- MCFiles
  Careful = FALSE
VIEW MCView
CHECK_DEADLOCK FALSE
PROPERTIES RangeRemovalEmpties
