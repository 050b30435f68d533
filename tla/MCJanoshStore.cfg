SPECIFICATION Spec
CONSTANTS
  Bases <- MCBases
  Content = {0, 1}
  Batches <- MCBatches
  Star = 50
  MaxRecords = 6
  tmp = 101
  Numbered <- MCNumbered
  Files <- MCFiles
  Careful = TRUE
VIEW MCView
INVARIANTS TypeOK SizesExact ArraysDense OneRecordPerName GetPrintsDocument
PROPERTIES ImplementsDocument ContractKept
CHECK_DEADLOCK FALSE
