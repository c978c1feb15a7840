\* Records of the drive loop on their way to QuestDB, which comes and goes.
SPECIFICATION Spec
CONSTANTS
  FlushLimit = 2
  MaxRecords = 5
  MaxFailures = 3
INVARIANTS
  RowsAreComplete
PROPERTIES
  RowsAreStored
