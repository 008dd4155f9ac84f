SPECIFICATION FairSpec
CONSTANTS
  t1 = t1
  t2 = t2
  Tasks <- TwoTasks
  Requests <- Lists
  Direct <- DirectLists
  MayNack = TRUE
  MaxCalls = 3
  DirectOverlap = FALSE
CHECK_DEADLOCK FALSE
INVARIANTS PerformedAsAsked FailedCleanly InterruptsExpected OnOwnChannel
PROPERTIES OperationsEnd
