\* A new edit while the answer to one of before the reload is on its way.
SPECIFICATION FairStudioSpec
CONSTANTS
  MaxEdits = 2
  MaxRevision = 3
  MaxSends = 3
PROPERTIES
  WaitingEditsSettle
CHECK_DEADLOCK FALSE
