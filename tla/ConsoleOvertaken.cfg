\* A session served before another operator's save arrives while a group mutation is under way.
SPECIFICATION ConsoleSpec
CONSTANTS
  Works <- EditAndUpload
  MaxTyped = 1
  MaxRevision = 4
  MaxFailures = 0
  MaxReads = 1
PROPERTY
  ProductSavesCoverSeenWork
CHECK_DEADLOCK FALSE
