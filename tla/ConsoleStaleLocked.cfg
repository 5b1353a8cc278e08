\* A poll brings what another operator saved.
SPECIFICATION ConsoleSpec
CONSTANTS
  Works <- MCWorks
  MaxTyped = 2
  MaxRevision = 3
  MaxFailures = 1
  MaxReads = 1
INVARIANT
  StaleWorkCanBeConfirmed
CHECK_DEADLOCK FALSE
