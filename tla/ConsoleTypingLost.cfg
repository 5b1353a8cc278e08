\* What is typed while a save is under way.
SPECIFICATION ConsoleSpec
CONSTANTS
  Works <- MCWorks
  MaxTyped = 2
  MaxRevision = 3
  MaxFailures = 1
  MaxReads = 1
PROPERTY
  UnsavedWorkWins
CHECK_DEADLOCK FALSE
