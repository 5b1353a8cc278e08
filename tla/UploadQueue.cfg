\* Three files, two PUTs at a time, three runs, two retries, late registrations.
SPECIFICATION LiveQueueSpec
CONSTANTS
  File = {f1, f2, f3}
  Concurrency = 2
  MaxRuns = 3
  MaxRetries = 2
  LateDrop = FALSE
  LateRegistration = TRUE
  LateAbort = FALSE
INVARIANTS
  UploadsAreBounded
  CompleteIsSettled
PROPERTIES
  CancelledLaunchesNothing
  RunSettles
CHECK_DEADLOCK FALSE
