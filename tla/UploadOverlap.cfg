\* A registration that fails late lets a third run start over the PUTs of the second.
SPECIFICATION QueueSpec
CONSTANTS
  File = {f1, f2}
  Concurrency = 1
  MaxRuns = 3
  MaxRetries = 0
  LateDrop = FALSE
  LateRegistration = TRUE
  LateAbort = FALSE
INVARIANTS
  NeverMoreAtOnce
CHECK_DEADLOCK FALSE
