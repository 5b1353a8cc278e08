\* Two processes with one worker id, two jobs, every kind of session state.
SPECIFICATION Spec
CONSTANTS
  p1 = p1
  p2 = p2
  w1 = w1
  Process = {p1, p2}
  WorkerId = {w1}
  IdOf <- MCIdOf
  Job = {j1, j2}
  Token = {t1, t2, t3, t4}
  NoWorker = NoWorker
  NoToken = NoToken
  NoJob = NoJob
  Nobody = Nobody
  OtherStates <- EveryKindOfState
  MaxRetries = 1
  MaxFaults = 2
SYMMETRY Symmetry
INVARIANTS
  ExclusiveLease
  CleanupAfterCommit
  RetryBudget
  CancelledSessionIsQuiet
PROPERTIES
  ExclusiveSpec
CHECK_DEADLOCK FALSE
