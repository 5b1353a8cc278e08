\* The code as it is: registerManifest overlaps other writers.
SPECIFICATION ImportSpec
CONSTANTS
  p1 = p1
  p2 = p2
  w1 = w1
  f1 = f1
  f2 = f2
  m1 = m1
  m2 = m2
  Process = {p1}
  WorkerId = {w1}
  IdOf <- MCIdOf
  Job = {a1, g1}
  GroupJob = {g1}
  Token = {t1, t2, t3}
  File = {f1, f2}
  Manifest = {m1, m2}
  FilesOf <- TwoManifests
  Content = {c1}
  NoWorker = NoWorker
  NoToken = NoToken
  NoJob = NoJob
  NoFile = NoFile
  NoContent = NoContent
  Nobody = Nobody
  OtherStates <- SessionStates
  MaxRetries = 0
  MaxFaults = 1
  ManifestsOverlap = TRUE
  RepliesArrive = TRUE
  BackendCrashes = FALSE
PROPERTIES
  SessionMovesAreLegal
CHECK_DEADLOCK FALSE
