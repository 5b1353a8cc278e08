\* One upload, one worker with one retry and one fault, lost replies, a backend that may die.
SPECIFICATION LiveImportSpec
CONSTANTS
  p1 = p1
  p2 = p2
  w1 = w1
  f1 = f1
  f2 = f2
  m1 = m1
  m2 = m2
  Process = {p1}
  WorkerId = {w1}
  IdOf <- MCIdOf
  Job = {a1, g1}
  GroupJob = {g1}
  Token = {t1, t2, t3}
  File = {f1}
  Manifest = {m1}
  FilesOf <- OneManifest
  Content = {c1}
  NoWorker = NoWorker
  NoToken = NoToken
  NoJob = NoJob
  NoFile = NoFile
  NoContent = NoContent
  Nobody = Nobody
  OtherStates <- SessionStates
  MaxRetries = 1
  MaxFaults = 1
  ManifestsOverlap = FALSE
  RepliesArrive = FALSE
  BackendCrashes = TRUE
PROPERTIES
  EveryUploadResolves
  EveryJobSettles
CHECK_DEADLOCK FALSE
