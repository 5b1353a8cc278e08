\* Two workers with one id, two files, two upload attempts; every failure is the last.
SPECIFICATION ImportSpec
CONSTANTS
  p1 = p1
  p2 = p2
  w1 = w1
  f1 = f1
  f2 = f2
  m1 = m1
  m2 = m2
  Process = {p1, p2}
  WorkerId = {w1}
  IdOf <- MCIdOf
  Job = {a1, a2, g1, g2}
  GroupJob = {g1, g2}
  Token = {t1, t2, t3}
  File = {f1, f2}
  Manifest = {m1}
  FilesOf <- OneManifest
  Content = {c1, c2}
  NoWorker = NoWorker
  NoToken = NoToken
  NoJob = NoJob
  NoFile = NoFile
  NoContent = NoContent
  Nobody = Nobody
  OtherStates <- SessionStates
  MaxRetries = 0
  MaxFaults = 1
  ManifestsOverlap = FALSE
  RepliesArrive = TRUE
  BackendCrashes = TRUE
SYMMETRY Symmetry
INVARIANTS
  CountersMatchRows
  RecordedFilesHaveEvidence
  OneArchiveJobPerFile
  StagedWhileActive
  CheckpointIsEarned
  GroupsCoverTheArchive
PROPERTIES
  UsesTheQueue
CHECK_DEADLOCK FALSE
