\* Two groups, three processing runs each, no edits, selection only between jobs.
SPECIFICATION ReviewSpec
CONSTANTS
  Group = {g1, g2}
  File = {f1, f2}
  NoGroup = NoGroup
  Output <- OwnOutput
  Digests <- OwnDigests
  NoOutput = NoOutput
  MaxRuns = 3
  MaxEdits = 0
  SelectDuringWork = FALSE
SYMMETRY Symmetry
INVARIANTS
  OneOpenJobPerGroup
  ProcessingHasWork
  OfferedSessionIsSettled
  PublicationsResolve
  OneCurrentVersion
CHECK_DEADLOCK FALSE
