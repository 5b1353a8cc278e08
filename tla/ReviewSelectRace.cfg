\* The code as it is: a version may be selected while jobs are open.
SPECIFICATION ReviewSpec
CONSTANTS
  Group = {g1, g2}
  File = {f1, f2}
  NoGroup = NoGroup
  Output <- OwnOutput
  Digests <- OwnDigests
  NoOutput = NoOutput
  MaxRuns = 3
  MaxEdits = 0
  SelectDuringWork = TRUE
SYMMETRY Symmetry
PROPERTIES
  ReviewMovesAreLegal
CHECK_DEADLOCK FALSE
