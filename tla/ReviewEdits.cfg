\* Two groups and three files, one processing run each, up to four human edits.
SPECIFICATION ReviewSpec
CONSTANTS
  Group = {g1, g2}
  File = {f1, f2, f3}
  NoGroup = NoGroup
  Output <- OwnOutput
  Digests <- OwnDigests
  NoOutput = NoOutput
  MaxRuns = 1
  MaxEdits = 4
  SelectDuringWork = FALSE
SYMMETRY Symmetry
INVARIANTS
  AssetsMatchMembers
  GroupsPartitionFiles
CHECK_DEADLOCK FALSE
