\* An edit whose answer is lost.
SPECIFICATION StudioSpec
CONSTANTS
  MaxEdits = 1
  MaxRevision = 3
  MaxSends = 2
INVARIANTS
  DiscardedEditsStayOff
CHECK_DEADLOCK FALSE
