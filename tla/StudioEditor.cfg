\* Three edits, undos or redos, sent three times.
SPECIFICATION StudioSpec
CONSTANTS
  MaxEdits = 3
  MaxRevision = 3
  MaxSends = 3
INVARIANTS
  StudioTypeOK
  EditsAreAccountedFor
  EditsApplyInOrder
CHECK_DEADLOCK FALSE
