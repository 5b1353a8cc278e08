\* Two uploads, or edits of the product form, or edits of the curation form.
SPECIFICATION FairConsoleSpec
CONSTANTS
  Works <- MCWorks
  MaxTyped = 2
  MaxRevision = 3
  MaxFailures = 1
  MaxReads = 1
PROPERTIES
  SavesCoverSeenWork
  UploadsEndOnTheSession
CHECK_DEADLOCK FALSE
