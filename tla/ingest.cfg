SPECIFICATION FairSpec
CONSTANTS
  q1 = q1  q2 = q2  None = None
  Uploads = {q1, q2}
  Files <- MixedFiles
  Configured = TRUE
  Faults <- AllFaults
INVARIANTS IngestionInv EveryRowIsAccountedFor TrailFollowsBatch PagesAreComplete
INVARIANT ErrorsLeaveAllOrNothing
PROPERTIES BatchesAppearAtOnce OutageNeverFailsUpload TrailExpires
CHECK_DEADLOCK FALSE
