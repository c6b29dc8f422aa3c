SPECIFICATION Spec
CONSTANTS
  q1 = q1  q2 = q2  None = None
  Uploads = {q1, q2}
  Files <- StorableFiles
  Configured = TRUE
  Faults = {}
INVARIANT WellFormedRowsAreStored
SYMMETRY UploadSymmetry
CHECK_DEADLOCK FALSE
