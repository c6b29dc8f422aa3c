SPECIFICATION FairSpec
CONSTANTS
  None = None
  Requests <- ThreeRequests
  Routes = {"health", "rejections", "report", "large_upload"}
  Threads = 2
  Connections = 1
INVARIANTS PoolInv LoopNeverWaits TrailHoldsNothingScarce
PROPERTIES AnswersFollowTheCommit EveryRequestIsAnswered
CHECK_DEADLOCK FALSE
