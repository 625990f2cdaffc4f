SPECIFICATION FairServerSpec
CONSTANTS
  c1 = c1  c2 = c2  c3 = c3
  Requests <- MCRequests
  PoolSize = 1
INVARIANTS
  AnswersAreTrue
  CancelledOnlyIfGone
PROPERTIES
  WaitersAnswered
  ShutdownCompletes
  ServesRuns
CHECK_DEADLOCK FALSE
