SPECIFICATION TurnSpec
CONSTANTS
  MaxRetries = 2
  Timeout = 1
  RetryAfters = {0, 2, 10}
  LongestRetryAfter = 10
  Cap = 4
  FetchTimeout = 3
  BodyLens = {0, 2, 4, 7}
INVARIANTS
  AttemptsBounded
  FailsOnlyInTheEnd
  CallTimeBounded
  UnmarkedIsWhole
  FetchTimeBounded
PROPERTIES
  FinalIsFinal
  TurnComesBack
CHECK_DEADLOCK FALSE
