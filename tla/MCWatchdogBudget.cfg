SPECIFICATION WatchdogSpec
CONSTANTS
  r1 = r1  r2 = r2
  Runs <- MCRuns
  Tick = 2
  WallClock = 5
  Lag = 1
  Horizon = 13
INVARIANT
  BudgetBinds
CHECK_DEADLOCK FALSE
