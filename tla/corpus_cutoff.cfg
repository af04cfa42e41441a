SPECIFICATION Spec
CONSTANTS
  m1 = m1
  m2 = m2
  Markets = {m1, m2}
  Created <- MCCreated
  DayTicks = 1
  Starts = {0}
  Horizon = 3
  MaxFaults = 1
  MaxMoves = 1
  MovesMidRun = TRUE
INVARIANT CompleteBelowFrontier
CHECK_DEADLOCK FALSE
