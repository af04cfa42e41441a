SPECIFICATION StoresSpec
CONSTANTS
  m1 = m1
  m2 = m2
  Markets = {m1, m2}
  Created <- MCCreated
  DayTicks = 1
  Starts = {0}
  Horizon = 3
  MaxFaults = 1
  MaxMoves = 1
  MovesMidRun = FALSE
  Combo = {2}
  Last = 2
  Cap = 1
  MaxAge = 1
  EventCalls = 3
  Period = 2
  MaxCandles = 3
  CandlesUntil = 8
  Opens = {0, 1}
  Closes = {1, 7, 8}
  MinSeen = 2
  MinEvents = 2
  MarketCalls = 2
  Seed <- MCSeed
  PageSets <- MCPages
  OldFiles <- MCOldFiles
  Typed <- MCTyped
  MaxOpened = 1
  Others <- MCOthers
  Listed <- MCListed
  Absent = Absent
  Damaged = Damaged
INVARIANTS ServedIsComplete RunsAreAsked SettingsAreKept
PROPERTIES NeverForgets StoresAreKept
CHECK_DEADLOCK FALSE
