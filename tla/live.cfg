SPECIFICATION Spec
CONSTANTS
  MaxRuns = 2
  MaxPages = 2
  MaxSessions = 2
  MaxKills = 1
  Values = {v1, v2}
  Attempts = 1
SYMMETRY ValueSymmetry
INVARIANTS OneTrader TradesWhatWasShown PageRunsAreSingle
PROPERTY PagesActOnWhatTheySaw
CHECK_DEADLOCK FALSE
