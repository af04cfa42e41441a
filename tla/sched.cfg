SPECIFICATION Spec
CONSTANTS
  Week = 6
  MaxRetries = 2
  Horizon = 19
  MaxCrashes = 2
  MaxFaults = 1
  MaxSleeps = 1
INVARIANTS SlotsNotRepeated SlotsNotMissed
