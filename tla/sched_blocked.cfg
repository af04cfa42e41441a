SPECIFICATION Spec
CONSTANTS
  Week = 6
  MaxRetries = 2
  Horizon = 19
  MaxCrashes = 0
  MaxFaults = 0
  MaxSleeps = 0
INVARIANTS NeverBlockedPastFire
