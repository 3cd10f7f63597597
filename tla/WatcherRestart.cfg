SPECIFICATION FairSpec
CONSTANTS
  MaxRuns = 1
  Gpu = {1}
  Annotated = {}
  Writing = {}
  maxPostprocessRetries = 2
  DebugKeep = FALSE
  Faults <- Survivable
  Barred = {}
  MaxFaults = 1
  MaxCrashes = 1
  MaxToggles = 0
  MaxPending = 1
CHECK_DEADLOCK FALSE
INVARIANT TypeOK
PROPERTIES HeldUntilStarted FinishedIsStarted StartedIsResolved
