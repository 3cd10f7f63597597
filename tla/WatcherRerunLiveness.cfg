SPECIFICATION FairSpec
CONSTANTS
  MaxRuns = 2
  Gpu = {1, 2}
  Annotated = {}
  Writing = {}
  maxPostprocessRetries = 2
  DebugKeep = FALSE
  Faults = {}
  Barred = {2}
  MaxFaults = 0
  MaxCrashes = 0
  MaxToggles = 1
  MaxPending = 1
CHECK_DEADLOCK FALSE
PROPERTIES FinalizerReleased OptOutReleases
