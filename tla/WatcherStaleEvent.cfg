SPECIFICATION Spec
CONSTANTS
  MaxRuns = 2
  Gpu = {1, 2}
  Annotated = {}
  Writing = {1}
  maxPostprocessRetries = 2
  DebugKeep = FALSE
  Faults = {}
  Barred = {}
  MaxFaults = 0
  MaxCrashes = 0
  MaxToggles = 0
  MaxPending = 2
CHECK_DEADLOCK FALSE
INVARIANT AnnotatedWasStarted
