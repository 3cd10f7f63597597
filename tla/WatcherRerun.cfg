SPECIFICATION Spec
CONSTANTS
  MaxRuns = 2
  Gpu = {1}
  Annotated = {2}
  Writing = {1, 2}
  maxPostprocessRetries = 2
  DebugKeep = FALSE
  Faults <- AllButListAndWrite
  Barred = {}
  MaxFaults = 1
  MaxCrashes = 0
  MaxToggles = 0
  MaxPending = 1
CHECK_DEADLOCK FALSE
INVARIANTS RunningHasInputs RunningInputsBelong InputsInv
PROPERTY RunningInputsFrozen
