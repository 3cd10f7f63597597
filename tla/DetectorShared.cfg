SPECIFICATION Spec
CONSTANTS
  Procs = {1, 2}
  Initial = {1, 2}
  Timers = {"timer"}
  TreeOf <- OwnTrees
  Detached = {1}
  StatusFails = {}
  ArgKeys = {"epochs", "lr"}
  Argv <- TwoArgs
  Signalled = {2}
  Killed = {2}
  MaxDetections = 1
  SlowHolder = FALSE
CHECK_DEADLOCK FALSE
INVARIANTS FlockInv GitOneObservation ExitedIsFlushed
PROPERTY FileOnlyGrows
