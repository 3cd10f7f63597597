SPECIFICATION Spec
CONSTANTS
  Procs = {1, 2}
  Initial = {1}
  Timers = {"timer"}
  TreeOf <- NoTrees
  Detached = {}
  StatusFails = {}
  ArgKeys = {}
  Argv <- NoArgs
  Signalled = {}
  Killed = {}
  MaxDetections = 2
  SlowHolder = FALSE
CHECK_DEADLOCK FALSE
INVARIANT ExitedIsFlushed
