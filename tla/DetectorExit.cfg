SPECIFICATION FairSpec
CONSTANTS
  Procs = {1, 2}
  Initial = {1}
  Timers = {"timer"}
  TreeOf <- FirstsTree
  Detached = {}
  StatusFails = {}
  ArgKeys = {}
  Argv <- NoArgs
  Signalled = {}
  Killed = {}
  MaxDetections = 1
  SlowHolder = TRUE
CHECK_DEADLOCK FALSE
PROPERTY ExitCompletes
