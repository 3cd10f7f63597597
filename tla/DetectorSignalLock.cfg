SPECIFICATION FairSpec
CONSTANTS
  Procs = {1}
  Initial = {1}
  Timers = {"timer"}
  TreeOf <- OwnTrees
  Detached = {}
  StatusFails = {}
  ArgKeys = {}
  Argv <- NoArgs
  Signalled = {1}
  Killed = {}
  MaxDetections = 1
  SlowHolder = FALSE
CHECK_DEADLOCK FALSE
PROPERTY ExitCompletes
