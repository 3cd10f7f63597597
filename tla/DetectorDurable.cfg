SPECIFICATION HostedSpec
CONSTANTS
  Procs = {1}
  Initial = {1}
  Host = 1
  Timers = {"t1", "t2"}
  TreeOf <- NoTrees
  Detached = {}
  StatusFails = {}
  ArgKeys = {"epochs"}
  Argv <- OwnArgs
  Signalled = {1}
  Killed = {}
  MaxDetections = 2
  SlowHolder = FALSE
  Importers = {"main", "worker"}
  Modules = {"helper", "torch", "transformers"}
  Triggers = {"torch", "transformers"}
  Imports <- TopLevel
  HookImports <- OfHook
  Archive = {"helper", "torch"}
  Script <- TwoThreads
  Models = 3
  MaxFaults = 2
CHECK_DEADLOCK FALSE
INVARIANT BoundIsHooked
PROPERTIES RecordedIsWritten ExitCompletes FirstModelKept ImportsEnd
