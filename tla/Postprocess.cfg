SPECIFICATION FairSpec
CONSTANTS
  None = None
  Commits = {"c1", "c2", "s1"}
  Abbrev <- MCAbbrev
  Unpinned = {"HEAD"}
  NormalRepo <- MCNormalRepo
  Scrape = 1
  SERIES_MAX_POINTS = 5
  SERIES_MIN_POINTS = 2
  SERIES_TARGET_POINTS = 5
  SERIES_MAX_SERIES_PER_METRIC = 2
  Pods = {"p1", "p2"}
  MaxExecutions = 2
  Inputs <- MCInputs
  Usage = {"gpu"}
  Serving = {"tokens"}
  Gauges = {"gpu"}
  RateWindow = 3
  TELEMETRY_RETRY_ATTEMPTS = 2
  BackoffLimit = 1
  Horizon = 11
CHECK_DEADLOCK FALSE
INVARIANTS
  TypeOK EntriesVerify CloneFollowsScript OneCheckout StatusIsWorst
  WindowsWithinRun RetriedUntilFound SeriesSeesStats FitSound RefStored
  LeftoversCostFaults
PROPERTIES PodsStart JobEnds JobTellsTruth
