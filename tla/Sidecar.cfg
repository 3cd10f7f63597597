SPECIFICATION FairSpec
CONSTANTS
  Pods = {p1, p2}
  Items = {d1}
  FINAL_PUBLISH_ATTEMPTS = 2
  MaxWrites <- OneBusy
  Busy = p1
  MaxFaults = 1
  MaxDeletes = 1
CHECK_DEADLOCK FALSE
INVARIANTS FinalIsPublished PublishInv
PROPERTIES SiblingsKept ListedIsPublished
