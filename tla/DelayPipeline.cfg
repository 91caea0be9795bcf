SPECIFICATION Spec
CONSTANTS
  None = None
  Zips <- MCZips
  Lines = {"Q"}
  DayLength = 3
  MaxIndexAge = 1
  IndexSkew = 0
  Window = 0
  MaxAge = 1
  MaxSkew = 0
  Minute = 2
  MinDelay = 1
  MaxBuffer = 1
  FeedTTL = 2
  NFeeds = 2
  Refreshers = {r1, r2}
  r1 = r1
  r2 = r2
  Installed = "base"
  Steps <- MCSteps
  Estimates = {"guess"}
  Reports <- MCReports
  Datasets <- MCDatasets
  MaxTime = 2
  MaxEvents = 2
INVARIANTS TypeOK OwnTrainOnly
PROPERTIES IndexMovesForward PaddingIsCurrent
SYMMETRY Order
CHECK_DEADLOCK FALSE
