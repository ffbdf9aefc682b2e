SPECIFICATION FairSpec
CONSTANTS
  Msgs = {m1, m2, m3}
  MaxHistory = 5
  PageSize = 1
  MaxPages = 3
  ListLimit = 1
  PullLimit = 1
  Bootstrap = FALSE
  WatchEnabled = FALSE
  Polling = TRUE
  MaxRenewals = 1
  MaxFaults = 2
  Environment = {"archive"}
  Foreign = Foreign
  Malformed = Malformed
PROPERTIES CursorNeverRetreats IngestContract EveryMessageDelivered
CHECK_DEADLOCK FALSE
