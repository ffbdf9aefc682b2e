SPECIFICATION FairSpec
CONSTANTS
  Msgs = {m1, m2}
  MaxHistory = 3
  PageSize = 1
  MaxPages = 3
  ListLimit = 1
  PullLimit = 1
  Bootstrap = FALSE
  WatchEnabled = TRUE
  Polling = TRUE
  MaxRenewals = 1
  MaxFaults = 0
  Environment = {}
  Foreign = Foreign
  Malformed = Malformed
PROPERTIES WatchRenewed
CHECK_DEADLOCK FALSE
