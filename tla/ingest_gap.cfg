SPECIFICATION FairSpec
CONSTANTS
  Msgs = {m1, m2}
  MaxHistory = 3
  PageSize = 1
  MaxPages = 3
  ListLimit = 1
  PullLimit = 1
  Bootstrap = FALSE
  WatchEnabled = FALSE
  Polling = TRUE
  MaxRenewals = 1
  MaxFaults = 0
  Environment = {"expire"}
  Foreign = Foreign
  Malformed = Malformed
PROPERTIES GapReconciled
CHECK_DEADLOCK FALSE
