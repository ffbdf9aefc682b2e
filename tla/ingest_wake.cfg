SPECIFICATION FairSpec
CONSTANTS
  Msgs = {m1, m2}
  MaxHistory = 3
  PageSize = 1
  MaxPages = 3
  ListLimit = 1
  PullLimit = 4
  Bootstrap = FALSE
  WatchEnabled = TRUE
  Polling = FALSE
  MaxRenewals = 0
  MaxFaults = 0
  Environment = {"junk"}
  Foreign = Foreign
  Malformed = Malformed
PROPERTIES PushDelivers
CHECK_DEADLOCK FALSE
