SPECIFICATION Spec
CONSTANTS
  Msgs = {m1, m2}
  MaxHistory = 3
  PageSize = 1
  MaxPages = 1
  ListLimit = 1
  PullLimit = 1
  Bootstrap = TRUE
  WatchEnabled = TRUE
  Polling = TRUE
  MaxRenewals = 1
  MaxFaults = 1
  Environment = {"archive", "delete", "expire", "junk", "disconnect"}
  Foreign = Foreign
  Malformed = Malformed
SYMMETRY MessageSymmetry
INVARIANTS TypeOK CursorCoversDelivered AckedOnlyIfDelivered CleanedUp
CHECK_DEADLOCK FALSE
