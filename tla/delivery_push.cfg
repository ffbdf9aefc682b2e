\* Web push alone.
CONSTANTS
  Observed <- PushOnly
  MaxAttempts = 2
SPECIFICATION Spec
INVARIANTS PushSentOnce
CHECK_DEADLOCK FALSE
