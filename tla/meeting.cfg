SPECIFICATION Spec
CONSTANTS
  MaxAttempts = 3
  MaxCrashes = 2
INVARIANTS TypeOK OneMeeting NothingLeftBehind
PROPERTIES MeetingKept RequestContract
CHECK_DEADLOCK FALSE
