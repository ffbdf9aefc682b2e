\* Four providers, two callers, a request made twice, two later revisions.
CONSTANTS
  c1 = c1
  c2 = c2
  Edited <- MCEdited
  Callers <- MCCallers
  Asked <- MCAsked
  MaxVersion = 2
  MaxTries = 2
SPECIFICATION Spec
INVARIANTS TypeOK SnapshotWhole NothingUnseenReplaced RepliesKept StillJoinable AppliedOnce ReportsTrue
PROPERTIES EditContract
SYMMETRY CallerSymmetry
CHECK_DEADLOCK FALSE
