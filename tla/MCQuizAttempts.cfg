CONSTANTS
  MaxRequests = 2
  Together = {{"backup", "create"}, {"backup", "view"}, {"backup", "start"},
              {"backup", "extend"}, {"backup", "update"}, {"create", "view"}}
  Killed = {"backup", "create", "view", "extend"}
  MaxAttempts = 2
  MaxPoints = 1
  MaxVersions = 2
SPECIFICATION LiveSpec
INVARIANTS
  EveryAttemptGraded
  ShownIsRecorded
  KeptIsPolicy
  GradedOnce
PROPERTIES
  EndedIsGraded
CHECK_DEADLOCK FALSE
