SPECIFICATION Spec
CONSTANTS
  Task = {c1, c2}
  NoTask = NoTask
  Exit = Exit
CHECK_DEADLOCK FALSE
INVARIANT FailedStartsLeaveNothing
