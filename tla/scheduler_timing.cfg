CONSTANTS
  TicksPerMillisecond = 2
  Intervals = {2, 3}
  MaximumTasks = 2
  MaximumElapsed = 100
  MaximumTaskId = 3
  MaximumTime = 16
CHECK_DEADLOCK FALSE
SPECIFICATION Spec
INVARIANT
  WaitEndsAtDeadline
PROPERTY
  CallsMatchDeadlines
